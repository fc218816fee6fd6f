----------------------------- MODULE IspSession -----------------------------
(***************************************************************************)
(* The start of a session of usart-util: isp_init(), echo(fd, 0),          *)
(* read_boot_code_version() and read_part_id(), as main() calls them,      *)
(* against the loader at the other end of the serial line.                 *)
(*                                                                         *)
(* The line is two queues of characters.  A text such as "Synchronized"    *)
(* is one character here, and "nl" stands for "\r\n".  Characters may be   *)
(* lost or corrupted, at most MaxFaults of them, and an answer may come    *)
(* later than the 0.5 s that read() waits.                                 *)
(* Definitions under "Mistake" are not part of the model: each stands for  *)
(* a plausible error in the definition after it.                           *)
(***************************************************************************)
EXTENDS Integers, Sequences

CONSTANTS Retry,      \* RETRY of main.c
          LineLimit,  \* characters com_gets accepts in a line
          MaxFaults,  \* bound on lost and corrupted characters
          Starts      \* what the host may find at the other end

VARIABLES
  \* host
  phase,        \* what the host is doing
  tries,        \* '?' sent so far
  step,         \* request being made
  pos,          \* next character of the request to send
  buf,          \* characters of the line being read by com_gets
  got,          \* lines of the answer read
  echo_disable,
  \* loader
  mode,         \* "autobaud", "sync", "clock" or "command"
  echoOn,
  line,         \* characters of the line being received
  slow,         \* may read() time out while the loader is still busy?
  \* serial line
  toTarget, toHost, faults

host   == <<phase, tries, step, pos, buf, got, echo_disable>>
loader == <<mode, echoOn, line, slow>>
vars   == <<host, loader, toTarget, toHost, faults>>

Char == {"?", "S", "F", "A", "K", "J", "OK", "0", "1", "v", "nl", "x"}

\* A loader that has been reset or has not had its clock yet echoes.  What is
\* left of an earlier session on the line is neither a whole line nor a
\* handshake.
ASSUME SessionAssumption ==
  /\ Retry \in Nat /\ LineLimit \in Nat \ {0} /\ MaxFaults \in Nat
  /\ \A s \in Starts :
       /\ s.mode \in {"autobaud", "sync", "clock", "command"}
       /\ s.echo \in BOOLEAN /\ (s.mode # "command" => s.echo)
       /\ s.queue \in Seq(Char \ {"S", "OK", "nl"})

\* Synchronized, 12000, A 0, K and J.
Request == << <<"S", "nl">>, <<"F", "nl">>, <<"A", "nl">>,
              <<"K", "nl">>, <<"J", "nl">> >>

AnswerLines == <<1, 1, 1, 3, 2>>

\* The mode of the loader when it is ready for a request.
ModeFor == <<"sync", "clock", "command", "command", "command">>

\* Is l the line that the host wants at this point of the answer?  Return
\* codes and numbers are read with sscanf, from the start of the line.
Wanted(l) == CASE step <= 2             -> l = <<"OK", "nl">>
               [] step > 2 /\ got = 0   -> Head(l) = "0"
               [] OTHER                 -> Head(l) \in {"v", "0", "1"}

-----------------------------------------------------------------------------
(* Host.                                                                   *)

\* Mistake: the last try is not made.
AskOnceLess ==
  /\ phase = "ask"
  /\ IF tries + 1 < Retry
     THEN /\ toTarget' = Append(toTarget, "?")
          /\ tries' = tries + 1
          /\ phase' = "answer"
     ELSE /\ phase' = "failed"
          /\ UNCHANGED <<toTarget, tries>>
  /\ buf' = <<>>
  /\ UNCHANGED <<step, pos, got, echo_disable, loader, toHost, faults>>

\* isp_init sends '?' without waiting for an echo.
Ask ==
  /\ phase = "ask"
  /\ IF tries < Retry
     THEN /\ toTarget' = Append(toTarget, "?")
          /\ tries' = tries + 1
          /\ phase' = "answer"
     ELSE /\ phase' = "failed"
          /\ UNCHANGED <<toTarget, tries>>
  /\ buf' = <<>>
  /\ UNCHANGED <<step, pos, got, echo_disable, loader, toHost, faults>>

NextRequest(k) ==
  /\ phase' = "send" /\ step' = k /\ pos' = 1

\* A complete line l has been read.
TakeLine(l) ==
  \/ /\ phase = "answer" /\ l = <<"S", "nl">>
     /\ NextRequest(1)
     /\ UNCHANGED <<got, echo_disable>>
  \/ /\ phase = "answer" /\ l # <<"S", "nl">>
     /\ phase' = "ask"
     /\ UNCHANGED <<step, pos, got, echo_disable>>
  \/ /\ phase = "get" /\ ~Wanted(l)
     /\ phase' = "failed"
     /\ UNCHANGED <<step, pos, got, echo_disable>>
  \/ /\ phase = "get" /\ Wanted(l) /\ got + 1 < AnswerLines[step]
     /\ got' = got + 1
     /\ UNCHANGED <<phase, step, pos, echo_disable>>
  \/ /\ phase = "get" /\ Wanted(l) /\ got + 1 = AnswerLines[step]
     /\ got' = 0
     /\ echo_disable' = (echo_disable \/ step = 3)
     /\ IF step < Len(Request)
        THEN NextRequest(step + 1)
        ELSE phase' = "ready" /\ UNCHANGED <<step, pos>>

\* Mistake: one character more than the buffer of com_gets holds.
GetCharPastEnd ==
  /\ phase \in {"answer", "get"}
  /\ toHost # <<>> /\ Head(toHost) # "nl" /\ Len(buf) < LineLimit
  /\ buf' = Append(buf, Head(toHost))
  /\ toHost' = Tail(toHost)
  /\ UNCHANGED <<phase, step, pos, got, echo_disable, tries, loader, toTarget, faults>>

\* com_gets: one more character of a line.
GetChar ==
  /\ phase \in {"answer", "get"}
  /\ toHost # <<>>
  /\ LET l == Append(buf, Head(toHost)) IN
       \/ /\ Head(toHost) = "nl"
          /\ TakeLine(l)
          /\ buf' = <<>>
       \/ /\ Head(toHost) # "nl" /\ Len(l) < LineLimit
          /\ buf' = l
          /\ UNCHANGED <<phase, step, pos, got, echo_disable>>
       \/ /\ Head(toHost) # "nl" /\ Len(l) = LineLimit      \* ERROR_SIZE
          /\ buf' = <<>>
          /\ phase' = IF phase = "answer" THEN "ask" ELSE "failed"
          /\ UNCHANGED <<step, pos, got, echo_disable>>
  /\ toHost' = Tail(toHost)
  /\ UNCHANGED <<tries, loader, toTarget, faults>>

\* com_write: the whole line at once when echo is off, else one character.
SendChars ==
  /\ phase = "send"
  /\ IF echo_disable
     THEN /\ toTarget' = toTarget \o Request[step]
          /\ phase' = "get"
     ELSE /\ toTarget' = Append(toTarget, Request[step][pos])
          /\ phase' = "echo"
  /\ UNCHANGED <<tries, step, pos, buf, got, echo_disable, loader, toHost, faults>>

\* Mistake: the echo is read but not compared.
GetAnyEcho ==
  /\ phase = "echo"
  /\ toHost # <<>>
  /\ toHost' = Tail(toHost)
  /\ phase' = IF pos < Len(Request[step]) THEN "send" ELSE "get"
  /\ pos' = pos + 1
  /\ UNCHANGED <<tries, step, buf, got, echo_disable, loader, toTarget, faults>>

\* com_write: the character that comes back must be the one sent.
GetEcho ==
  /\ phase = "echo"
  /\ toHost # <<>>
  /\ toHost' = Tail(toHost)
  /\ IF Head(toHost) # Request[step][pos]
     THEN phase' = "failed" /\ UNCHANGED pos
     ELSE /\ phase' = IF pos < Len(Request[step]) THEN "send" ELSE "get"
          /\ pos' = pos + 1
  /\ UNCHANGED <<tries, step, buf, got, echo_disable, loader, toTarget, faults>>

\* Mistake: com_read waits for the echo again and again.
TimeoutKeepsWaiting ==
  /\ phase \in {"answer", "echo", "get"}
  /\ toHost = <<>>
  /\ slow \/ toTarget = <<>>
  /\ phase' = CASE phase = "answer" -> "ask" [] phase = "echo" -> "echo"
                [] OTHER -> "failed"
  /\ buf' = <<>>
  /\ UNCHANGED <<tries, step, pos, got, echo_disable, loader, toTarget, toHost, faults>>

\* read() returns nothing: isp_init asks again, everybody else gives up.
Timeout ==
  /\ phase \in {"answer", "echo", "get"}
  /\ toHost = <<>>
  /\ slow \/ toTarget = <<>>
  /\ phase' = IF phase = "answer" THEN "ask" ELSE "failed"
  /\ buf' = <<>>
  /\ UNCHANGED <<tries, step, pos, got, echo_disable, loader, toTarget, toHost, faults>>

-----------------------------------------------------------------------------
(* Loader, as the host uses it.                                            *)

\* What the loader answers to a complete line, and its next mode.
Reply ==
  CASE mode = "sync" /\ line = <<"S">>  -> <<"OK", "nl">>
    [] mode = "clock" /\ line = <<"F">> -> <<"OK", "nl">>
    [] mode \in {"sync", "clock"} /\ line \notin {<<"S">>, <<"F">>} -> <<>>
    [] mode = "command" /\ line = <<"A">> -> <<"0", "nl">>
    [] mode = "command" /\ line = <<"K">> -> <<"0", "nl", "v", "nl", "v", "nl">>
    [] mode = "command" /\ line = <<"J">> -> <<"0", "nl", "v", "nl">>
    [] OTHER -> <<"1", "nl">>

NextMode == CASE mode = "sync" -> IF line = <<"S">> THEN "clock" ELSE "autobaud"
              [] mode = "clock" -> IF line = <<"F">> THEN "command" ELSE "clock"
              [] OTHER -> "command"

LoaderChar ==
  /\ toTarget # <<>>
  /\ toTarget' = Tail(toTarget)
  /\ LET c == Head(toTarget)
         echoed == IF echoOn THEN <<c>> ELSE <<>>
     IN \/ /\ mode = "autobaud"
           /\ IF c = "?" THEN /\ mode' = "sync" /\ echoOn' = TRUE
                              /\ toHost' = toHost \o <<"S", "nl">>
                         ELSE UNCHANGED <<mode, echoOn, toHost>>
           /\ line' = <<>>
        \/ /\ mode # "autobaud" /\ c # "nl"
           /\ line' = Append(line, c)
           /\ toHost' = toHost \o echoed
           /\ UNCHANGED <<mode, echoOn>>
        \/ /\ mode # "autobaud" /\ c = "nl"
           /\ line' = <<>>
           /\ toHost' = toHost \o echoed \o Reply
           /\ mode' = NextMode
           /\ echoOn' = (echoOn /\ ~(mode = "command" /\ line = <<"A">>))
  /\ UNCHANGED <<host, faults, slow>>

-----------------------------------------------------------------------------
(* The line, and the operating system.                                     *)

Fault == faults < MaxFaults /\ faults' = faults + 1

LoseChar ==
  /\ Fault
  /\ \/ toTarget # <<>> /\ toTarget' = Tail(toTarget) /\ UNCHANGED toHost
     \/ toHost # <<>> /\ toHost' = Tail(toHost) /\ UNCHANGED toTarget
  /\ UNCHANGED <<host, loader>>

\* A bit flips: the character becomes noise, or a return code becomes '0'.
CorruptChar ==
  /\ Fault
  /\ \E c \in {"x", "0"} :
       \/ /\ toTarget # <<>>
          /\ toTarget' = [toTarget EXCEPT ![1] = c] /\ UNCHANGED toHost
       \/ /\ toHost # <<>>
          /\ toHost' = [toHost EXCEPT ![1] = c] /\ UNCHANGED toTarget
  /\ UNCHANGED <<host, loader>>

Ended == phase \in {"ready", "failed"}

\* write() or read() fails.
IoError ==
  /\ ~Ended
  /\ Fault
  /\ phase' = "failed"
  /\ UNCHANGED <<tries, step, pos, buf, got, echo_disable, loader, toTarget, toHost>>

-----------------------------------------------------------------------------
Init ==
  /\ phase = "ask" /\ tries = 0 /\ step = 0 /\ pos = 1
  /\ buf = <<>> /\ got = 0 /\ echo_disable = FALSE
  /\ \E s \in Starts : mode = s.mode /\ echoOn = s.echo /\ toTarget = s.queue
  /\ line = <<>> /\ toHost = <<>> /\ faults = 0
  /\ slow \in BOOLEAN

Host == Ask \/ GetChar \/ SendChars \/ GetEcho \/ Timeout

Next == Host \/ LoaderChar \/ LoseChar \/ CorruptChar \/ IoError

Spec == Init /\ [][Next]_vars

\* read() returns, and the loader reads its input.
FairSpec == Spec /\ WF_vars(Host) /\ WF_vars(LoaderChar)

-----------------------------------------------------------------------------
\* The ranges of the variables; com_gets stays within its buffer.
TypeOK ==
  /\ phase \in {"ask", "answer", "send", "echo", "get", "ready", "failed"}
  /\ tries \in 0 .. Retry
  /\ step \in 0 .. Len(Request)
  /\ pos \in 1 .. 3
  /\ buf \in Seq(Char \ {"nl"}) /\ Len(buf) < LineLimit
  /\ got \in 0 .. 2
  /\ echo_disable \in BOOLEAN
  /\ mode \in {"autobaud", "sync", "clock", "command"}
  /\ echoOn \in BOOLEAN
  /\ line \in Seq(Char \ {"nl"})
  /\ toTarget \in Seq(Char) /\ toHost \in Seq(Char)
  /\ faults \in 0 .. MaxFaults /\ slow \in BOOLEAN

Quiet == toTarget = <<>> /\ toHost = <<>> /\ line = <<>>

\* From the first "OK" on, host and loader are in step whenever the host is
\* about to make a request, and when main() starts the transfer: the loader
\* is in the mode that the request needs, both agree on echo, and no stale
\* character is on its way (main.c:192-216, com_write, com_gets).
Lockstep ==
  /\ phase = "send" /\ pos = 1 /\ step >= 2 =>
       Quiet /\ mode = ModeFor[step] /\ echoOn = ~echo_disable
  /\ phase = "ready" => Quiet /\ mode = "command" /\ ~echoOn /\ echo_disable

\* The handshake ends: no '?' without a bound, no read() without an end.
SessionEnds == <>Ended

\* As long as a loader that answers in time has not seen a '?', losing some
\* costs nothing but tries (isp_init, command.c:161-180).
RetryHelps ==
  (/\ phase = "ask" /\ tries < Retry /\ faults = MaxFaults /\ ~slow
   /\ mode = "autobaud" /\ toTarget = <<>> /\ toHost = <<>>) ~> (phase = "ready")
=============================================================================
