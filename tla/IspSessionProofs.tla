-------------------------- MODULE IspSessionProofs --------------------------
(***************************************************************************)
(* Theorems about IspSession for every number of tries, line buffer, place *)
(* where the loader may be found, and number of lost or corrupted          *)
(* characters.                                                             *)
(***************************************************************************)
EXTENDS IspSession, SequenceTheorems, TLAPS

Has(q, c) == \E k \in 1 .. Len(q) : q[k] = c

\* A line ends where the queue ends, or only lines of one character follow.
EndsLine(q) == \A k \in 1 .. Len(q) : q[k] = "nl" => k = Len(q)
EndsLines(q) == \A k \in 1 .. Len(q) : q[k] = "nl" => Len(q) - k \in {0, 2, 4}

\* "OK" and the end of its line are the last on the queue.
EndsOK(q) == \A k \in 1 .. Len(q) : q[k] = "OK" => Len(q) <= k + 1

\* The whole request is on its way or has arrived.
Sent == phase = "get" \/ (phase = "echo" /\ pos = 2)

\* Where the host is.
Place ==
  /\ phase \in {"ask", "answer"} <=> step = 0
  /\ phase \in {"send", "echo"} => pos \in {1, 2}
  /\ step \in {0, 1, 2, 3} => ~echo_disable /\ got = 0
  /\ step \in {4, 5} => echo_disable /\ pos = 1 /\ phase # "echo"
  /\ phase = "ready" => step = 5

\* No end of a line has been sent: "Synchronized" on the line to the host is
\* from a loader that waits for it.
Asking ==
  /\ ~Has(toTarget, "nl") /\ ~Has(toTarget, "S")
  /\ ~Has(buf, "OK") /\ ~Has(toHost, "OK")
  /\ Has(buf, "S") \/ Has(toHost, "S") => mode = "sync"

\* Until the loader has answered there is no "OK", however old what is on the
\* line may be; once it has, nothing follows its "OK" and nothing is left for
\* it to read.
Synchronizing ==
  /\ echoOn
  /\ mode = ModeFor[step] =>
       /\ ~Has(buf, "OK") /\ ~Has(toHost, "OK")
       /\ EndsLine(toTarget)
       /\ Has(toTarget, "nl") => Sent
  /\ mode # ModeFor[step] =>
       /\ Sent /\ toTarget = <<>> /\ line = <<>>
       /\ Has(buf, "OK") \/ Has(toHost, "OK") => mode = ModeFor[step + 1]
       /\ Has(buf, "OK") => Len(toHost) <= 1
       /\ EndsOK(toHost)
  /\ step = 2 /\ phase = "send" /\ pos = 1 => Quiet /\ mode = "clock"

\* "A 0": an echo that is right means that the loader has the character, and
\* the right end of the line is the echo of a loader that obeys.
EchoOff ==
  /\ mode = "command"
  /\ phase = "send" /\ pos = 1 => Quiet /\ echoOn
  /\ phase = "echo" /\ pos = 1 =>
       /\ echoOn
       /\ ~Has(toTarget, "nl") /\ ~Has(toHost, "nl")
       /\ Len(toTarget) + Len(line) <= 1
       /\ toHost # <<>> => toTarget = <<>> /\ Len(toHost) = 1
       /\ Has(toHost, "A") => line = <<"A">>
  /\ phase = "send" /\ pos = 2 =>
       toTarget = <<>> /\ toHost = <<>> /\ line = <<"A">> /\ echoOn
  /\ Sent /\ echoOn =>
       /\ phase = "echo" /\ ~Has(toHost, "nl")
       /\ toTarget # <<>> => Len(toTarget) = 1 /\ line = <<"A">> /\ toHost = <<>>
  /\ Sent /\ ~echoOn =>
       /\ toTarget = <<>> /\ line = <<>> /\ EndsLines(toHost)
       /\ Len(toHost) <= IF phase = "echo" THEN 3 ELSE 2

\* K and J: one answer at most, of at most the lines that the host reads.
Commanding ==
  /\ mode = "command" /\ ~echoOn
  /\ phase = "send" => Quiet /\ got = 0
  /\ phase = "get" =>
       /\ EndsLine(toTarget) /\ EndsLines(toHost)
       /\ toHost # <<>> \/ got > 0 => toTarget = <<>> /\ line = <<>>
       /\ 2 * got + Len(toHost) <= 2 * AnswerLines[step]
       /\ step = 5 => ~Has(toTarget, "K") /\ ~Has(line, "K")

Live ==
  /\ Place
  /\ ~Has(toTarget, "OK")
  /\ mode # "command" => echoOn
  /\ step = 0 => Asking
  /\ step \in {1, 2} => Synchronizing
  /\ step = 3 => EchoOff
  /\ step \in {4, 5} /\ phase # "ready" => Commanding
  /\ phase = "ready" => Quiet /\ mode = "command" /\ ~echoOn

IInv == TypeOK /\ (phase # "failed" => Live)

-----------------------------------------------------------------------------
(* Queues of characters.                                                    *)

LEMMA Empty ==
  /\ <<>> \in Seq(Char) /\ Len(<<>>) = 0
  /\ \A q \in Seq(Char) : Len(q) \in Nat /\ (Len(q) = 0 <=> q = <<>>)
  /\ \A c : ~Has(<<>>, c)
  /\ EndsLine(<<>>) /\ EndsLines(<<>>) /\ EndsOK(<<>>)
BY EmptySeq DEF Has, EndsLine, EndsLines, EndsOK

LEMMA Added ==
  ASSUME NEW q \in Seq(Char), NEW c \in Char
  PROVE  /\ Append(q, c) \in Seq(Char) /\ Len(Append(q, c)) = Len(q) + 1
         /\ \A d : Has(Append(q, c), d) <=> Has(q, d) \/ d = c
         /\ ~Has(q, "nl") => EndsLine(Append(q, c))
<1>1. /\ Append(q, c) \in Seq(Char) /\ Len(Append(q, c)) = Len(q) + 1
      /\ \A k \in 1 .. Len(q) : Append(q, c)[k] = q[k]
      /\ Append(q, c)[Len(q) + 1] = c
      /\ Len(q) \in Nat
  BY AppendProperties
<1> DEFINE r == Append(q, c)
<1> HIDE DEF r
<1>2. /\ r \in Seq(Char) /\ Len(r) = Len(q) + 1 /\ Len(q) \in Nat
      /\ \A k \in 1 .. Len(q) : r[k] = q[k]
      /\ r[Len(q) + 1] = c
  BY <1>1 DEF r
<1>3. ASSUME NEW d
      PROVE  Has(r, d) <=> Has(q, d) \/ d = c
  BY <1>2 DEF Has
<1>4. ~Has(q, "nl") => EndsLine(r)
  BY <1>2 DEF Has, EndsLine
<1>5. QED
  BY <1>2, <1>3, <1>4 DEF r

LEMMA Joined ==
  ASSUME NEW q \in Seq(Char), NEW r \in Seq(Char)
  PROVE  /\ q \o r \in Seq(Char) /\ Len(q \o r) = Len(q) + Len(r)
         /\ \A d : Has(q \o r, d) <=> Has(q, d) \/ Has(r, d)
         /\ ~Has(q, "OK") /\ EndsOK(r) => EndsOK(q \o r)
<1> DEFINE s == q \o r
<1>1. /\ s \in Seq(Char) /\ Len(s) = Len(q) + Len(r)
      /\ \A k \in 1 .. Len(q) + Len(r) :
           s[k] = IF k <= Len(q) THEN q[k] ELSE r[k - Len(q)]
      /\ Len(q) \in Nat /\ Len(r) \in Nat
  BY ConcatProperties
<1> HIDE DEF s
<1>2. ASSUME NEW d
      PROVE  Has(s, d) <=> Has(q, d) \/ Has(r, d)
  <2>1. ASSUME Has(s, d)
        PROVE  Has(q, d) \/ Has(r, d)
    BY <1>1, <2>1 DEF Has
  <2>2. ASSUME Has(q, d)
        PROVE  Has(s, d)
    BY <1>1, <2>2 DEF Has
  <2>3. ASSUME Has(r, d)
        PROVE  Has(s, d)
    <3>1. PICK k \in 1 .. Len(r) : r[k] = d
      BY <2>3 DEF Has
    <3>2. /\ k + Len(q) \in 1 .. Len(q) + Len(r) /\ ~(k + Len(q) <= Len(q))
          /\ (k + Len(q)) - Len(q) = k
      BY <1>1
    <3>3. s[k + Len(q)] = d
      BY <1>1, <3>1, <3>2
    <3>4. QED
      BY <1>1, <3>2, <3>3 DEF Has
  <2>4. QED
    BY <2>1, <2>2, <2>3
<1>3. ~Has(q, "OK") /\ EndsOK(r) => EndsOK(s)
  <2> SUFFICES ASSUME ~Has(q, "OK"), EndsOK(r), NEW k \in 1 .. Len(s), s[k] = "OK"
               PROVE  Len(s) <= k + 1
    BY DEF EndsOK
  <2>1. ~(k <= Len(q))
    BY <1>1 DEF Has
  <2>2. k - Len(q) \in 1 .. Len(r) /\ r[k - Len(q)] = "OK"
    BY <1>1, <2>1
  <2>3. Len(r) <= (k - Len(q)) + 1
    BY <2>2 DEF EndsOK
  <2>4. QED
    BY <1>1, <2>3
<1>4. QED
  BY <1>1, <1>2, <1>3 DEF s

\* Reading a character, losing or corrupting one.
Damaged(q, r) ==
  \/ r = q
  \/ q # <<>> /\ r = Tail(q)
  \/ q # <<>> /\ \E c \in {"x", "0"} : r = [q EXCEPT ![1] = c]

Sound(q, r) ==
  /\ r \in Seq(Char) /\ Len(r) <= Len(q) /\ (q = <<>> => r = <<>>)
  /\ \A d \in {"nl", "S", "OK", "A", "K"} : Has(r, d) => Has(q, d)
  /\ EndsLine(q) => EndsLine(r)
  /\ EndsLines(q) => EndsLines(r)
  /\ EndsOK(q) => EndsOK(r)

LEMMA Removed ==
  ASSUME NEW q \in Seq(Char), q # <<>>
  PROVE  /\ Head(q) \in Char /\ Tail(q) \in Seq(Char) /\ Len(Tail(q)) = Len(q) - 1
         /\ Head(q) = q[1] /\ Has(q, Head(q)) /\ Len(q) >= 1
         /\ Sound(q, Tail(q))
         /\ EndsLine(q) /\ Head(q) = "nl" => Tail(q) = <<>>
         /\ EndsLines(q) /\ Head(q) = "nl" => Len(q) \in {1, 3, 5}
         /\ EndsOK(q) /\ Head(q) = "OK" => Len(q) <= 2
<1> DEFINE r == Tail(q)
<1>1. /\ Head(q) \in Char /\ r \in Seq(Char) /\ Len(r) = Len(q) - 1
      /\ \A k \in 1 .. Len(r) : r[k] = q[k + 1]
      /\ Head(q) = q[1] /\ Len(q) \in Nat /\ Len(q) >= 1
  BY HeadTailProperties
<1> HIDE DEF r
<1>2. Has(q, Head(q))
  BY <1>1 DEF Has
<1>3. \A d : Has(r, d) => Has(q, d)
  BY <1>1 DEF Has
<1>4. EndsLine(q) => EndsLine(r)
  BY <1>1 DEF EndsLine
<1>5. EndsLines(q) => EndsLines(r)
  <2> SUFFICES ASSUME EndsLines(q), NEW k \in 1 .. Len(r), r[k] = "nl"
               PROVE  Len(r) - k \in {0, 2, 4}
    BY DEF EndsLines
  <2>1. k + 1 \in 1 .. Len(q) /\ q[k + 1] = "nl"
    BY <1>1
  <2>2. Len(q) - (k + 1) \in {0, 2, 4}
    BY <2>1 DEF EndsLines
  <2>3. Len(q) - (k + 1) = Len(r) - k
    BY <1>1
  <2>4. QED
    BY <2>2, <2>3
<1>6. EndsOK(q) => EndsOK(r)
  BY <1>1 DEF EndsOK
<1>7. EndsLine(q) /\ Head(q) = "nl" => r = <<>>
  BY <1>1, Empty DEF EndsLine
<1>8. EndsLines(q) /\ Head(q) = "nl" => Len(q) \in {1, 3, 5}
  <2> SUFFICES ASSUME EndsLines(q), q[1] = "nl"
               PROVE  Len(q) \in {1, 3, 5}
    BY <1>1
  <2>1. Len(q) - 1 \in {0, 2, 4}
    BY <1>1 DEF EndsLines
  <2>2. QED
    BY <1>1, <2>1
<1>9. EndsOK(q) /\ Head(q) = "OK" => Len(q) <= 2
  BY <1>1 DEF EndsOK
<1>10. QED
  BY <1>1, <1>2, <1>3, <1>4, <1>5, <1>6, <1>7, <1>8, <1>9 DEF r, Sound

LEMMA Damage ==
  ASSUME NEW q \in Seq(Char), NEW r, Damaged(q, r)
  PROVE  Sound(q, r)
<1>1. CASE r = q
  BY <1>1, Empty DEF Sound
<1>2. CASE q # <<>> /\ r = Tail(q)
  BY <1>2, Removed
<1>3. ASSUME q # <<>>, NEW c \in {"x", "0"}, r = [q EXCEPT ![1] = c]
      PROVE  Sound(q, r)
  <2>1. Len(q) \in Nat /\ 1 \in 1 .. Len(q) /\ c \in Char
    BY <1>3, Empty DEF Char
  <2>2. /\ r \in Seq(Char) /\ Len(r) = Len(q)
        /\ \A k \in 1 .. Len(q) : r[k] = IF k = 1 THEN c ELSE q[k]
    BY <1>3, <2>1, ExceptSeq
  <2>3. ASSUME NEW d \in {"nl", "S", "OK", "A", "K"}
        PROVE  /\ \A k \in 1 .. Len(q) : r[k] = d => q[k] = d
               /\ Has(r, d) => Has(q, d)
    BY <2>1, <2>2 DEF Has
  <2>4. \A k \in 1 .. Len(q) : r[k] = "nl" => q[k] = "nl"
    BY <2>3
  <2>5. \A k \in 1 .. Len(q) : r[k] = "OK" => q[k] = "OK"
    BY <2>3
  <2>6. EndsLine(q) => EndsLine(r)
    BY <2>2, <2>4 DEF EndsLine
  <2>7. EndsLines(q) => EndsLines(r)
    BY <2>2, <2>4 DEF EndsLines
  <2>8. EndsOK(q) => EndsOK(r)
    BY <2>2, <2>5 DEF EndsOK
  <2>9. Len(r) <= Len(q) /\ (q = <<>> => r = <<>>)
    BY <1>3, <2>1, <2>2
  <2>10. QED
    BY <2>2, <2>3, <2>6, <2>7, <2>8, <2>9 DEF Sound
<1>4. QED
  BY <1>1, <1>2, <1>3 DEF Damaged

-----------------------------------------------------------------------------
(* The host.                                                                *)

\* What TypeOK says of the queues.
LEMMA Queues ==
  ASSUME TypeOK
  PROVE  /\ buf \in Seq(Char) /\ line \in Seq(Char)
         /\ toTarget \in Seq(Char) /\ toHost \in Seq(Char)
         /\ ~Has(buf, "nl") /\ Len(buf) \in Nat
<1>1. buf \in Seq(Char \ {"nl"}) /\ line \in Seq(Char \ {"nl"}) /\ Char \ {"nl"} \subseteq Char
  BY DEF TypeOK
<1>2. buf \in Seq(Char) /\ line \in Seq(Char)
  BY <1>1, SeqMonotonic
<1>3. ~Has(buf, "nl") /\ Len(buf) \in Nat
  BY <1>1 DEF Has
<1>4. QED
  BY <1>2, <1>3 DEF TypeOK

LEMMA AskStep == IInv /\ Ask => IInv'
<1> SUFFICES ASSUME IInv, Ask
             PROVE  IInv'
  OBVIOUS
<1>1. /\ phase = "ask" /\ TypeOK /\ Live
      /\ step = 0 /\ Asking /\ Place /\ ~Has(toTarget, "OK") /\ (mode # "command" => echoOn)
  BY DEF Ask, IInv, Live, Place
<1>2. /\ UNCHANGED <<step, pos, got, echo_disable, mode, echoOn, line, slow, toHost, faults>>
      /\ buf' = <<>>
  BY DEF Ask, loader
<1>3. \/ phase' = "failed" /\ UNCHANGED <<toTarget, tries>>
      \/ /\ phase' = "answer" /\ toTarget' = Append(toTarget, "?")
         /\ tries' = tries + 1 /\ tries < Retry
  BY DEF Ask
<1>4. /\ Append(toTarget, "?") \in Seq(Char)
      /\ \A d : Has(Append(toTarget, "?"), d) => Has(toTarget, d) \/ d = "?"
  <2>1. toTarget \in Seq(Char) /\ "?" \in Char
    BY <1>1 DEF TypeOK, Char
  <2>2. QED
    BY <2>1, Added
<1>5. TypeOK'
  <2>1. tries' \in 0 .. Retry /\ toTarget' \in Seq(Char) /\ phase' \in {"answer", "failed"}
    <3>1. /\ tries \in 0 .. Retry /\ Retry \in Nat /\ toTarget \in Seq(Char)
      BY <1>1, SessionAssumption DEF TypeOK, SessionAssumption
    <3>2. CASE phase' = "failed" /\ UNCHANGED <<toTarget, tries>>
      BY <3>1, <3>2
    <3>3. CASE /\ phase' = "answer" /\ toTarget' = Append(toTarget, "?")
               /\ tries' = tries + 1 /\ tries < Retry
      BY <1>4, <3>1, <3>3
    <3>4. QED
      BY <1>3, <3>2, <3>3
  <2>2. buf' \in Seq(Char \ {"nl"}) /\ Len(buf') < LineLimit
    BY <1>2, EmptySeq, SessionAssumption DEF SessionAssumption
  <2>3. QED
    BY <1>1, <1>2, <2>1, <2>2 DEF TypeOK
<1>6. ASSUME phase' # "failed"
      PROVE  Live'
  <2>1. phase' = "answer" /\ toTarget' = Append(toTarget, "?")
    BY <1>3, <1>6
  <2>2. Place'
    BY <1>1, <1>2, <2>1 DEF Place
  <2>3. Asking'
    BY <1>1, <1>2, <1>4, <2>1, Empty DEF Asking
  <2>4. QED
    BY <1>1, <1>2, <1>4, <2>1, <2>2, <2>3 DEF Live
<1>7. QED
  BY <1>5, <1>6 DEF IInv

\* A request is one character and the end of the line.
IsRequest(r, c) ==
  /\ r \in Seq(Char) /\ Len(r) = 2 /\ r[1] = c /\ r[2] = "nl"
  /\ EndsLine(r) /\ ~Has(r, "OK")
  /\ \A d : Has(r, d) <=> d = c \/ d = "nl"

LEMMA Requests ==
  /\ Len(Request) = 5
  /\ IsRequest(Request[1], "S") /\ IsRequest(Request[2], "F")
  /\ IsRequest(Request[3], "A") /\ IsRequest(Request[4], "K")
  /\ IsRequest(Request[5], "J")
<1>1. /\ Len(Request) = 5
      /\ Request[1] = <<"S", "nl">> /\ Request[2] = <<"F", "nl">>
      /\ Request[3] = <<"A", "nl">> /\ Request[4] = <<"K", "nl">>
      /\ Request[5] = <<"J", "nl">>
  BY DEF Request
<1>2. ASSUME NEW c \in {"S", "F", "A", "K", "J"}
      PROVE  IsRequest(<<c, "nl">>, c)
  <2> DEFINE r == <<c, "nl">>
  <2>1. r \in Seq(Char) /\ Len(r) = 2 /\ r[1] = c /\ r[2] = "nl"
    BY DEF Char
  <2> HIDE DEF r
  <2>2. \A d : Has(r, d) <=> d = c \/ d = "nl"
    BY <2>1 DEF Has
  <2>3. EndsLine(r) /\ ~Has(r, "OK")
    BY <2>1 DEF Has, EndsLine
  <2>4. QED
    BY <2>1, <2>2, <2>3 DEF IsRequest, r
<1>3. QED
  BY <1>1, <1>2

LEMMA Faulty == TypeOK /\ Fault => faults' \in 0 .. MaxFaults
BY SessionAssumption DEF TypeOK, Fault, SessionAssumption

LEMMA IoErrorStep == IInv /\ IoError => IInv'
<1> SUFFICES ASSUME IInv, IoError
             PROVE  IInv'
  OBVIOUS
<1>1. /\ phase' = "failed" /\ TypeOK /\ faults' \in 0 .. MaxFaults
      /\ UNCHANGED <<tries, step, pos, buf, got, echo_disable, mode, echoOn,
                     line, slow, toTarget, toHost>>
  BY Faulty DEF IInv, IoError, loader
<1>2. QED
  BY <1>1 DEF IInv, TypeOK

LEMMA TimeoutStep == IInv /\ Timeout => IInv'
<1> SUFFICES ASSUME IInv, Timeout
             PROVE  IInv'
  OBVIOUS
<1>1. /\ UNCHANGED <<tries, step, pos, got, echo_disable, mode, echoOn, line, slow>>
      /\ UNCHANGED <<toTarget, toHost, faults>>
      /\ buf' = <<>>
      /\ \/ phase' = "failed"
         \/ phase = "answer" /\ phase' = "ask"
  BY DEF Timeout, loader
<1>2. TypeOK'
  <2>1. buf' \in Seq(Char \ {"nl"}) /\ Len(buf') < LineLimit
    BY <1>1, EmptySeq, SessionAssumption DEF SessionAssumption
  <2>2. QED
    BY <1>1, <2>1 DEF IInv, TypeOK
<1>3. ASSUME phase = "answer", phase' = "ask"
      PROVE  Live'
  <2>1. Live /\ step = 0 /\ Asking
    BY <1>3 DEF IInv, Live, Place
  <2>2. Place' /\ Asking'
    BY <1>1, <1>3, <2>1, Empty DEF Place, Asking, Live
  <2>3. QED
    BY <1>1, <1>3, <2>1, <2>2 DEF Live
<1>4. QED
  BY <1>1, <1>2, <1>3 DEF IInv

\* With echo on, one character is sent when everything before it is known to
\* have arrived; with echo off, the request follows a finished one.
LEMMA SendCharsStep == IInv /\ SendChars => IInv'
<1> SUFFICES ASSUME IInv, SendChars
             PROVE  IInv'
  OBVIOUS
<1>1. /\ phase = "send" /\ TypeOK /\ Live /\ Place
      /\ step \in {1, 2, 3, 4, 5} /\ pos \in {1, 2}
      /\ ~Has(toTarget, "OK") /\ (mode # "command" => echoOn)
      /\ toTarget \in Seq(Char) /\ toHost \in Seq(Char)
  <2>1. TypeOK /\ Live /\ phase = "send"
    BY DEF SendChars, IInv
  <2>2. step \in 0 .. 5
    BY <2>1, Requests DEF TypeOK
  <2>3. QED
    BY <2>1, <2>2 DEF Live, Place, TypeOK
<1>2. /\ UNCHANGED <<tries, step, pos, buf, got, echo_disable, mode, echoOn, line, slow>>
      /\ UNCHANGED <<toHost, faults>>
  BY DEF SendChars, loader
<1>3. CASE step \in {1, 2, 3}
  <2> DEFINE c == Request[step][pos]
  <2>1. /\ toTarget' = Append(toTarget, c) /\ phase' = "echo"
    BY <1>1, <1>3 DEF SendChars, Place
  <2>2. /\ c \in Char /\ c # "OK" /\ c # "K"
        /\ (pos = 1 => c # "nl") /\ (pos = 2 => c = "nl")
        /\ step = 3 /\ pos = 1 => c = "A"
    BY <1>1, <1>3, Requests DEF IsRequest, Char
  <2> HIDE DEF c
  <2>3. /\ toTarget' \in Seq(Char) /\ Len(toTarget') = Len(toTarget) + 1
        /\ \A d : Has(toTarget', d) <=> Has(toTarget, d) \/ d = c
        /\ ~Has(toTarget, "nl") => EndsLine(toTarget')
    BY <1>1, <2>1, <2>2, Added
  <2>4. TypeOK'
    BY <1>1, <1>2, <2>1, <2>3 DEF TypeOK
  <2>5. Place' /\ ~Has(toTarget', "OK") /\ (mode' # "command" => echoOn')
    BY <1>1, <1>2, <1>3, <2>1, <2>2, <2>3 DEF Place
  <2>6. CASE step \in {1, 2}
    <3>1. Synchronizing /\ ~Sent /\ mode = ModeFor[step] /\ ~Has(toTarget, "nl")
      BY <1>1, <2>6 DEF Live, Synchronizing, Sent
    <3>2. Has(toTarget', "nl") => Sent'
      BY <1>1, <1>2, <2>1, <2>2, <2>3, <3>1 DEF Sent
    <3>3. Synchronizing'
      BY <1>2, <2>1, <2>3, <3>1, <3>2 DEF Synchronizing
    <3>4. QED
      BY <1>2, <2>1, <2>4, <2>5, <2>6, <3>3 DEF IInv, Live
  <2>7. CASE step = 3 /\ pos = 1
    <3>1. /\ toTarget = <<>> /\ toHost = <<>> /\ line = <<>> /\ echoOn
          /\ mode = "command"
      BY <1>1, <2>7 DEF Live, EchoOff, Quiet
    <3>2. Len(toTarget') = 1 /\ ~Has(toTarget', "nl") /\ Len(line) = 0
      BY <2>2, <2>3, <2>7, <3>1, Empty
    <3>3. ~Has(toHost, "nl") /\ ~Has(toHost, "A")
      BY <3>1, Empty
    <3>4. EchoOff'
      BY <1>2, <2>1, <2>7, <3>1, <3>2, <3>3 DEF EchoOff, Sent
    <3>5. QED
      BY <1>2, <2>1, <2>4, <2>5, <2>7, <3>4 DEF IInv, Live
  <2>8. CASE step = 3 /\ pos = 2
    <3>1. /\ toTarget = <<>> /\ toHost = <<>> /\ line = <<"A">> /\ echoOn
          /\ mode = "command"
      BY <1>1, <2>8 DEF Live, EchoOff
    <3>2. Len(toTarget') = 1 /\ ~Has(toHost, "nl")
      BY <2>3, <3>1, Empty
    <3>3. EchoOff'
      BY <1>2, <2>1, <2>8, <3>1, <3>2 DEF EchoOff, Sent
    <3>4. QED
      BY <1>2, <2>1, <2>4, <2>5, <2>8, <3>3 DEF IInv, Live
  <2>9. QED
    BY <1>1, <1>3, <2>6, <2>7, <2>8
<1>4. CASE step \in {4, 5}
  <2>1. toTarget' = toTarget \o Request[step] /\ phase' = "get"
    BY <1>1, <1>4 DEF SendChars, Place
  <2>2. /\ Quiet /\ got = 0 /\ mode = "command" /\ ~echoOn
    BY <1>1, <1>4 DEF Live, Commanding
  <2>3. /\ Request[step] \in Seq(Char) /\ EndsLine(Request[step])
        /\ ~Has(Request[step], "OK") /\ (step = 5 => ~Has(Request[step], "K"))
    BY <1>4, Requests DEF IsRequest
  <2>4. toTarget' = Request[step]
    BY <2>1, <2>2, <2>3, ConcatEmptySeq DEF Quiet
  <2>5. TypeOK'
    BY <1>1, <1>2, <2>1, <2>3, <2>4 DEF TypeOK
  <2>6. Place'
    BY <1>1, <1>2, <1>4, <2>1 DEF Place
  <2>7. 0 <= AnswerLines[step] /\ AnswerLines[step] \in Nat
    BY <1>4 DEF AnswerLines
  <2>8. toHost' = <<>> /\ line' = <<>> /\ EndsLines(<<>>) /\ Len(<<>>) = 0 /\ ~Has(<<>>, "K")
    BY <1>2, <2>2, Empty DEF Quiet
  <2>9. Commanding'
    BY <1>2, <2>1, <2>2, <2>3, <2>4, <2>7, <2>8 DEF Commanding
  <2>10. QED
    BY <1>2, <1>4, <2>1, <2>2, <2>3, <2>4, <2>5, <2>6, <2>9 DEF IInv, Live
<1>5. QED
  BY <1>1, <1>3, <1>4

\* A right echo means that the loader has the character.
LEMMA GetEchoStep == IInv /\ GetEcho => IInv'
<1> SUFFICES ASSUME IInv, GetEcho
             PROVE  IInv'
  OBVIOUS
<1>1. /\ phase = "echo" /\ toHost # <<>> /\ TypeOK /\ Live /\ Place
      /\ step \in {1, 2, 3} /\ pos \in {1, 2}
      /\ ~Has(toTarget, "OK") /\ (mode # "command" => echoOn)
      /\ toTarget \in Seq(Char) /\ toHost \in Seq(Char)
  <2>1. TypeOK /\ Live /\ phase = "echo" /\ toHost # <<>>
    BY DEF GetEcho, IInv
  <2>2. step \in 0 .. 5
    BY <2>1, Requests DEF TypeOK
  <2>3. QED
    BY <2>1, <2>2 DEF Live, Place, TypeOK
<1>2. /\ UNCHANGED <<tries, step, buf, got, echo_disable, mode, echoOn, line, slow>>
      /\ UNCHANGED <<toTarget, faults>>
      /\ toHost' = Tail(toHost)
  BY DEF GetEcho, loader
<1>3. \/ phase' = "failed" /\ pos' = pos
      \/ /\ Head(toHost) = Request[step][pos] /\ pos' = pos + 1
         /\ \/ pos = 1 /\ phase' = "send"
            \/ pos = 2 /\ phase' = "get"
  <2>1. Len(Request[step]) = 2
    BY <1>1, Requests DEF IsRequest
  <2>2. CASE Head(toHost) # Request[step][pos]
    BY <2>2 DEF GetEcho
  <2>3. CASE Head(toHost) = Request[step][pos] /\ pos = 1
    BY <2>1, <2>3 DEF GetEcho
  <2>4. CASE Head(toHost) = Request[step][pos] /\ pos = 2
    BY <2>1, <2>4 DEF GetEcho
  <2>5. QED
    BY <1>1, <2>2, <2>3, <2>4
<1>4. /\ Sound(toHost, toHost') /\ toHost' \in Seq(Char)
      /\ Len(toHost') = Len(toHost) - 1 /\ Len(toHost) \in Nat
      /\ Has(toHost, Head(toHost))
  BY <1>1, <1>2, Removed, Empty
<1>5. TypeOK'
  BY <1>1, <1>2, <1>3, <1>4 DEF TypeOK
<1>6. ASSUME phase' # "failed"
      PROVE  Live'
  <2>1. /\ Head(toHost) = Request[step][pos]
        /\ \/ pos = 1 /\ pos' = 2 /\ phase' = "send"
           \/ pos = 2 /\ pos' = 3 /\ phase' = "get"
    BY <1>3, <1>6
  <2>2. Place' /\ ~Has(toTarget', "OK") /\ (mode' # "command" => echoOn')
    BY <1>1, <1>2, <2>1 DEF Place
  <2>3. Sent' = Sent
    BY <1>1, <2>1 DEF Sent
  <2>4. CASE step \in {1, 2}
    <3>1. Synchronizing
      BY <1>1, <2>4 DEF Live
    <3>2. Has(toHost', "OK") => Has(toHost, "OK")
      BY <1>4 DEF Sound
    <3>3. Len(toHost) <= 1 => Len(toHost') <= 1
      BY <1>4
    <3>4. EndsOK(toHost) => EndsOK(toHost')
      BY <1>4 DEF Sound
    <3>5. Synchronizing'
      BY <1>2, <2>1, <2>3, <3>1, <3>2, <3>3, <3>4 DEF Synchronizing
    <3>6. QED
      BY <1>2, <2>1, <2>2, <2>4, <3>5 DEF Live
  <2>5. CASE step = 3 /\ pos = 1
    <3>1. EchoOff /\ Head(toHost) = "A"
      BY <1>1, <2>1, <2>5, Requests DEF Live, IsRequest
    <3>2. line = <<"A">> /\ toTarget = <<>> /\ Len(toHost) = 1 /\ echoOn /\ mode = "command"
      BY <1>1, <1>4, <2>5, <3>1 DEF EchoOff
    <3>3. toHost' = <<>>
      BY <1>4, <3>2, Empty
    <3>4. EchoOff'
      BY <1>2, <2>1, <2>5, <3>2, <3>3 DEF EchoOff, Sent
    <3>5. QED
      BY <1>2, <2>1, <2>2, <2>5, <3>4 DEF Live
  <2>6. CASE step = 3 /\ pos = 2
    <3>1. EchoOff /\ Head(toHost) = "nl" /\ Sent /\ mode = "command"
      BY <1>1, <2>1, <2>6, Requests DEF Live, IsRequest, Sent, EchoOff
    <3>2. ~echoOn
      BY <1>4, <3>1 DEF EchoOff
    <3>3. /\ toTarget = <<>> /\ line = <<>> /\ EndsLines(toHost) /\ Len(toHost) <= 3
      BY <1>1, <3>1, <3>2 DEF EchoOff
    <3>4. EndsLines(toHost') /\ Len(toHost') <= 2
      BY <1>4, <3>3 DEF Sound
    <3>5. EchoOff'
      BY <1>2, <2>1, <2>6, <3>1, <3>2, <3>3, <3>4 DEF EchoOff
    <3>6. QED
      BY <1>2, <2>1, <2>2, <2>6, <3>5 DEF Live
  <2>7. QED
    BY <1>1, <2>4, <2>5, <2>6
<1>7. QED
  BY <1>5, <1>6 DEF IInv

\* A character that does not end a line, and whatever ends in an error.
LEMMA GetPartOfLine ==
  ASSUME IInv, GetChar, Head(toHost) # "nl"
  PROVE  IInv'
<1> DEFINE l == Append(buf, Head(toHost))
<1>1. /\ phase \in {"answer", "get"} /\ toHost # <<>> /\ TypeOK /\ Live /\ Place
      /\ ~Has(toTarget, "OK") /\ (mode # "command" => echoOn)
      /\ step \in {0, 1, 2, 3, 4, 5}
  <2>1. step \in 0 .. 5
    BY Requests DEF IInv, TypeOK
  <2>2. QED
    BY <2>1 DEF GetChar, IInv, Live
<1>2. /\ UNCHANGED <<tries, step, pos, got, echo_disable, mode, echoOn, line, slow>>
      /\ UNCHANGED <<toTarget, faults>>
      /\ toHost' = Tail(toHost)
      /\ \/ buf' = l /\ Len(l) < LineLimit /\ phase' = phase
         \/ buf' = <<>> /\ phase' = IF phase = "answer" THEN "ask" ELSE "failed"
  BY DEF GetChar, loader
<1>3. /\ buf \in Seq(Char \ {"nl"}) /\ Head(toHost) \in Char \ {"nl"}
      /\ toHost' \in Seq(Char) /\ Len(toHost') = Len(toHost) - 1
      /\ Has(toHost, Head(toHost)) /\ Sound(toHost, toHost')
      /\ EndsOK(toHost) /\ Head(toHost) = "OK" => Len(toHost) <= 2
      /\ Len(toHost) \in Nat
  <2>1. toHost \in Seq(Char) /\ buf \in Seq(Char \ {"nl"})
    BY <1>1 DEF TypeOK
  <2>2. QED
    BY <1>1, <1>2, <2>1, Removed, Empty
<1>4. l \in Seq(Char \ {"nl"}) /\ <<>> \in Seq(Char \ {"nl"}) /\ Len(<<>>) < LineLimit
  BY <1>3, AppendProperties, EmptySeq, SessionAssumption DEF SessionAssumption
<1>5. /\ \A d : Has(l, d) <=> Has(buf, d) \/ d = Head(toHost)
  <2>1. buf \in Seq(Char) /\ Head(toHost) \in Char
    BY <1>1, <1>3, Queues
  <2>2. QED
    BY <2>1, Added
<1> HIDE DEF l
<1>6. TypeOK'
  BY <1>1, <1>2, <1>3, <1>4 DEF TypeOK
<1>7. Place'
  BY <1>1, <1>2 DEF Place
<1>8. /\ Has(toHost', "OK") => Has(toHost, "OK")
      /\ Has(toHost', "S") => Has(toHost, "S")
      /\ Has(toHost', "nl") => Has(toHost, "nl")
      /\ EndsOK(toHost) => EndsOK(toHost')
      /\ EndsLines(toHost) => EndsLines(toHost')
      /\ Len(toHost') <= Len(toHost)
  BY <1>3 DEF Sound
<1>9. \A d : Has(buf', d) => Has(buf, d) \/ (d = Head(toHost) /\ buf' = l)
  BY <1>2, <1>5, Empty
<1>10. ASSUME phase' # "failed"
       PROVE  Live'
  <2>1. CASE step = 0
    <3>1. Asking'
      BY <1>1, <1>2, <1>3, <1>8, <1>9, <2>1 DEF Live, Asking
    <3>2. QED
      BY <1>1, <1>2, <1>7, <1>10, <2>1, <3>1 DEF Live, Place
  <2>2. CASE step # 0
    <3>1. phase = "get" /\ phase' = "get" /\ buf' = l
      BY <1>1, <1>2, <1>10, <2>2 DEF Place
    <3>2. CASE step \in {1, 2}
      <4>1. Synchronizing
        BY <1>1, <3>2 DEF Live
      <4>2. ASSUME mode = ModeFor[step]
            PROVE  ~Has(buf', "OK") /\ ~Has(toHost', "OK")
        BY <1>3, <1>8, <1>9, <4>1, <4>2 DEF Synchronizing
      <4>3. ASSUME mode # ModeFor[step]
            PROVE  /\ Has(buf', "OK") \/ Has(toHost', "OK") => mode = ModeFor[step + 1]
                   /\ Has(buf', "OK") => Len(toHost') <= 1
                   /\ EndsOK(toHost')
        <5>1. /\ Has(buf, "OK") \/ Has(toHost, "OK") => mode = ModeFor[step + 1]
              /\ Has(buf, "OK") => Len(toHost) <= 1
              /\ EndsOK(toHost)
          BY <4>1, <4>3 DEF Synchronizing
        <5>2. QED
          BY <1>3, <1>8, <1>9, <5>1
      <4>4. Sent /\ Sent'
        BY <3>1 DEF Sent
      <4>5. Synchronizing'
        BY <1>2, <3>1, <4>1, <4>2, <4>3, <4>4 DEF Synchronizing
      <4>6. QED
        BY <1>1, <1>2, <1>7, <3>1, <3>2, <4>5 DEF Live
    <3>3. CASE step = 3
      <4>1. EchoOff /\ Sent /\ Sent'
        BY <1>1, <3>1, <3>3 DEF Live, Sent
      <4>2. ~echoOn
        BY <3>1, <4>1 DEF EchoOff
      <4>3. EchoOff'
        BY <1>2, <1>3, <1>8, <3>1, <4>1, <4>2 DEF EchoOff
      <4>4. QED
        BY <1>1, <1>2, <1>7, <3>1, <3>3, <4>3 DEF Live
    <3>4. CASE step \in {4, 5}
      <4>1. Commanding
        BY <1>1, <3>1, <3>4 DEF Live
      <4>2. got \in Nat /\ AnswerLines[step] \in Nat
        BY <1>1, <3>4 DEF TypeOK, AnswerLines
      <4>3. 2 * got + Len(toHost') <= 2 * AnswerLines[step]
        BY <1>3, <3>1, <4>1, <4>2 DEF Commanding
      <4>4. Commanding'
        BY <1>1, <1>2, <1>8, <3>1, <4>1, <4>3 DEF Commanding
      <4>5. QED
        BY <1>1, <1>2, <1>7, <3>1, <3>4, <4>4 DEF Live
    <3>5. QED
      BY <1>1, <2>2, <3>2, <3>3, <3>4
  <2>3. QED
    BY <2>1, <2>2
<1>11. QED
  BY <1>6, <1>10 DEF IInv

\* The end of a line: a line that is the answer is the last thing on the line.
LEMMA GetEndOfLine ==
  ASSUME IInv, GetChar, Head(toHost) = "nl"
  PROVE  IInv'
<1> DEFINE l == Append(buf, "nl")
<1>1. /\ phase \in {"answer", "get"} /\ toHost # <<>> /\ TypeOK /\ Live /\ Place
      /\ ~Has(toTarget, "OK") /\ (mode # "command" => echoOn)
      /\ step \in {0, 1, 2, 3, 4, 5}
  <2>1. step \in 0 .. 5
    BY Requests DEF IInv, TypeOK
  <2>2. QED
    BY <2>1 DEF GetChar, IInv, Live
<1>2. /\ UNCHANGED <<tries, mode, echoOn, line, slow>>
      /\ UNCHANGED <<toTarget, faults>>
      /\ toHost' = Tail(toHost) /\ buf' = <<>>
      /\ TakeLine(l)
  BY DEF GetChar, loader
<1>3. /\ toHost \in Seq(Char) /\ toHost' \in Seq(Char)
      /\ Len(toHost') = Len(toHost) - 1
      /\ Len(toHost) \in Nat /\ Len(toHost) >= 1
      /\ Sound(toHost, toHost') /\ Has(toHost, "nl")
      /\ EndsLines(toHost) => Len(toHost) \in {1, 3, 5}
  <2>1. toHost \in Seq(Char)
    BY <1>1 DEF TypeOK
  <2>2. QED
    BY <1>1, <1>2, <2>1, Removed, Empty
<1>4. /\ Has(toHost', "OK") => Has(toHost, "OK")
      /\ Has(toHost', "S") => Has(toHost, "S")
      /\ EndsLines(toHost) => EndsLines(toHost')
      /\ Len(toHost') = 0 => toHost' = <<>>
  BY <1>3, Empty DEF Sound
<1>5. /\ <<>> \in Seq(Char \ {"nl"}) /\ Len(<<>>) < LineLimit
      /\ \A d : ~Has(buf', d)
  BY <1>2, EmptySeq, Empty, SessionAssumption DEF SessionAssumption
<1>6. ASSUME NEW c \in Char, l = <<c, "nl">>
      PROVE  Has(buf, c)
  <2>1. buf \in Seq(Char)
    BY <1>1, Queues
  <2>2. Len(l) = Len(buf) + 1 /\ \A k \in 1 .. Len(buf) : l[k] = buf[k]
    BY <2>1, AppendProperties DEF Char
  <2>3. Len(buf) = 1
    <3>1. Len(<<c, "nl">>) = 2
      OBVIOUS
    <3>2. Len(buf) + 1 = 2
      BY <1>6, <2>2, <3>1, Zenon
    <3>3. Len(buf) \in Nat
      BY <2>1
    <3>4. \A n \in Nat : n + 1 = 2 => n = 1
      OBVIOUS
    <3>5. QED
      BY <3>2, <3>3, <3>4, Zenon
  <2>4. buf[1] = c
    <3>1. l[1] = buf[1]
      BY <2>2, <2>3
    <3>2. <<c, "nl">>[1] = c
      OBVIOUS
    <3>3. QED
      BY <1>6, <3>1, <3>2, Zenon
  <2>5. QED
    BY <2>3, <2>4 DEF Has
<1> HIDE DEF l
<1>7. CASE phase = "answer" /\ l = <<"S", "nl">> /\ NextRequest(1)
           /\ UNCHANGED <<got, echo_disable>>
  <2>1. step = 0 /\ Asking /\ phase' = "send" /\ step' = 1 /\ pos' = 1
    BY <1>1, <1>7 DEF Live, Place, NextRequest
  <2>2. mode = "sync"
    BY <1>6, <1>7, <2>1 DEF Asking, Char
  <2>3. TypeOK'
    BY <1>1, <1>2, <1>3, <1>5, <1>7, <2>1, Requests DEF TypeOK
  <2>4. Place'
    BY <1>1, <1>7, <2>1 DEF Place
  <2>5. Synchronizing'
    <3>1. EndsLine(toTarget)
      BY <2>1 DEF Asking, Has, EndsLine
    <3>2. mode = ModeFor[1]
      BY <2>2 DEF ModeFor
    <3>3. QED
      BY <1>1, <1>2, <1>4, <1>5, <2>1, <2>2, <3>1, <3>2 DEF Synchronizing, Asking
  <2>6. QED
    BY <1>1, <1>2, <2>1, <2>3, <2>4, <2>5 DEF IInv, Live
<1>8. CASE phase = "answer" /\ phase' = "ask" /\ UNCHANGED <<step, pos, got, echo_disable>>
  <2>1. step = 0 /\ Asking
    BY <1>1, <1>8 DEF Live, Place
  <2>2. TypeOK'
    BY <1>1, <1>2, <1>3, <1>5, <1>8 DEF TypeOK
  <2>3. Place'
    BY <1>1, <1>8, <2>1 DEF Place
  <2>4. Asking'
    BY <1>2, <1>4, <1>5, <2>1 DEF Asking
  <2>5. QED
    BY <1>1, <1>2, <1>8, <2>1, <2>2, <2>3, <2>4 DEF IInv, Live
<1>9. CASE phase = "get" /\ phase' = "failed" /\ UNCHANGED <<step, pos, got, echo_disable>>
  BY <1>1, <1>2, <1>3, <1>5, <1>9 DEF IInv, TypeOK
<1>10. CASE /\ phase = "get" /\ Wanted(l) /\ got + 1 < AnswerLines[step]
            /\ got' = got + 1
            /\ UNCHANGED <<phase, step, pos, echo_disable>>
  <2>1. step \in {4, 5} /\ got \in Nat /\ AnswerLines[step] \in Nat /\ AnswerLines[step] <= 3
    <3>1. got \in Nat /\ step # 0
      BY <1>1, <1>10 DEF TypeOK, Place
    <3>2. step \in {1, 2, 3} => AnswerLines[step] = 1 /\ got = 0
      BY <1>1 DEF AnswerLines, Place
    <3>3. step \in {4, 5} => AnswerLines[step] \in Nat /\ AnswerLines[step] <= 3
      BY DEF AnswerLines
    <3>4. QED
      BY <1>1, <1>10, <3>1, <3>2, <3>3
  <2>2. Commanding
    BY <1>1, <1>10, <2>1 DEF Live
  <2>3. TypeOK'
    <3>1. got' \in 0 .. 2
      BY <1>10, <2>1
    <3>2. QED
      BY <1>1, <1>2, <1>3, <1>5, <1>10, <3>1 DEF TypeOK
  <2>4. Place'
    BY <1>1, <1>10, <2>1 DEF Place
  <2>5. 2 * got' + Len(toHost') <= 2 * AnswerLines[step]
    <3>1. Len(toHost) \in {1, 3, 5} /\ 2 * got + Len(toHost) <= 2 * AnswerLines[step]
      BY <1>3, <1>10, <2>2 DEF Commanding
    <3>2. \A n, g, a \in Nat : n \in {1, 3, 5} /\ 2 * g + n <= 2 * a =>
                                2 * (g + 1) + (n - 1) <= 2 * a
      OBVIOUS
    <3>3. 2 * (got + 1) + (Len(toHost) - 1) <= 2 * AnswerLines[step]
      BY <1>3, <2>1, <3>1, <3>2
    <3>4. got' = got + 1 /\ Len(toHost') = Len(toHost) - 1
      BY <1>3, <1>10
    <3>5. QED
      BY <3>3, <3>4
  <2>6. Commanding'
    BY <1>1, <1>2, <1>4, <1>10, <2>2, <2>5 DEF Commanding
  <2>7. QED
    BY <1>1, <1>2, <1>10, <2>1, <2>3, <2>4, <2>6 DEF IInv, Live
<1>11. CASE /\ phase = "get" /\ Wanted(l) /\ got + 1 = AnswerLines[step]
            /\ got' = 0
            /\ echo_disable' = (echo_disable \/ step = 3)
            /\ IF step < Len(Request)
               THEN NextRequest(step + 1)
               ELSE phase' = "ready" /\ UNCHANGED <<step, pos>>
  <2>1. /\ toTarget = <<>> /\ toHost' = <<>> /\ line = <<>>
        /\ step = 1 => mode = "clock"
        /\ step \in {2, 3, 4, 5} => mode = "command"
        /\ step \in {1, 2} => echoOn
        /\ step \in {3, 4, 5} => ~echoOn
        /\ step \in {1, 2, 3, 4, 5}
    <3>1. step \in {1, 2, 3, 4, 5} /\ Sent
      BY <1>1, <1>11 DEF Place, Sent
    <3>2. CASE step \in {1, 2}
      <4>1. l = <<"OK", "nl">> /\ Synchronizing
        BY <1>1, <1>11, <3>2 DEF Wanted, Live
      <4>2. Has(buf, "OK")
        BY <1>6, <4>1 DEF Char
      <4>3. mode # ModeFor[step]
        BY <4>1, <4>2 DEF Synchronizing
      <4>4. /\ toTarget = <<>> /\ line = <<>> /\ mode = ModeFor[step + 1]
            /\ Len(toHost) <= 1 /\ echoOn
        BY <4>1, <4>2, <4>3 DEF Synchronizing
      <4>5. /\ step = 1 => mode = "clock"
            /\ step = 2 => mode = "command"
        BY <4>4 DEF ModeFor
      <4>6. toHost' = <<>>
        BY <1>3, <1>4, <4>4
      <4>7. QED
        BY <3>2, <4>4, <4>5, <4>6
    <3>3. CASE step = 3
      <4>1. EchoOff /\ ~echoOn
        BY <1>1, <1>11, <3>1, <3>3 DEF Live, EchoOff
      <4>2. /\ toTarget = <<>> /\ line = <<>> /\ EndsLines(toHost)
            /\ Len(toHost) <= 2 /\ mode = "command"
        BY <1>11, <3>1, <4>1 DEF EchoOff
      <4>3. toHost' = <<>>
        BY <1>3, <1>4, <4>2
      <4>4. QED
        BY <3>3, <4>1, <4>2, <4>3
    <3>4. CASE step \in {4, 5}
      <4>1. Commanding
        BY <1>1, <1>11, <3>4 DEF Live
      <4>2. /\ toTarget = <<>> /\ line = <<>> /\ EndsLines(toHost)
            /\ mode = "command" /\ ~echoOn
            /\ 2 * got + Len(toHost) <= 2 * AnswerLines[step]
        BY <1>1, <1>11, <4>1 DEF Commanding
      <4>3. Len(toHost) <= 2
        <5>1. got \in Nat /\ AnswerLines[step] = got + 1
          BY <1>1, <1>11 DEF TypeOK
        <5>2. QED
          BY <1>3, <4>2, <5>1
      <4>4. toHost' = <<>>
        <5>1. Len(toHost) \in {1, 3, 5}
          BY <1>3, <4>2
        <5>2. Len(toHost) = 1
          BY <4>3, <5>1
        <5>3. Len(toHost') = 0
          BY <1>3, <5>2
        <5>4. QED
          BY <1>4, <5>3
      <4>5. QED
        BY <3>4, <4>2, <4>4
    <3>5. QED
      BY <3>1, <3>2, <3>3, <3>4
  <2>2. \/ step \in {1, 2, 3, 4} /\ phase' = "send" /\ step' = step + 1 /\ pos' = 1
        \/ step = 5 /\ phase' = "ready" /\ step' = step /\ pos' = pos
    BY <1>11, <2>1, Requests DEF NextRequest
  <2>3. /\ echo_disable' \in BOOLEAN
        /\ step \in {1, 2} => ~echo_disable'
        /\ step \in {3, 4, 5} => echo_disable'
    <3>1. echo_disable' = (echo_disable \/ step = 3)
      BY <1>11
    <3>2. /\ step \in {1, 2} => ~echo_disable /\ step # 3
          /\ step \in {4, 5} => echo_disable
      BY <1>1 DEF Place
    <3>3. QED
      BY <3>1, <3>2, Zenon
  <2>4. TypeOK'
    <3>1. step' \in 0 .. 5 /\ pos' \in 1 .. 3 /\ phase' \in {"send", "ready"}
      BY <1>1, <2>2 DEF TypeOK
    <3>2. QED
      BY <1>1, <1>2, <1>3, <1>5, <1>11, <2>3, <3>1, Requests DEF TypeOK
  <2>5. Place'
    <3>1. CASE step \in {1, 2}
      <4>1. step' \in {2, 3} /\ phase' = "send" /\ pos' = 1
        BY <2>2, <3>1
      <4>2. got' = 0 /\ ~echo_disable'
        BY <1>11, <2>3, <3>1
      <4>3. QED
        BY <4>1, <4>2 DEF Place
    <3>2. CASE step \in {3, 4}
      <4>1. step' \in {4, 5} /\ phase' = "send" /\ pos' = 1 /\ echo_disable'
        BY <2>2, <2>3, <3>2
      <4>2. QED
        BY <4>1 DEF Place
    <3>3. CASE step = 5
      <4>1. step' = 5 /\ phase' = "ready" /\ pos' = 1 /\ echo_disable'
        BY <1>1, <2>2, <2>3, <3>3 DEF Place
      <4>2. QED
        BY <4>1 DEF Place
    <3>4. QED
      BY <2>1, <3>1, <3>2, <3>3
  <2>6. Quiet' /\ got' = 0 /\ buf' = <<>>
    BY <1>2, <1>11, <2>1 DEF Quiet
  <2>7. ~Has(toTarget', "OK") /\ ~Has(toTarget', "nl") /\ EndsLine(toTarget')
    BY <2>6, Empty DEF Quiet
  <2>8. CASE step = 1
    <3>1. phase' = "send" /\ step' = 2 /\ pos' = 1 /\ mode' = "clock" /\ echoOn'
      BY <1>2, <2>1, <2>2, <2>8
    <3>2. mode' = ModeFor[step'] /\ ~Has(toHost', "OK")
      BY <2>6, <3>1, Empty DEF ModeFor, Quiet
    <3>3. Synchronizing'
      BY <1>5, <2>6, <2>7, <3>1, <3>2 DEF Synchronizing
    <3>4. QED
      BY <2>4, <2>5, <2>7, <3>1, <3>3 DEF IInv, Live
  <2>9. CASE step = 2
    <3>1. phase' = "send" /\ step' = 3 /\ pos' = 1 /\ mode' = "command" /\ echoOn'
      BY <1>2, <2>1, <2>2, <2>9
    <3>2. EchoOff'
      BY <2>6, <3>1 DEF EchoOff, Sent
    <3>3. QED
      BY <2>4, <2>5, <2>7, <3>1, <3>2 DEF IInv, Live
  <2>10. CASE step \in {3, 4}
    <3>1. phase' = "send" /\ step' \in {4, 5} /\ mode' = "command" /\ ~echoOn'
      BY <1>2, <2>1, <2>2, <2>10
    <3>2. Commanding'
      BY <2>6, <3>1 DEF Commanding
    <3>3. QED
      BY <2>4, <2>5, <2>7, <3>1, <3>2 DEF IInv, Live
  <2>11. CASE step = 5
    <3>1. phase' = "ready" /\ step' = 5 /\ mode' = "command" /\ ~echoOn'
      BY <1>2, <2>1, <2>2, <2>11
    <3>2. QED
      BY <2>4, <2>5, <2>6, <2>7, <3>1 DEF IInv, Live
  <2>12. QED
    BY <2>1, <2>8, <2>9, <2>10, <2>11
<1>12. QED
  BY <1>2, <1>7, <1>8, <1>9, <1>10, <1>11, Zenon DEF TakeLine

-----------------------------------------------------------------------------
(* The loader.                                                              *)

\* What each mode answers to a line.
LEMMA Replies ==
  ASSUME TypeOK
  PROVE  /\ Reply \in Seq(Char) /\ ~Has(Reply, "S") /\ EndsLines(Reply)
         /\ NextMode \in {"autobaud", "sync", "clock", "command"}
         /\ mode = "sync" =>
              \/ NextMode = "clock" /\ EndsOK(Reply)
              \/ NextMode = "autobaud" /\ ~Has(Reply, "OK")
         /\ mode = "clock" =>
              \/ NextMode = "command" /\ EndsOK(Reply)
              \/ NextMode = "clock" /\ ~Has(Reply, "OK")
         /\ mode = "command" =>
              /\ NextMode = "command" /\ ~Has(Reply, "OK") /\ Len(Reply) <= 6
              /\ line # <<"K">> => Len(Reply) <= 4
              /\ line = <<"A">> => Reply = <<"0", "nl">>
<1>1. mode \in {"autobaud", "sync", "clock", "command"}
  BY DEF TypeOK
<1> DEFINE Good(r) == r \in Seq(Char) /\ ~Has(r, "S") /\ EndsLines(r)
<1>2. /\ Good(<<>>) /\ ~Has(<<>>, "OK")
      /\ Good(<<"OK", "nl">>) /\ EndsOK(<<"OK", "nl">>)
      /\ Good(<<"0", "nl">>) /\ ~Has(<<"0", "nl">>, "OK") /\ Len(<<"0", "nl">>) = 2
      /\ Good(<<"1", "nl">>) /\ ~Has(<<"1", "nl">>, "OK") /\ Len(<<"1", "nl">>) = 2
  BY Empty DEF Has, EndsLines, EndsOK, Char
<1>3. /\ Good(<<"0", "nl", "v", "nl">>) /\ ~Has(<<"0", "nl", "v", "nl">>, "OK")
      /\ Len(<<"0", "nl", "v", "nl">>) = 4
  BY DEF Has, EndsLines, Char
<1>4. /\ Good(<<"0", "nl", "v", "nl", "v", "nl">>)
      /\ ~Has(<<"0", "nl", "v", "nl", "v", "nl">>, "OK")
      /\ Len(<<"0", "nl", "v", "nl", "v", "nl">>) = 6
  BY DEF Has, EndsLines, Char
<1>5. <<"A">> # <<"K">> /\ <<"J">> # <<"K">>
  OBVIOUS
<1> HIDE DEF Good
<1>6. NextMode \in {"autobaud", "sync", "clock", "command"}
  BY DEF NextMode
<1>7. CASE mode = "sync"
  <2>1. CASE line = <<"S">>
    <3>1. Reply = <<"OK", "nl">> /\ NextMode = "clock"
      BY <1>7, <2>1 DEF Reply, NextMode
    <3>2. QED
      BY <1>2, <1>6, <1>7, <3>1 DEF Good
  <2>2. CASE line = <<"F">>
    <3>1. Reply = <<"1", "nl">> /\ NextMode = "autobaud"
      BY <1>7, <2>2 DEF Reply, NextMode
    <3>2. QED
      BY <1>2, <1>6, <1>7, <3>1 DEF Good
  <2>3. CASE line \notin {<<"S">>, <<"F">>}
    <3>1. Reply = <<>> /\ NextMode = "autobaud"
      BY <1>7, <2>3 DEF Reply, NextMode
    <3>2. QED
      BY <1>2, <1>6, <1>7, <3>1 DEF Good
  <2>4. QED
    BY <2>1, <2>2, <2>3
<1>8. CASE mode = "clock"
  <2>1. CASE line = <<"F">>
    <3>1. Reply = <<"OK", "nl">> /\ NextMode = "command"
      BY <1>8, <2>1 DEF Reply, NextMode
    <3>2. QED
      BY <1>2, <1>6, <1>8, <3>1 DEF Good
  <2>2. CASE line = <<"S">>
    <3>1. Reply = <<"1", "nl">> /\ NextMode = "clock"
      BY <1>8, <2>2 DEF Reply, NextMode
    <3>2. QED
      BY <1>2, <1>6, <1>8, <3>1 DEF Good
  <2>3. CASE line \notin {<<"S">>, <<"F">>}
    <3>1. Reply = <<>> /\ NextMode = "clock"
      BY <1>8, <2>3 DEF Reply, NextMode
    <3>2. QED
      BY <1>2, <1>6, <1>8, <3>1 DEF Good
  <2>4. QED
    BY <2>1, <2>2, <2>3
<1>9. CASE mode = "command"
  <2>1. NextMode = "command"
    BY <1>9 DEF NextMode
  <2>2. CASE line = <<"A">>
    <3>1. Reply = <<"0", "nl">>
      BY <1>9, <2>2 DEF Reply
    <3>2. QED
      BY <1>2, <1>6, <1>9, <2>1, <3>1 DEF Good
  <2>3. CASE line = <<"K">>
    <3>1. Reply = <<"0", "nl", "v", "nl", "v", "nl">>
      BY <1>9, <2>3 DEF Reply
    <3>2. QED
      BY <1>4, <1>5, <1>6, <1>9, <2>1, <2>3, <3>1 DEF Good
  <2>4. CASE line = <<"J">>
    <3>1. Reply = <<"0", "nl", "v", "nl">>
      BY <1>9, <2>4 DEF Reply
    <3>2. QED
      BY <1>3, <1>6, <1>9, <2>1, <2>4, <3>1 DEF Good
  <2>5. CASE line \notin {<<"A">>, <<"K">>, <<"J">>}
    <3>1. Reply = <<"1", "nl">>
      BY <1>9, <2>5 DEF Reply
    <3>2. QED
      BY <1>2, <1>6, <1>9, <2>1, <2>5, <3>1 DEF Good
  <2>6. QED
    BY <2>2, <2>3, <2>4, <2>5
<1>10. CASE mode = "autobaud"
  <2>1. Reply = <<"1", "nl">>
    BY <1>10 DEF Reply
  <2>2. QED
    BY <1>2, <1>6, <1>10, <2>1 DEF Good
<1>11. QED
  BY <1>1, <1>7, <1>8, <1>9, <1>10

\* A loader that is ready, or has answered, has nothing to read.
LEMMA LoaderBusy ==
  ASSUME IInv, toTarget # <<>>, phase # "failed"
  PROVE  /\ Live /\ Place /\ step \in {0, 1, 2, 3, 4, 5}
         /\ phase # "ready"
         /\ step = 0 => Asking
         /\ step \in {1, 2} => Synchronizing /\ mode = ModeFor[step] /\ mode \in {"sync", "clock"}
         /\ step = 2 => ~(phase = "send" /\ pos = 1)
         /\ step = 3 => /\ EchoOff /\ mode = "command" /\ phase \in {"echo", "get"}
                        /\ echoOn /\ phase = "echo"
         /\ step \in {4, 5} => Commanding /\ phase = "get" /\ toHost = <<>> /\ got = 0
<1>1. TypeOK /\ Live /\ Place /\ step \in {0, 1, 2, 3, 4, 5}
  <2>1. step \in 0 .. 5 /\ TypeOK
    BY Requests DEF IInv, TypeOK
  <2>2. QED
    BY <2>1 DEF IInv, Live
<1>2. phase # "ready"
  BY <1>1 DEF Live, Quiet
<1>3. step = 0 => Asking
  BY <1>1 DEF Live
<1>4. step \in {1, 2} => Synchronizing /\ mode = ModeFor[step] /\ mode \in {"sync", "clock"}
  BY <1>1 DEF Live, Synchronizing, ModeFor
<1>5. step = 2 => ~(phase = "send" /\ pos = 1)
  BY <1>1 DEF Live, Synchronizing, Quiet
<1>6. ASSUME step = 3
      PROVE  EchoOff /\ mode = "command" /\ echoOn /\ phase = "echo"
  <2>1. EchoOff /\ mode = "command"
    BY <1>1, <1>6 DEF Live, EchoOff
  <2>2. phase \in {"send", "echo", "get"} /\ (phase = "send" => pos \in {1, 2})
    BY <1>1, <1>2, <1>6 DEF TypeOK, Place
  <2>3. phase # "send"
    BY <2>1, <2>2 DEF EchoOff, Quiet
  <2>4. phase = "echo" => pos = 1 \/ pos = 2
    BY <1>1 DEF Place
  <2>5. echoOn
    BY <2>1, <2>2, <2>3, <2>4 DEF EchoOff, Sent
  <2>6. phase = "echo"
    BY <2>1, <2>2, <2>3, <2>5 DEF EchoOff, Sent
  <2>7. QED
    BY <2>1, <2>5, <2>6
<1>7. ASSUME step \in {4, 5}
      PROVE  Commanding /\ phase = "get" /\ toHost = <<>> /\ got = 0
  <2>1. Commanding
    BY <1>1, <1>2, <1>7 DEF Live
  <2>2. phase = "get"
    BY <1>1, <1>2, <1>7, <2>1 DEF TypeOK, Place, Commanding, Quiet
  <2>3. got \in Nat /\ ~(got > 0) /\ toHost = <<>>
    BY <1>1, <2>1, <2>2 DEF Commanding, TypeOK
  <2>4. QED
    BY <2>1, <2>2, <2>3
<1>8. QED
  BY <1>1, <1>2, <1>3, <1>4, <1>5, <1>6, <1>7

\* A character of a line, and anything but '?' before the handshake.
LEMMA LoaderPartOfLine ==
  ASSUME IInv, LoaderChar, mode # "autobaud", Head(toTarget) # "nl"
  PROVE  IInv'
<1> DEFINE c == Head(toTarget)
           echoed == IF echoOn THEN <<c>> ELSE <<>>
<1>1. /\ toTarget # <<>> /\ TypeOK
      /\ toTarget \in Seq(Char) /\ toHost \in Seq(Char) /\ line \in Seq(Char \ {"nl"})
      /\ line \in Seq(Char)
  BY Queues DEF LoaderChar, IInv, TypeOK
<1>2. /\ UNCHANGED <<phase, tries, step, pos, buf, got, echo_disable, faults, slow>>
      /\ UNCHANGED <<mode, echoOn>>
      /\ toTarget' = Tail(toTarget)
      /\ line' = Append(line, c)
      /\ toHost' = toHost \o echoed
  BY DEF LoaderChar, host
<1>3. /\ c \in Char \ {"nl"} /\ toTarget' \in Seq(Char) /\ Len(toTarget') = Len(toTarget) - 1
      /\ Sound(toTarget, toTarget') /\ Has(toTarget, c)
      /\ Len(toTarget) \in Nat
  BY <1>1, <1>2, Removed, Empty
<1> HIDE DEF c
<1>4. /\ echoed \in Seq(Char)
      /\ \A d : Has(echoed, d) => d = c
      /\ ~echoOn => echoed = <<>>
      /\ echoOn => echoed = <<c>> /\ Len(echoed) = 1
  <2>1. CASE echoOn
    BY <1>3, <2>1 DEF Has
  <2>2. CASE ~echoOn
    BY <2>2, Empty
  <2>3. QED
    BY <2>1, <2>2
<1> HIDE DEF echoed
<1>5. /\ toHost' \in Seq(Char) /\ Len(toHost') = Len(toHost) + Len(echoed)
      /\ \A d : Has(toHost', d) => Has(toHost, d) \/ d = c
      /\ toHost = <<>> => toHost' = echoed
  BY <1>1, <1>2, <1>4, Joined, ConcatEmptySeq
<1>6. /\ line' \in Seq(Char \ {"nl"}) /\ Len(line') = Len(line) + 1 /\ Len(line) \in Nat
      /\ \A d : Has(line', d) <=> Has(line, d) \/ d = c
  <2>1. line' \in Seq(Char \ {"nl"}) /\ Len(line') = Len(line) + 1 /\ Len(line) \in Nat
    BY <1>1, <1>2, <1>3, AppendProperties
  <2>2. QED
    BY <1>1, <1>2, <1>3, <2>1, Added
<1>7. TypeOK'
  BY <1>1, <1>2, <1>3, <1>5, <1>6 DEF TypeOK
<1>8. ASSUME phase' # "failed"
      PROVE  Live'
  <2>1. /\ Live /\ Place /\ step \in {0, 1, 2, 3, 4, 5} /\ phase # "ready"
        /\ ~Has(toTarget, "OK") /\ (mode # "command" => echoOn)
        /\ phase # "failed"
    BY <1>1, <1>2, <1>8, LoaderBusy DEF Live
  <2>2. /\ Has(toTarget', "OK") => Has(toTarget, "OK")
        /\ Has(toTarget', "nl") => Has(toTarget, "nl")
        /\ Has(toTarget', "S") => Has(toTarget, "S")
        /\ Has(toTarget', "K") => Has(toTarget, "K")
        /\ EndsLine(toTarget) => EndsLine(toTarget')
    BY <1>3 DEF Sound
  <2>3. c # "OK" /\ c # "nl"
    BY <1>3, <2>1
  <2>4. Place' /\ ~Has(toTarget', "OK") /\ (mode' # "command" => echoOn')
    BY <1>2, <2>1, <2>2 DEF Place
  <2>5. CASE step = 0
    <3>1. Asking
      BY <1>1, <2>1, <2>5 DEF Live
    <3>2. c # "S"
      BY <1>3, <3>1 DEF Asking
    <3>3. Asking'
      BY <1>2, <1>5, <2>2, <2>3, <3>1, <3>2 DEF Asking
    <3>4. QED
      BY <1>2, <2>1, <2>4, <2>5, <3>3 DEF Live
  <2>6. CASE step \in {1, 2}
    <3>1. Synchronizing /\ mode = ModeFor[step] /\ ~(step = 2 /\ phase = "send" /\ pos = 1)
      BY <1>1, <2>1, <2>6, LoaderBusy
    <3>2. Sent' = Sent
      BY <1>2 DEF Sent
    <3>3. Synchronizing'
      BY <1>2, <1>5, <2>2, <2>3, <3>1, <3>2 DEF Synchronizing
    <3>4. QED
      BY <1>2, <2>1, <2>4, <2>6, <3>3 DEF Live
  <2>7. CASE step = 3 /\ pos = 1
    <3>1. EchoOff /\ mode = "command" /\ phase = "echo" /\ echoOn
      BY <1>1, <2>1, <2>7, LoaderBusy
    <3>2. /\ ~Has(toTarget, "nl") /\ toHost = <<>> /\ Len(toTarget) + Len(line) <= 1
      BY <1>1, <2>7, <3>1 DEF EchoOff
    <3>3. Len(toTarget) = 1 /\ Len(line) = 0
      <4>1. Len(toTarget) # 0
        BY <1>1, Empty
      <4>2. \A m, n \in Nat : m # 0 /\ m + n <= 1 => m = 1 /\ n = 0
        OBVIOUS
      <4>3. QED
        BY <1>3, <1>6, <3>2, <4>1, <4>2
    <3>4. line = <<>> /\ toTarget' = <<>>
      BY <1>1, <1>3, <3>3, Empty
    <3>5. line' = <<c>> /\ toHost' = echoed /\ Len(toHost') = 1 /\ Len(line') = 1
      BY <1>2, <1>4, <1>5, <1>6, <3>1, <3>2, <3>3, <3>4
    <3>6. ~Has(toHost', "nl") /\ (Has(toHost', "A") => line' = <<"A">>)
      BY <1>4, <2>3, <3>5
    <3>7. Len(toTarget') = 0 /\ ~Has(toTarget', "nl")
      BY <3>4, Empty
    <3>8. EchoOff'
      BY <1>2, <2>7, <3>1, <3>4, <3>5, <3>6, <3>7 DEF EchoOff, Sent
    <3>9. QED
      BY <1>2, <2>1, <2>4, <2>7, <3>8 DEF Live
  <2>8. CASE step = 3 /\ pos = 2
    <3>1. EchoOff /\ mode = "command" /\ phase = "echo" /\ echoOn
      BY <1>1, <2>1, <2>8, LoaderBusy
    <3>2. Len(toTarget) = 1 /\ toHost = <<>>
      BY <1>1, <2>8, <3>1 DEF EchoOff, Sent
    <3>3. toTarget' = <<>>
      BY <1>3, <3>2, Empty
    <3>4. ~Has(toHost', "nl")
      BY <1>4, <1>5, <2>3, <3>2
    <3>5. EchoOff'
      BY <1>2, <2>8, <3>1, <3>3, <3>4 DEF EchoOff, Sent
    <3>6. QED
      BY <1>2, <2>1, <2>4, <2>8, <3>5 DEF Live
  <2>9. CASE step \in {4, 5}
    <3>1. Commanding /\ phase = "get" /\ toHost = <<>> /\ got = 0
      BY <1>1, <2>1, <2>9, LoaderBusy
    <3>2. toHost' = <<>>
      BY <1>4, <1>5, <3>1 DEF Commanding
    <3>3. step = 5 => ~Has(line', "K")
      BY <1>3, <1>6, <3>1 DEF Commanding
    <3>4. Commanding'
      BY <1>2, <2>2, <3>1, <3>2, <3>3 DEF Commanding
    <3>5. QED
      BY <1>2, <2>1, <2>4, <2>9, <3>4 DEF Live
  <2>10. step = 3 => pos \in {1, 2}
    <3>1. step = 3 => phase = "echo"
      BY <1>1, <2>1, LoaderBusy
    <3>2. QED
      BY <2>1, <3>1 DEF Place
  <2>11. QED
    BY <2>1, <2>5, <2>6, <2>7, <2>8, <2>9, <2>10
<1>9. QED
  BY <1>7, <1>8 DEF IInv

\* Looking for the baud rate.
LEMMA LoaderAutobaud ==
  ASSUME IInv, LoaderChar, mode = "autobaud"
  PROVE  IInv'
<1>1. /\ toTarget # <<>> /\ TypeOK
      /\ toTarget \in Seq(Char) /\ toHost \in Seq(Char)
  BY DEF LoaderChar, IInv, TypeOK
<1>2. /\ UNCHANGED <<phase, tries, step, pos, buf, got, echo_disable, faults, slow>>
      /\ toTarget' = Tail(toTarget)
      /\ line' = <<>>
      /\ \/ mode' = "sync" /\ echoOn' = TRUE /\ toHost' = toHost \o <<"S", "nl">>
         \/ UNCHANGED <<mode, echoOn, toHost>>
  BY DEF LoaderChar, host
<1>3. toTarget' \in Seq(Char) /\ Sound(toTarget, toTarget')
  BY <1>1, <1>2, Removed
<1>4. /\ toHost' \in Seq(Char) /\ (Has(toHost', "OK") => Has(toHost, "OK"))
      /\ Has(toHost', "S") => Has(toHost, "S") \/ mode' = "sync"
  <2>1. <<"S", "nl">> \in Seq(Char) /\ ~Has(<<"S", "nl">>, "OK")
    BY DEF Char, Has
  <2>2. /\ toHost \o <<"S", "nl">> \in Seq(Char)
        /\ Has(toHost \o <<"S", "nl">>, "OK") => Has(toHost, "OK")
    BY <1>1, <2>1, Joined
  <2>3. QED
    BY <1>1, <1>2, <2>2
<1>5. TypeOK'
  <2>1. line' \in Seq(Char \ {"nl"})
    BY <1>2, EmptySeq
  <2>2. mode' \in {"autobaud", "sync", "clock", "command"} /\ echoOn' \in BOOLEAN
    BY <1>1, <1>2 DEF TypeOK
  <2>3. QED
    BY <1>1, <1>2, <1>3, <1>4, <2>1, <2>2 DEF TypeOK
<1>6. ASSUME phase' # "failed"
      PROVE  Live'
  <2>1. /\ Live /\ Place /\ phase # "ready" /\ phase # "failed"
        /\ step = 0 /\ Asking /\ echoOn
    BY <1>1, <1>2, <1>6, LoaderBusy DEF Live, Commanding
  <2>2. Place'
    BY <1>2, <2>1 DEF Place
  <2>3. /\ ~Has(toTarget', "OK") /\ ~Has(toTarget', "nl") /\ ~Has(toTarget', "S")
    BY <1>3, <2>1 DEF Sound, Asking, Live
  <2>4. Asking'
    BY <1>2, <1>4, <2>1, <2>3 DEF Asking
  <2>5. echoOn' /\ step' = 0
    BY <1>2, <2>1
  <2>6. QED
    BY <1>2, <1>6, <2>1, <2>2, <2>3, <2>4, <2>5 DEF Live
<1>7. QED
  BY <1>5, <1>6 DEF IInv

\* A whole line, and what is answered to it.
LEMMA LoaderEndOfLine ==
  ASSUME IInv, LoaderChar, mode # "autobaud", Head(toTarget) = "nl"
  PROVE  IInv'
<1> DEFINE echoed == IF echoOn THEN <<"nl">> ELSE <<>>
<1>1. /\ toTarget # <<>> /\ TypeOK
      /\ toTarget \in Seq(Char) /\ toHost \in Seq(Char)
      /\ Reply \in Seq(Char)
  BY Replies DEF LoaderChar, IInv, TypeOK
<1>2. /\ UNCHANGED <<phase, tries, step, pos, buf, got, echo_disable, faults, slow>>
      /\ toTarget' = Tail(toTarget)
      /\ line' = <<>> /\ mode' = NextMode
      /\ toHost' = (toHost \o echoed) \o Reply
      /\ echoOn' = (echoOn /\ ~(mode = "command" /\ line = <<"A">>))
  BY DEF LoaderChar, host
<1>3. /\ toTarget' \in Seq(Char) /\ Sound(toTarget, toTarget') /\ Has(toTarget, "nl")
      /\ EndsLine(toTarget) => toTarget' = <<>>
  BY <1>1, <1>2, Removed
<1>4. /\ echoed \in Seq(Char) /\ ~Has(echoed, "OK") /\ ~Has(echoed, "S")
      /\ ~echoOn => echoed = <<>>
      /\ echoOn => echoed = <<"nl">>
  <2>1. /\ <<"nl">> \in Seq(Char) /\ ~Has(<<"nl">>, "OK") /\ ~Has(<<"nl">>, "S")
        /\ <<>> \in Seq(Char) /\ ~Has(<<>>, "OK") /\ ~Has(<<>>, "S")
    BY Empty DEF Has, Char
  <2>2. QED
    BY <2>1
<1> HIDE DEF echoed
<1> DEFINE before == toHost \o echoed
<1>5. /\ before \in Seq(Char)
      /\ \A d : Has(before, d) <=> Has(toHost, d) \/ Has(echoed, d)
      /\ toHost = <<>> => before = echoed
  BY <1>1, <1>4, Joined, ConcatEmptySeq
<1>6. toHost' = before \o Reply
  BY <1>2
<1> HIDE DEF before
<1>7. /\ toHost' \in Seq(Char) /\ Len(toHost') = Len(before) + Len(Reply)
      /\ \A d : Has(toHost', d) <=> Has(before, d) \/ Has(Reply, d)
      /\ ~Has(before, "OK") /\ EndsOK(Reply) => EndsOK(toHost')
      /\ before = <<>> => toHost' = Reply
  BY <1>1, <1>5, <1>6, Joined, ConcatEmptySeq
<1>8. TypeOK'
  <2>1. line' \in Seq(Char \ {"nl"})
    BY <1>2, EmptySeq
  <2>2. mode' \in {"autobaud", "sync", "clock", "command"}
    BY <1>1, <1>2, Replies
  <2>3. echoOn' \in BOOLEAN
    BY <1>2, Zenon
  <2>4. QED
    BY <1>1, <1>2, <1>3, <1>7, <2>1, <2>2, <2>3 DEF TypeOK
<1>9. ASSUME phase' # "failed"
      PROVE  Live'
  <2>1. /\ Live /\ Place /\ step \in {0, 1, 2, 3, 4, 5} /\ phase # "ready"
        /\ ~Has(toTarget, "OK")
        /\ phase # "failed"
    BY <1>1, <1>2, <1>9, LoaderBusy DEF Live
  <2>2. Place' /\ ~Has(toTarget', "OK")
    BY <1>2, <1>3, <2>1 DEF Place, Sound
  <2>3. step # 0
    BY <1>1, <1>3, <2>1, LoaderBusy DEF Asking
  <2>4. CASE step \in {1, 2}
    <3>1. /\ Synchronizing /\ mode = ModeFor[step] /\ mode \in {"sync", "clock"}
          /\ ~(step = 2 /\ phase = "send" /\ pos = 1)
      BY <1>1, <2>1, <2>4, LoaderBusy
    <3>2. /\ echoOn /\ Sent /\ toTarget' = <<>> /\ echoOn'
          /\ ~Has(buf, "OK") /\ ~Has(toHost, "OK")
      BY <1>2, <1>3, <3>1 DEF Synchronizing
    <3>3. ~Has(before, "OK")
      BY <1>4, <1>5, <3>2
    <3>4. \/ mode' = ModeFor[step + 1] /\ mode' # ModeFor[step] /\ EndsOK(Reply)
          \/ ~Has(Reply, "OK")
      <4>1. CASE step = 1
        BY <1>1, <1>2, <3>1, <4>1, Replies DEF ModeFor
      <4>2. CASE step = 2
        BY <1>1, <1>2, <3>1, <4>2, Replies DEF ModeFor
      <4>3. QED
        BY <2>4, <4>1, <4>2
    <3>5. EndsLine(toTarget') /\ ~Has(toTarget', "nl") /\ line' = <<>> /\ Sent'
      BY <1>2, <3>2, Empty DEF Sent
    <3>6. CASE mode' = ModeFor[step + 1] /\ mode' # ModeFor[step] /\ EndsOK(Reply)
      <4>1. EndsOK(toHost')
        BY <1>7, <3>3, <3>6
      <4>2. Synchronizing'
        BY <1>2, <3>1, <3>2, <3>5, <3>6, <4>1 DEF Synchronizing
      <4>3. QED
        BY <1>2, <2>1, <2>2, <2>4, <3>2, <4>2 DEF Live
    <3>7. CASE ~Has(Reply, "OK")
      <4>1. ~Has(toHost', "OK") /\ ~Has(buf', "OK")
        BY <1>2, <1>7, <3>2, <3>3, <3>7
      <4>2. EndsOK(toHost')
        BY <4>1 DEF Has, EndsOK
      <4>3. Synchronizing'
        BY <1>2, <3>1, <3>2, <3>5, <4>1, <4>2 DEF Synchronizing
      <4>4. QED
        BY <1>2, <2>1, <2>2, <2>4, <3>2, <4>3 DEF Live
    <3>8. QED
      BY <3>4, <3>6, <3>7
  <2>5. CASE step = 3
    <3>1. EchoOff /\ mode = "command" /\ phase = "echo" /\ echoOn
      BY <1>1, <2>1, <2>5, LoaderBusy
    <3>2. pos = 2 /\ Sent
      BY <1>3, <2>1, <3>1 DEF Place, EchoOff, Sent
    <3>3. Len(toTarget) = 1 /\ line = <<"A">> /\ toHost = <<>>
      BY <1>1, <3>1, <3>2 DEF EchoOff
    <3>4. Reply = <<"0", "nl">> /\ mode' = "command" /\ ~echoOn'
      BY <1>1, <1>2, <3>1, <3>3, Replies
    <3>5. EndsLine(toTarget)
      BY <3>3 DEF EndsLine
    <3>6. toHost' = <<"nl">> \o <<"0", "nl">>
      BY <1>4, <1>5, <1>6, <3>1, <3>3, <3>4
    <3>7. /\ Len(toHost') = 3 /\ Len(<<"nl">>) = 1
          /\ \A i \in 1 .. 3 : toHost'[i] = IF i <= 1 THEN <<"nl">>[i] ELSE <<"0", "nl">>[i - 1]
      <4>1. /\ <<"nl">> \in Seq(Char) /\ <<"0", "nl">> \in Seq(Char)
            /\ Len(<<"nl">>) = 1 /\ Len(<<"0", "nl">>) = 2
        BY DEF Char
      <4>2. QED
        BY <3>6, <4>1, ConcatProperties
    <3>8. EndsLines(toHost') /\ Len(toHost') = 3
      BY <3>7 DEF EndsLines
    <3>9. EchoOff'
      BY <1>2, <1>3, <3>1, <3>2, <3>4, <3>5, <3>8 DEF EchoOff, Sent
    <3>10. QED
      BY <1>2, <2>1, <2>2, <2>5, <3>4, <3>9 DEF Live
  <2>6. CASE step \in {4, 5}
    <3>1. Commanding /\ phase = "get" /\ toHost = <<>> /\ got = 0
      BY <1>1, <2>1, <2>6, LoaderBusy
    <3>2. /\ mode = "command" /\ ~echoOn /\ EndsLine(toTarget)
          /\ step = 5 => ~Has(line, "K")
      BY <3>1 DEF Commanding
    <3>3. toHost' = Reply
      BY <1>4, <1>5, <1>7, <3>1, <3>2
    <3>4. mode' = "command" /\ ~echoOn' /\ EndsLines(Reply) /\ Len(Reply) <= 6
      BY <1>1, <1>2, <3>2, Replies
    <3>5. step = 5 => Len(Reply) <= 4
      <4>1. Has(<<"K">>, "K")
        BY DEF Has
      <4>2. step = 5 => line # <<"K">>
        BY <3>2, <4>1
      <4>3. QED
        BY <1>1, <3>2, <4>2, Replies
    <3>6. toTarget' = <<>> /\ EndsLine(toTarget') /\ ~Has(toTarget', "K") /\ ~Has(line', "K")
      BY <1>2, <1>3, <3>2, Empty
    <3>7. 2 * got' + Len(toHost') <= 2 * AnswerLines[step']
      <4>1. got' = 0 /\ step' = step /\ Len(Reply) \in Nat
        BY <1>1, <1>2, <3>1, Empty
      <4>2. AnswerLines[4] = 3 /\ AnswerLines[5] = 2
        BY DEF AnswerLines
      <4>3. QED
        BY <2>6, <3>3, <3>4, <3>5, <4>1, <4>2
    <3>8. Commanding'
      BY <1>2, <3>1, <3>3, <3>4, <3>6, <3>7 DEF Commanding
    <3>9. QED
      BY <1>2, <2>1, <2>2, <2>6, <3>4, <3>8 DEF Live
  <2>7. QED
    BY <2>1, <2>3, <2>4, <2>5, <2>6
<1>10. QED
  BY <1>8, <1>9 DEF IInv

-----------------------------------------------------------------------------
(* The line.                                                                *)

\* Losing or corrupting a character never makes one that somebody waits for.
LEMMA FaultStep == IInv /\ (LoseChar \/ CorruptChar) => IInv'
<1> SUFFICES ASSUME IInv, LoseChar \/ CorruptChar
             PROVE  IInv'
  OBVIOUS
<1>1. /\ TypeOK /\ faults' \in 0 .. MaxFaults
      /\ UNCHANGED <<phase, tries, step, pos, buf, got, echo_disable, mode, echoOn, line, slow>>
      /\ Damaged(toTarget, toTarget') /\ Damaged(toHost, toHost')
  BY Faulty DEF IInv, LoseChar, CorruptChar, host, loader, Damaged
<1>2. Sound(toTarget, toTarget') /\ Sound(toHost, toHost')
  BY <1>1, Damage DEF TypeOK
<1>3. /\ toTarget' \in Seq(Char) /\ Len(toTarget') <= Len(toTarget)
      /\ (toTarget = <<>> => toTarget' = <<>>)
      /\ Has(toTarget', "nl") => Has(toTarget, "nl")
      /\ Has(toTarget', "S") => Has(toTarget, "S")
      /\ Has(toTarget', "OK") => Has(toTarget, "OK")
      /\ Has(toTarget', "K") => Has(toTarget, "K")
      /\ EndsLine(toTarget) => EndsLine(toTarget')
  BY <1>2 DEF Sound
<1>4. /\ toHost' \in Seq(Char) /\ Len(toHost') <= Len(toHost)
      /\ (toHost = <<>> => toHost' = <<>>)
      /\ Has(toHost', "nl") => Has(toHost, "nl")
      /\ Has(toHost', "S") => Has(toHost, "S")
      /\ Has(toHost', "OK") => Has(toHost, "OK")
      /\ Has(toHost', "A") => Has(toHost, "A")
      /\ EndsLines(toHost) => EndsLines(toHost')
      /\ EndsOK(toHost) => EndsOK(toHost')
  BY <1>2 DEF Sound
<1>5. /\ Len(toTarget) \in Nat /\ Len(toTarget') \in Nat
      /\ Len(toHost) \in Nat /\ Len(toHost') \in Nat /\ Len(line) \in Nat
      /\ toHost' # <<>> => Len(toHost') # 0
      /\ toTarget' # <<>> => Len(toTarget') # 0
  BY <1>1, <1>3, <1>4, Empty, Queues DEF TypeOK
<1>6. TypeOK'
  BY <1>1, <1>3, <1>4 DEF TypeOK
<1>7. ASSUME phase' # "failed"
      PROVE  Live'
  <2>1. Live /\ Place /\ step \in {0, 1, 2, 3, 4, 5}
    <3>1. step \in 0 .. 5 /\ phase # "failed"
      BY <1>1, <1>7, Requests DEF TypeOK
    <3>2. QED
      BY <3>1 DEF IInv, Live
  <2>2. /\ Place' /\ ~Has(toTarget', "OK") /\ (mode' # "command" => echoOn')
        /\ Sent' = Sent
    BY <1>1, <1>3, <2>1 DEF Place, Live, Sent
  <2>3. Quiet => Quiet'
    BY <1>1, <1>3, <1>4 DEF Quiet
  <2>4. step = 0 => Asking'
    BY <1>1, <1>3, <1>4, <2>1 DEF Live, Asking
  <2>5. ASSUME step \in {1, 2}
        PROVE  Synchronizing'
    <3>1. Synchronizing
      BY <2>1, <2>5 DEF Live
    <3>2. Len(toHost) <= 1 => Len(toHost') <= 1
      BY <1>4, <1>5
    <3>3. QED
      BY <1>1, <1>3, <1>4, <2>2, <2>3, <3>1, <3>2 DEF Synchronizing
  <2>6. ASSUME step = 3
        PROVE  EchoOff'
    <3>1. EchoOff
      BY <2>1, <2>6 DEF Live
    <3>2. /\ Len(toTarget) + Len(line) <= 1 => Len(toTarget') + Len(line) <= 1
          /\ Len(toHost) = 1 /\ toHost' # <<>> => Len(toHost') = 1
          /\ Len(toTarget) = 1 /\ toTarget' # <<>> => Len(toTarget') = 1
          /\ Len(toHost) <= 3 => Len(toHost') <= 3
          /\ Len(toHost) <= 2 => Len(toHost') <= 2
      <4>1. \A m, n, k \in Nat :
              n <= m => /\ m + k <= 1 => n + k <= 1
                        /\ m = 1 /\ n # 0 => n = 1
                        /\ m <= 3 => n <= 3
                        /\ m <= 2 => n <= 2
        OBVIOUS
      <4>2. /\ Len(toTarget) + Len(line) <= 1 => Len(toTarget') + Len(line) <= 1
            /\ Len(toTarget) = 1 /\ Len(toTarget') # 0 => Len(toTarget') = 1
        BY <1>3, <1>5, <4>1
      <4>3. /\ Len(toHost) = 1 /\ Len(toHost') # 0 => Len(toHost') = 1
            /\ Len(toHost) <= 3 => Len(toHost') <= 3
            /\ Len(toHost) <= 2 => Len(toHost') <= 2
        <5> DEFINE m == Len(toHost)
                   n == Len(toHost')
        <5>1. m \in Nat /\ n \in Nat /\ n <= m
          BY <1>4, <1>5
        <5> HIDE DEF m, n
        <5>2. /\ m = 1 /\ n # 0 => n = 1
              /\ m <= 3 => n <= 3
              /\ m <= 2 => n <= 2
          BY <4>1, <5>1
        <5>3. QED
          BY <5>2 DEF m, n
      <4>4. QED
        BY <1>5, <4>2, <4>3
    <3>3. CASE phase = "send"
      BY <1>1, <1>3, <1>4, <2>3, <3>1, <3>3 DEF EchoOff, Sent
    <3>4. CASE phase = "echo" /\ pos = 1
      BY <1>1, <1>3, <1>4, <3>1, <3>2, <3>4 DEF EchoOff, Sent
    <3>5. CASE Sent
      BY <1>1, <1>3, <1>4, <2>2, <3>1, <3>2, <3>5 DEF EchoOff, Sent
    <3>6. phase \in {"send", "echo", "get"} /\ (phase = "echo" => pos \in {1, 2})
      BY <1>1, <1>7, <2>1, <2>6 DEF TypeOK, Place
    <3>7. QED
      BY <3>3, <3>4, <3>5, <3>6 DEF Sent
  <2>7. ASSUME step \in {4, 5}, phase # "ready"
        PROVE  Commanding'
    <3>1. Commanding
      BY <2>1, <2>7 DEF Live
    <3>2. phase = "get" => 2 * got + Len(toHost') <= 2 * AnswerLines[step]
      <4>1. got \in Nat /\ AnswerLines[step] \in Nat
        BY <1>1, <2>7 DEF TypeOK, AnswerLines
      <4>2. \A g, m, n, t \in Nat : 2 * g + m <= 2 * t /\ n <= m => 2 * g + n <= 2 * t
        OBVIOUS
      <4>3. QED
        BY <1>4, <1>5, <3>1, <4>1, <4>2 DEF Commanding
    <3>3. QED
      BY <1>1, <1>3, <1>4, <2>3, <3>1, <3>2 DEF Commanding
  <2>8. phase = "ready" => Quiet' /\ mode' = "command" /\ ~echoOn'
    BY <1>1, <2>1, <2>3 DEF Live
  <2>9. QED
    BY <1>1, <2>2, <2>4, <2>5, <2>6, <2>7, <2>8 DEF Live
<1>8. QED
  BY <1>6, <1>7 DEF IInv

-----------------------------------------------------------------------------
(* The theorems.                                                            *)

LEMMA Initially == Init => IInv
<1> SUFFICES ASSUME Init
             PROVE  IInv
  OBVIOUS
<1>1. PICK s \in Starts : mode = s.mode /\ echoOn = s.echo /\ toTarget = s.queue
  BY DEF Init
<1>2. /\ mode \in {"autobaud", "sync", "clock", "command"} /\ echoOn \in BOOLEAN
      /\ mode # "command" => echoOn
      /\ toTarget \in Seq(Char \ {"S", "OK", "nl"})
  BY <1>1, SessionAssumption DEF SessionAssumption
<1>3. toTarget \in Seq(Char) /\ ~Has(toTarget, "S") /\ ~Has(toTarget, "OK") /\ ~Has(toTarget, "nl")
  <2>1. toTarget \in Seq(Char)
    BY <1>2, SeqMonotonic
  <2>2. \A k \in 1 .. Len(toTarget) : toTarget[k] \in Char \ {"S", "OK", "nl"}
    BY <1>2, ElementOfSeq
  <2>3. QED
    BY <2>1, <2>2 DEF Has
<1>4. TypeOK
  <2>1. <<>> \in Seq(Char \ {"nl"}) /\ <<>> \in Seq(Char) /\ Len(<<>>) < LineLimit
    BY EmptySeq, SessionAssumption DEF SessionAssumption
  <2>2. 0 \in 0 .. Retry /\ 0 \in 0 .. MaxFaults
    BY SessionAssumption DEF SessionAssumption
  <2>3. phase = "ask" /\ tries = 0 /\ step = 0 /\ pos = 1 /\ got = 0 /\ faults = 0
    BY DEF Init
  <2>4. /\ phase \in {"ask", "answer", "send", "echo", "get", "ready", "failed"}
        /\ tries \in 0 .. Retry /\ faults \in 0 .. MaxFaults
    BY <2>2, <2>3
  <2>5. step \in 0 .. Len(Request) /\ pos \in 1 .. 3 /\ got \in 0 .. 2
    BY <2>3, Requests
  <2>6. buf = <<>> /\ line = <<>> /\ toHost = <<>>
    BY DEF Init
  <2>7. /\ buf \in Seq(Char \ {"nl"}) /\ Len(buf) < LineLimit
        /\ line \in Seq(Char \ {"nl"}) /\ toHost \in Seq(Char)
    BY <2>1, <2>6
  <2>8. echo_disable \in BOOLEAN /\ slow \in BOOLEAN
    BY Zenon DEF Init
  <2>9. QED
    BY <1>2, <1>3, <2>4, <2>5, <2>7, <2>8 DEF TypeOK
<1>5. Place
  BY DEF Init, Place
<1>6. Asking
  BY <1>3, Empty DEF Init, Asking
<1>7. QED
  BY <1>2, <1>3, <1>4, <1>5, <1>6 DEF Init, IInv, Live

\* IInv holds in every reachable state.
THEOREM Invariance == Spec => []IInv
<1>1. IInv /\ [Next]_vars => IInv'
  <2> SUFFICES ASSUME IInv, [Next]_vars
               PROVE  IInv'
    OBVIOUS
  <2>1. CASE Ask
    BY <2>1, AskStep
  <2>2. CASE GetChar
    BY <2>2, GetPartOfLine, GetEndOfLine
  <2>3. CASE SendChars
    BY <2>3, SendCharsStep
  <2>4. CASE GetEcho
    BY <2>4, GetEchoStep
  <2>5. CASE Timeout
    BY <2>5, TimeoutStep
  <2>6. CASE LoaderChar
    BY <2>6, LoaderAutobaud, LoaderPartOfLine, LoaderEndOfLine
  <2>7. CASE LoseChar \/ CorruptChar
    BY <2>7, FaultStep
  <2>8. CASE IoError
    BY <2>8, IoErrorStep
  <2>9. CASE UNCHANGED vars
    BY <2>9 DEF vars, host, loader, IInv, TypeOK, Live, Place, Asking, Synchronizing,
            EchoOff, Commanding, Sent, Quiet
  <2>10. QED
    BY <2>1, <2>2, <2>3, <2>4, <2>5, <2>6, <2>7, <2>8, <2>9 DEF Next, Host
<1>2. QED
  BY <1>1, Initially, PTL DEF Spec

\* No variable leaves its range, and com_gets stays within its buffer
\* (transfer.c), whatever comes over the line.
THEOREM TypeCorrect == Spec => []TypeOK
<1>1. IInv => TypeOK
  BY DEF IInv
<1>2. QED
  BY <1>1, Invariance, PTL

\* However many characters are lost or corrupted, and however old the loader
\* and the answers are, from the first "OK" on main() (main.c:192-216) makes
\* every request, and starts the transfer, with the loader in the mode that
\* it needs, in agreement with it on echo, and with nothing on the line.
THEOREM InLockstep == Spec => []Lockstep
<1>1. IInv => Lockstep
  <2> SUFFICES ASSUME IInv
               PROVE  Lockstep
    OBVIOUS
  <2>1. step \in 0 .. 5
    BY Requests DEF IInv, TypeOK
  <2>2. ASSUME phase = "send", pos = 1, step >= 2
        PROVE  Quiet /\ mode = ModeFor[step] /\ echoOn = ~echo_disable
    <3>1. Live /\ Place /\ step \in {2, 3, 4, 5} /\ echoOn \in BOOLEAN /\ echo_disable \in BOOLEAN
      BY <2>1, <2>2 DEF IInv, TypeOK, Live
    <3>2. CASE step = 2
      <4>1. Quiet /\ mode = "clock" /\ echoOn /\ ~echo_disable
        BY <2>2, <3>1, <3>2 DEF Live, Synchronizing, Place
      <4>2. ModeFor[step] = "clock"
        BY <3>2 DEF ModeFor
      <4>3. QED
        BY <3>1, <4>1, <4>2
    <3>3. CASE step = 3
      <4>1. Quiet /\ mode = "command" /\ echoOn /\ ~echo_disable
        BY <2>2, <3>1, <3>3 DEF Live, EchoOff, Place
      <4>2. ModeFor[step] = "command"
        BY <3>3 DEF ModeFor
      <4>3. QED
        BY <3>1, <4>1, <4>2
    <3>4. CASE step \in {4, 5}
      <4>1. Quiet /\ mode = "command" /\ ~echoOn /\ echo_disable
        BY <2>2, <3>1, <3>4 DEF Live, Commanding, Place
      <4>2. ModeFor[step] = "command"
        BY <3>4 DEF ModeFor
      <4>3. QED
        BY <3>1, <4>1, <4>2
    <3>5. QED
      BY <3>1, <3>2, <3>3, <3>4
  <2>3. ASSUME phase = "ready"
        PROVE  Quiet /\ mode = "command" /\ ~echoOn /\ echo_disable
    BY <2>3 DEF IInv, Live, Place
  <2>4. QED
    BY <2>2, <2>3 DEF Lockstep
<1>2. QED
  BY <1>1, Invariance, PTL
=============================================================================
