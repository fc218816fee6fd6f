------------------------------ MODULE IspUpload ------------------------------
(***************************************************************************)
(* usart-util -U: main() opens the file, starts the session, and upload()  *)
(* reads the flash in pieces of a sector, one R command each, over a line  *)
(* that may lose or corrupt characters.                                    *)
(*                                                                         *)
(* An answer to R is a line with the return code, ended by CR and LF, and  *)
(* then n bytes of data, without any framing.  com_gets stops at the first *)
(* LF: a code line that a corrupted character ends early is torn, its own  *)
(* LF is the first byte of the data, and what is read too little of this   *)
(* answer is the beginning of the next one.  What stdio has accepted is    *)
(* not on the disk yet, and the disk may be full.                          *)
(* Definitions under "Mistake" are not part of the model.                  *)
(***************************************************************************)
EXTENDS Integers, Sequences, FiniteSets

CONSTANTS Flash,      \* contents of the flash, a sequence of characters
          BufSize,    \* sizeof(buf), a sector
          Word,       \* the loader reads multiples of this only
          LineLimit,  \* characters com_gets accepts in a line
          Sizes,      \* values of -t, which atoi() may make negative or 0
          Rooms,      \* space on the disk
          MaxFaults   \* bound on lost and corrupted characters

\* The digit 0, another digit, CR (or other white space), LF, a sign, and
\* anything else.  Flash and line may have any of them anywhere.
Char == {"0", "E", "cr", "nl", "-", "x"}

ASSUME UploadAssumption ==
  /\ Flash \in Seq(Char)
  /\ BufSize \in Nat \ {0} /\ Word \in Nat \ {0} /\ LineLimit \in Nat \ {0}
  /\ Sizes \subseteq Int /\ Rooms \subseteq Nat /\ MaxFaults \in Nat

VARIABLES
  pc,      \* what the host does next
  size,    \* bytes asked for with -t
  room,    \* what the disk can hold
  disk,    \* the file as it is on the disk
  stdio,   \* accepted by fwrite() and not written yet
  a, i,    \* address and count of upload()
  line,    \* characters of the return code read by com_gets
  buf,     \* bytes of the piece read so far
  toHost,  \* characters on the serial line
  faults,
  torn     \* history: offsets of the pieces whose code line was torn

vars == <<pc, size, room, disk, stdio, a, i, line, buf, toHost, faults, torn>>

Old == <<"E", "E">>      \* the file that was there before
Take(s, k) == SubSeq(s, 1, IF k < Len(s) THEN k ELSE Len(s))

\* The bytes of s that are not those of the flash, up to the first of the
\* offsets in T.
Wrong(s, T) ==
  {k \in 1..Len(s) : /\ \A t \in T : k <= t
                     /\ k > Len(Flash) \/ s[k] # Flash[k]}

-----------------------------------------------------------------------------
(* Host.                                                                   *)

\* fopen(fname, "w") empties the file before anything is known of the device.
Open ==
  /\ pc = "open"
  /\ disk' = <<>>
  /\ pc' = "session"
  /\ UNCHANGED <<size, room, stdio, a, i, line, buf, toHost, faults, torn>>

\* The serial port, the handshake and the identification of the device.
Session ==
  /\ pc = "session"
  /\ pc' \in {"loop", "ioerror"}
  /\ UNCHANGED <<size, room, disk, stdio, a, i, line, buf, toHost, faults, torn>>

Chunk == IF size - i > BufSize THEN BufSize ELSE size - i

\* What the loader may answer to R: a refusal has a code of one digit or two.
Answers(addr, n) ==
  IF addr + n <= Len(Flash) /\ n % Word = 0
  THEN {<<"0", "cr", "nl">> \o SubSeq(Flash, addr + 1, addr + n)}
  ELSE {<<"E", "cr", "nl">>, <<"E", "E", "cr", "nl">>}

\* upload() returns the size asked for, which main() takes for an error when
\* it is negative.
Loop ==
  /\ pc = "loop"
  /\ IF i < size
     THEN /\ pc' = "code"
          /\ \E answer \in Answers(a, Chunk) : toHost' = toHost \o answer
     ELSE pc' = (IF size < 0 THEN "ioerror" ELSE "close") /\ UNCHANGED toHost
  /\ line' = <<>> /\ buf' = <<>>
  /\ UNCHANGED <<size, room, disk, stdio, a, i, faults, torn>>

\* sscanf() finds a 0 at the start of l, a line without its LF: it skips
\* white space and takes one sign, and reads digits as long as there are any.
IsZero(l) ==
  \E s \in 0..Len(l), e \in 1..Len(l) :
    /\ s < e
    /\ \A j \in 1..s : l[j] = "cr" \/ (j = s /\ l[j] = "-")
    /\ \A j \in s+1..e : l[j] = "0"
    /\ e = Len(l) \/ l[e+1] \notin {"0", "E"}

\* com_gets, and what is made of the line it has read.
GetCode ==
  /\ pc = "code" /\ toHost # <<>>
  /\ line' = Append(line, Head(toHost))
  /\ toHost' = Tail(toHost)
  /\ pc' = CASE Head(toHost) = "nl" /\ IsZero(line)                 -> "data"
             [] Head(toHost) # "nl" /\ Len(line) + 1 < LineLimit -> "code"
             [] OTHER                                            -> "ioerror"
  /\ UNCHANGED <<size, room, disk, stdio, a, i, buf, faults, torn>>

\* com_read: exactly n bytes, whatever they are.
GetData ==
  /\ pc = "data" /\ toHost # <<>>
  /\ buf' = Append(buf, Head(toHost))
  /\ toHost' = Tail(toHost)
  /\ pc' = IF Len(buf) + 1 = Chunk THEN "write" ELSE "data"
  /\ UNCHANGED <<size, room, disk, stdio, a, i, line, faults, torn>>

\* read() returns 0 after half a second, also when the answer is only late.
Timeout ==
  /\ pc \in {"code", "data"}
  /\ pc' = "ioerror"
  /\ UNCHANGED <<size, room, disk, stdio, a, i, line, buf, toHost, faults, torn>>

\* Mistake: a is not advanced.
WriteKeepsAddress ==
  /\ pc = "write"
  /\ i' = i + Len(buf) /\ pc' = "loop" /\ stdio' = stdio \o buf
  /\ UNCHANGED <<size, room, a, disk, line, buf, toHost, faults, torn>>

\* fwrite() keeps the bytes, or writes all it has and finds out if they fit.
Write ==
  /\ pc = "write"
  /\ LET all == disk \o stdio \o buf IN
       \/ /\ stdio' = stdio \o buf /\ UNCHANGED disk
          /\ a' = a + Len(buf) /\ i' = i + Len(buf) /\ pc' = "loop"
       \/ /\ disk' = Take(all, room) /\ stdio' = <<>>
          /\ IF Len(all) <= room
             THEN a' = a + Len(buf) /\ i' = i + Len(buf) /\ pc' = "loop"
             ELSE UNCHANGED <<a, i>> /\ pc' = "ioerror"
  /\ UNCHANGED <<size, room, line, buf, toHost, faults, torn>>

\* fclose() writes what stdio still has.
Flush == disk' = Take(disk \o stdio, room) /\ stdio' = <<>>

\* Mistake: the result of fclose() is not looked at.
CloseUnchecked ==
  /\ pc = "close"
  /\ Flush
  /\ pc' = "success"
  /\ UNCHANGED <<size, room, a, i, line, buf, toHost, faults, torn>>

\* The end of main(): the serial port is restored and closed, which may fail
\* too, and the file is closed on every path.
Close ==
  /\ pc = "close"
  /\ Flush
  /\ pc' \in IF Len(disk \o stdio) <= room THEN {"success", "failure"}
                                           ELSE {"failure"}
  /\ UNCHANGED <<size, room, a, i, line, buf, toHost, faults, torn>>

IoError ==
  /\ pc = "ioerror"
  /\ Flush
  /\ pc' = "failure"
  /\ UNCHANGED <<size, room, a, i, line, buf, toHost, faults, torn>>

-----------------------------------------------------------------------------
(* The line and the user.                                                  *)

Remove(s, k) == SubSeq(s, 1, k - 1) \o SubSeq(s, k + 1, Len(s))

LoseChar ==
  /\ faults < MaxFaults
  /\ \E k \in 1..Len(toHost) : toHost' = Remove(toHost, k)
  /\ faults' = faults + 1
  /\ UNCHANGED <<pc, size, room, disk, stdio, a, i, line, buf, torn>>

\* The second character of an answer has become an LF.
Torn(k) ==
  /\ pc = "code" /\ Len(line) + k = 2
  /\ toHost[k] # "nl" /\ toHost'[k] = "nl"

CorruptChar ==
  /\ faults < MaxFaults
  /\ \E k \in 1..Len(toHost), c \in Char :
       /\ toHost' = [toHost EXCEPT ![k] = c]
       /\ torn' = IF Torn(k) THEN torn \cup {i} ELSE torn
  /\ faults' = faults + 1
  /\ UNCHANGED <<pc, size, room, disk, stdio, a, i, line, buf>>

\* The user kills the program: what stdio has is lost.
Kill ==
  /\ pc \notin {"open", "success", "failure", "killed"}
  /\ pc' = "killed"
  /\ stdio' = <<>>
  /\ UNCHANGED <<size, room, disk, a, i, line, buf, toHost, faults, torn>>

-----------------------------------------------------------------------------
Init ==
  /\ pc = "open"
  /\ size \in Sizes /\ room \in Rooms
  /\ disk = Old /\ stdio = <<>>
  /\ a = 0 /\ i = 0
  /\ line = <<>> /\ buf = <<>> /\ toHost = <<>>
  /\ faults = 0 /\ torn = {}

Host == \/ Open \/ Session \/ Loop \/ GetCode \/ GetData \/ Timeout
        \/ Write \/ Close \/ IoError

Next == Host \/ LoseChar \/ CorruptChar \/ Kill

Spec == Init /\ [][Next]_vars

-----------------------------------------------------------------------------
\* Exit status 0 (main.c:218-247) means that the file has as many bytes as
\* were asked for and, up to the first torn code line, in their places: no
\* more of them differ from the flash than characters were lost or corrupted.
\* No lost character, refused request, late answer, full disk, byte of the
\* data that looks like a code or like the end of a line, and no other
\* corruption of a code (command.c:408-430, transfer.c:45-52) shifts the file
\* or is taken for success.
SuccessMeansCopied ==
  pc = "success" => /\ Len(disk) = size
                    /\ Cardinality(Wrong(disk, torn)) <= faults

\* Once the file has been opened (main.c:147), every end of the program
\* leaves the beginning of the flash in it: bytes out of place are there only
\* from the piece on whose code line was torn (command.c:112).
FileIsPrefix ==
  pc # "open" => Cardinality(Wrong(disk \o stdio, torn)) <= faults
=============================================================================
