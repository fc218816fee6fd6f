-------------------------- MODULE IspUploadProofs ---------------------------
(***************************************************************************)
(* Theorems about IspUpload for every flash contents, sizes of a sector,   *)
(* of a word and of a line, every size asked for, every disk, and any      *)
(* number of lost and corrupted characters.                                *)
(***************************************************************************)
EXTENDS IspUpload, FiniteSetTheorems, SequenceTheorems, TLAPS

Control == {"open", "session", "loop", "code", "data", "write", "close",
            "ioerror", "success", "failure", "killed"}

\* What fwrite() has been given, on the disk or not, and what of the answer
\* to the last R has been read or is on the line.
Content == disk \o stdio
Received == line \o buf \o toHost

\* The file as it will be if the last characters received are the data.
Ahead == [k \in 1 .. i + Chunk |->
            IF k <= i THEN Content[k]
                      ELSE Received[Len(Received) - (i + Chunk - k)]]

TypeOK ==
  /\ pc \in Control /\ size \in Int /\ room \in Nat
  /\ disk \in Seq(Char) /\ stdio \in Seq(Char)
  /\ a \in Nat /\ i \in Nat /\ faults \in Nat
  /\ line \in Seq(Char) /\ buf \in Seq(Char) /\ toHost \in Seq(Char)
  /\ torn \in SUBSET Nat

\* The file has i bytes, and those before the first torn code line are in
\* their places but for the lost and corrupted ones.
FileInStep ==
  /\ pc # "open" => Cardinality(Wrong(Content, torn)) <= faults
  /\ pc \in {"session", "loop", "code", "data", "write", "close"} =>
       /\ Len(Content) = i /\ a = i /\ (i = 0 \/ i <= size)
       /\ \A t \in torn : t <= i
  /\ pc = "close" => i = size
  /\ pc = "open" => i = 0 /\ a = 0 /\ stdio = <<>> /\ torn = {}
  /\ pc = "success" => Len(disk) = size /\ stdio = <<>>

\* The code line ends with the LF at which com_gets has stopped.
HostInStep ==
  /\ pc = "code" => buf = <<>>
  /\ pc \in {"data", "write"} =>
       Len(line) >= 2 /\ line[Len(line)] = "nl" /\ line[1] # "E"
  /\ pc = "data" => Len(buf) < Chunk
  /\ pc = "write" => Len(buf) = Chunk
  /\ pc \in {"code", "data", "write"} => i < size

\* The answers com_gets and com_read could take for a code and its data: all
\* of it, or one character less that was lost before the LF.
Readable ==
  \/ Len(Received) = Chunk + 3
  \/ Len(Received) = Chunk + 2 /\ Received[2] = "nl"

\* The digit of another code has to be corrupted before it is taken for 0.
Allowed == IF Received[1] = "E" THEN faults + 1 ELSE faults

\* As long as no code line was torn, nothing of an earlier answer is left when
\* R is sent, and a readable answer ends with the data: a refused request, or
\* an answer that has lost a byte of the data, is too short for it.
AnswerInStep ==
  torn = {} =>
    /\ pc \in {"open", "session", "loop"} => toHost = <<>>
    /\ pc \in {"code", "data", "write"} =>
         /\ Len(Received) <= Chunk + 3
         /\ Len(Received) = Chunk + 3 => Received[2] # "nl"
         /\ Readable => Cardinality(Wrong(Ahead, {})) <= Allowed

Inductive == FileInStep /\ HostInStep /\ AnswerInStep
IInv == TypeOK /\ Inductive

-----------------------------------------------------------------------------
(* Sequences: moving the head of a queue to the end of what has been read,  *)
(* and the beginning of a sequence.                                         *)

LEMMA ReadOne ==
  ASSUME NEW S, NEW l \in Seq(S), NEW q \in Seq(S), q # <<>>
  PROVE  /\ Append(l, Head(q)) \in Seq(S) /\ Tail(q) \in Seq(S)
         /\ Append(l, Head(q)) \o Tail(q) = l \o q
<1>1. /\ Head(q) \in S /\ Tail(q) \in Seq(S) /\ Len(Tail(q)) = Len(q) - 1
      /\ \A k \in 1 .. Len(Tail(q)) : Tail(q)[k] = q[k+1]
      /\ Head(q) = q[1] /\ Len(q) >= 1
  BY HeadTailProperties
<1> DEFINE r == Append(l, Head(q))
<1>2. /\ r \in Seq(S) /\ Len(r) = Len(l) + 1
      /\ \A k \in 1 .. Len(l) : r[k] = l[k]
      /\ r[Len(l) + 1] = q[1]
  BY <1>1, AppendProperties
<1> HIDE DEF r
<1>3. /\ r \o Tail(q) \in Seq(S) /\ Len(r \o Tail(q)) = Len(r) + Len(Tail(q))
      /\ \A k \in 1 .. Len(r) + Len(Tail(q)) :
           (r \o Tail(q))[k] = IF k <= Len(r) THEN r[k] ELSE Tail(q)[k - Len(r)]
  BY <1>1, <1>2, ConcatProperties
<1>4. /\ l \o q \in Seq(S) /\ Len(l \o q) = Len(l) + Len(q)
      /\ \A k \in 1 .. Len(l) + Len(q) :
           (l \o q)[k] = IF k <= Len(l) THEN l[k] ELSE q[k - Len(l)]
  BY ConcatProperties
<1>5. /\ Len(l) \in Nat /\ Len(q) \in Nat /\ Len(r \o Tail(q)) = Len(l \o q)
  BY <1>1, <1>2, <1>3, <1>4
<1>6. ASSUME NEW k \in 1 .. Len(r \o Tail(q))
      PROVE  (r \o Tail(q))[k] = (l \o q)[k]
  <2>1. CASE k <= Len(l)
    BY <1>1, <1>2, <1>3, <1>4, <1>5, <2>1
  <2>2. CASE k = Len(l) + 1
    BY <1>1, <1>2, <1>3, <1>4, <1>5, <2>2
  <2>3. CASE k > Len(l) + 1
    <3>1. (r \o Tail(q))[k] = Tail(q)[k - Len(r)] /\ k - Len(r) \in 1 .. Len(Tail(q))
      BY <1>1, <1>2, <1>3, <1>5, <2>3
    <3>2. (l \o q)[k] = q[k - Len(l)] /\ k - Len(r) + 1 = k - Len(l)
      BY <1>1, <1>2, <1>4, <1>5, <2>3
    <3>3. QED
      BY <1>1, <3>1, <3>2
  <2>4. QED
    BY <1>5, <2>1, <2>2, <2>3
<1>7. r \o Tail(q) = l \o q
  BY <1>3, <1>4, <1>5, <1>6, SeqEqual
<1>8. QED
  BY <1>1, <1>2, <1>7 DEF r

LEMMA Regroup ==
  \A s, t, u \in Seq(Char) : (s \o t) \o u = s \o (t \o u)
BY ConcatAssociative

\* What is left of an empty queue, or of an empty start.
LEMMA Emptied ==
  ASSUME NEW S, NEW s \in Seq(S)
  PROVE  s \o <<>> = s /\ <<>> \o s = s
BY ConcatEmptySeq

LEMMA Beginning ==
  ASSUME NEW S, NEW s \in Seq(S), NEW k \in Nat
  PROVE  /\ Take(s, k) \in Seq(S)
         /\ Len(Take(s, k)) = IF k < Len(s) THEN k ELSE Len(s)
         /\ \A j \in 1 .. Len(Take(s, k)) : Take(s, k)[j] = s[j]
         /\ Len(s) <= k => Take(s, k) = s
<1> DEFINE n == IF k < Len(s) THEN k ELSE Len(s)
<1>1. n \in Nat /\ n <= Len(s) /\ Len(s) \in Nat
  OBVIOUS
<1>2. \A j \in 1 .. n : s[j] \in S
  BY <1>1
<1>3. Take(s, k) = SubSeq(s, 1, n)
  BY DEF Take
<1> HIDE DEF n
<1>4. /\ SubSeq(s, 1, n) \in Seq(S)
      /\ Len(SubSeq(s, 1, n)) = n
      /\ \A j \in 1 .. n : SubSeq(s, 1, n)[j] = s[j]
  <2>1. /\ SubSeq(s, 1, n) \in Seq(S)
        /\ Len(SubSeq(s, 1, n)) = IF 1 <= n THEN n - 1 + 1 ELSE 0
        /\ \A j \in 1 .. n - 1 + 1 : SubSeq(s, 1, n)[j] = s[1 + j - 1]
    BY <1>1, <1>2, SubSeqProperties, SMT
  <2>2. \A j \in 1 .. n : j \in 1 .. n - 1 + 1 /\ 1 + j - 1 = j
    BY <1>1
  <2>3. QED
    BY <1>1, <2>1, <2>2
<1>5. Len(s) <= k => SubSeq(s, 1, n) = s
  BY <1>1, SubSeqFull DEF n
<1>6. QED
  BY <1>3, <1>4, <1>5 DEF n

-----------------------------------------------------------------------------
(* How many bytes of a file are wrong.                                      *)

LEMMA WrongFinite ==
  ASSUME NEW s \in Seq(Char), NEW T
  PROVE  IsFiniteSet(Wrong(s, T)) /\ Cardinality(Wrong(s, T)) \in Nat
<1>1. IsFiniteSet(1 .. Len(s)) /\ Wrong(s, T) \in SUBSET (1 .. Len(s))
  BY FS_Interval DEF Wrong
<1>2. QED
  BY <1>1, FS_Subset, FS_CardinalityType

LEMMA WrongOfFewer ==
  ASSUME NEW s \in Seq(Char), NEW t \in Seq(Char), NEW T, NEW U,
         Wrong(s, T) \subseteq Wrong(t, U)
  PROVE  Cardinality(Wrong(s, T)) <= Cardinality(Wrong(t, U))
<1>1. IsFiniteSet(Wrong(t, U)) /\ Wrong(s, T) \in SUBSET Wrong(t, U)
  BY WrongFinite
<1>2. QED
  BY <1>1, FS_Subset

\* A beginning of a file has no more wrong bytes than the file.
LEMMA WrongOfBeginning ==
  ASSUME NEW s \in Seq(Char), NEW t \in Seq(Char), NEW T, Len(s) <= Len(t),
         \A k \in 1 .. Len(s) : s[k] = t[k]
  PROVE  /\ Cardinality(Wrong(s, T)) <= Cardinality(Wrong(t, T))
         /\ Cardinality(Wrong(s, T)) \in Nat /\ Cardinality(Wrong(t, T)) \in Nat
<1>1. Wrong(s, T) \subseteq Wrong(t, T)
  BY DEF Wrong
<1>2. QED
  BY <1>1, WrongFinite, WrongOfFewer

\* One byte that differs is at most one more wrong byte.
LEMMA WrongOneMore ==
  ASSUME NEW s \in Seq(Char), NEW t \in Seq(Char), NEW T, NEW j,
         Wrong(t, T) \subseteq Wrong(s, T) \cup {j}
  PROVE  Cardinality(Wrong(t, T)) <= Cardinality(Wrong(s, T)) + 1
<1> DEFINE W == Wrong(s, T)
           X == Wrong(t, T)
<1>1. IsFiniteSet(W) /\ Cardinality(W) \in Nat /\ Cardinality(X) \in Nat
  BY WrongFinite
<1>2. X \in SUBSET (W \cup {j})
  OBVIOUS
<1> HIDE DEF W, X
<1>3. /\ IsFiniteSet(W \cup {j})
      /\ Cardinality(W \cup {j}) = IF j \in W THEN Cardinality(W)
                                              ELSE Cardinality(W) + 1
  BY <1>1, FS_AddElement
<1>4. Cardinality(X) <= Cardinality(W \cup {j})
  BY <1>2, <1>3, FS_Subset
<1>5. Cardinality(X) <= Cardinality(W) + 1
  BY <1>1, <1>3, <1>4
<1>6. QED
  BY <1>5 DEF W, X

LEMMA WrongOfNothing == \A T : Cardinality(Wrong(<<>>, T)) = 0
<1>1. \A T : Wrong(<<>>, T) = {}
  BY DEF Wrong
<1>2. QED
  BY <1>1, FS_EmptySet

-----------------------------------------------------------------------------
(* The file and the answer.                                                 *)

\* com_read never asks for nothing, nor for more than the sector buffer.
LEMMA ChunkRange ==
  ASSUME TypeOK, i < size
  PROVE  Chunk \in Nat /\ 1 <= Chunk /\ Chunk <= BufSize /\ i + Chunk <= size
BY UploadAssumption DEF UploadAssumption, TypeOK, Chunk

\* A refused request is answered by the digits of another code, an accepted
\* one by the code 0 and the bytes of the flash at that address.
LEMMA Answered ==
  ASSUME NEW addr \in Nat, NEW n \in Nat, 1 <= n, NEW s \in Answers(addr, n)
  PROVE  /\ s \in Seq(Char) /\ s[2] # "nl"
         /\ \/ (Len(s) = 3 \/ Len(s) = 4) /\ s[1] = "E"
            \/ /\ Len(s) = n + 3 /\ addr + n <= Len(Flash)
               /\ \A k \in 1 .. n : s[k + 3] = Flash[addr + k]
<1>1. Flash \in Seq(Char) /\ Len(Flash) \in Nat
  BY UploadAssumption DEF UploadAssumption
<1> DEFINE ok == <<"0", "cr", "nl">>
           data == SubSeq(Flash, addr + 1, addr + n)
<1>2. ok \in Seq(Char) /\ Len(ok) = 3 /\ ok[2] = "cr"
  BY DEF Char
<1>3. CASE addr + n <= Len(Flash) /\ n % Word = 0
  <2>1. addr + 1 \in Int /\ addr + n \in Int /\ addr + 1 <= addr + n
    OBVIOUS
  <2>2. \A k \in addr + 1 .. addr + n : Flash[k] \in Char
    BY <1>1, <1>3
  <2>3. /\ data \in Seq(Char)
        /\ Len(data) = (addr + n) - (addr + 1) + 1
        /\ \A k \in 1 .. (addr + n) - (addr + 1) + 1 :
             data[k] = Flash[(addr + 1) + k - 1]
    BY <2>1, <2>2, SubSeqProperties
  <2> HIDE DEF data, ok
  <2>4. /\ Len(data) = n
        /\ \A k \in 1 .. n : data[k] = Flash[addr + k]
    <3>1. (addr + n) - (addr + 1) + 1 = n
      OBVIOUS
    <3>2. ASSUME NEW k \in 1 .. n
          PROVE  (addr + 1) + k - 1 = addr + k
      OBVIOUS
    <3>3. QED
      BY <2>3, <3>1, <3>2
  <2>5. /\ ok \o data \in Seq(Char) /\ Len(ok \o data) = Len(ok) + Len(data)
        /\ \A k \in 1 .. Len(ok) + Len(data) :
             (ok \o data)[k] = IF k <= Len(ok) THEN ok[k] ELSE data[k - Len(ok)]
    BY <1>2, <2>3, ConcatProperties
  <2>6. ASSUME NEW k \in 1 .. n
        PROVE  (ok \o data)[k + 3] = Flash[addr + k]
    <3>1. k + 3 \in 1 .. Len(ok) + Len(data) /\ ~(k + 3 <= Len(ok))
      BY <1>2, <2>4
    <3>2. (ok \o data)[k + 3] = data[(k + 3) - Len(ok)] /\ (k + 3) - Len(ok) = k
      BY <1>2, <2>5, <3>1
    <3>3. QED
      BY <2>4, <3>2
  <2>7. s = ok \o data
    BY <1>3 DEF Answers, ok, data
  <2>8. (ok \o data)[2] = ok[2]
    BY <1>2, <2>4, <2>5
  <2>9. s \in Seq(Char) /\ s[2] # "nl" /\ Len(s) = n + 3
    <3>1. Len(ok) + Len(data) = n + 3
      BY <1>2, <2>4
    <3>2. s[2] = "cr"
      BY <1>2, <2>7, <2>8
    <3>3. QED
      BY <2>5, <2>7, <3>1, <3>2
  <2>10. \A k \in 1 .. n : s[k + 3] = Flash[addr + k]
    BY <2>6, <2>7
  <2>11. QED
    BY <1>3, <2>9, <2>10
<1>4. CASE ~(addr + n <= Len(Flash) /\ n % Word = 0)
  <2>1. s = <<"E", "cr", "nl">> \/ s = <<"E", "E", "cr", "nl">>
    BY <1>4 DEF Answers
  <2>2. CASE s = <<"E", "cr", "nl">>
    BY <2>2 DEF Char
  <2>3. CASE s = <<"E", "E", "cr", "nl">>
    BY <2>3 DEF Char
  <2>4. QED
    BY <2>1, <2>2, <2>3
<1>5. QED
  BY <1>3, <1>4

\* What Content and Received are made of.
PartsOK ==
  /\ Content \in Seq(Char) /\ Received \in Seq(Char)
  /\ Len(Content) = Len(disk) + Len(stdio)
  /\ Len(Received) = Len(line) + Len(buf) + Len(toHost)
  /\ \A k \in 1 .. Len(Received) :
       Received[k] = IF k <= Len(line) THEN line[k]
                     ELSE IF k <= Len(line) + Len(buf) THEN buf[k - Len(line)]
                     ELSE toHost[k - (Len(line) + Len(buf))]

LEMMA Parts == TypeOK => PartsOK
<1> SUFFICES ASSUME TypeOK
             PROVE  PartsOK
  OBVIOUS
<1>1. /\ disk \in Seq(Char) /\ stdio \in Seq(Char) /\ line \in Seq(Char)
      /\ buf \in Seq(Char) /\ toHost \in Seq(Char)
      /\ Len(line) \in Nat /\ Len(buf) \in Nat /\ Len(toHost) \in Nat
      /\ Len(disk) \in Nat /\ Len(stdio) \in Nat
  BY DEF TypeOK
<1>2. Content \in Seq(Char) /\ Len(Content) = Len(disk) + Len(stdio)
  BY <1>1, ConcatProperties DEF Content
<1>3. /\ line \o buf \in Seq(Char) /\ Len(line \o buf) = Len(line) + Len(buf)
      /\ \A k \in 1 .. Len(line) + Len(buf) :
           (line \o buf)[k] = IF k <= Len(line) THEN line[k] ELSE buf[k - Len(line)]
  BY <1>1, ConcatProperties
<1>4. /\ Received \in Seq(Char) /\ Len(Received) = Len(line \o buf) + Len(toHost)
      /\ \A k \in 1 .. Len(line \o buf) + Len(toHost) :
           Received[k] = IF k <= Len(line \o buf) THEN (line \o buf)[k]
                         ELSE toHost[k - Len(line \o buf)]
  BY <1>1, <1>3, ConcatProperties DEF Received
<1>5. ASSUME NEW k \in 1 .. Len(Received)
      PROVE  Received[k] = IF k <= Len(line) THEN line[k]
                           ELSE IF k <= Len(line) + Len(buf) THEN buf[k - Len(line)]
                           ELSE toHost[k - (Len(line) + Len(buf))]
  <2>1. CASE k <= Len(line) + Len(buf)
    BY <1>1, <1>3, <1>4, <2>1
  <2>2. CASE ~(k <= Len(line) + Len(buf))
    BY <1>1, <1>3, <1>4, <2>2
  <2>3. QED
    BY <2>1, <2>2
<1>6. Len(Received) = Len(line) + Len(buf) + Len(toHost)
  BY <1>3, <1>4
<1>7. QED
  BY <1>2, <1>4, <1>5, <1>6 DEF PartsOK

\* A sequence continued with the last c elements of another.
LEMMA Joined ==
  ASSUME NEW S, NEW s \in Seq(S), NEW q \in Seq(S), NEW c \in Nat, NEW m \in Nat,
         m = Len(s), Len(q) >= c,
         NEW f, f = [k \in 1 .. m + c |-> IF k <= m THEN s[k] ELSE q[Len(q) - (m + c - k)]]
  PROVE  /\ f \in Seq(S) /\ Len(f) = m + c
         /\ \A k \in 1 .. m : f[k] = s[k]
         /\ \A k \in m + 1 .. m + c :
              /\ Len(q) - (m + c - k) \in 1 .. Len(q)
              /\ f[k] = q[Len(q) - (m + c - k)]
<1>1. Len(q) \in Nat
  OBVIOUS
<1>2. ASSUME NEW k \in m + 1 .. m + c
      PROVE  /\ Len(q) - (m + c - k) \in 1 .. Len(q) /\ f[k] = q[Len(q) - (m + c - k)]
  <2>1. k \in 1 .. m + c /\ ~(k <= m)
    OBVIOUS
  <2>2. Len(q) - (m + c - k) \in 1 .. Len(q)
    BY <1>1
  <2>3. QED
    BY <2>1, <2>2
<1>3. ASSUME NEW k \in 1 .. m
      PROVE  f[k] = s[k]
  <2>1. k \in 1 .. m + c /\ (k <= m)
    OBVIOUS
  <2>2. QED
    BY <2>1
<1>4. ASSUME NEW k \in 1 .. m + c
      PROVE  f[k] \in S
  <2>1. CASE k <= m
    BY <1>3, <2>1
  <2>2. CASE ~(k <= m)
    <3>1. k \in m + 1 .. m + c
      BY <2>2
    <3>2. QED
      BY <1>2, <3>1
  <2>3. QED
    BY <2>1, <2>2
<1>5. f \in [1 .. m + c -> S]
  BY <1>4
<1>6. f \in Seq(S) /\ Len(f) = m + c
  <2>1. m + c \in Nat
    OBVIOUS
  <2>2. QED
    BY <1>5, <2>1
<1>7. QED
  BY <1>2, <1>3, <1>6

\* An answer with at least a piece's bytes gives a file of a piece more.
AheadOK ==
  i < size /\ Len(Content) = i /\ Len(Received) >= Chunk =>
    /\ Ahead \in Seq(Char) /\ Len(Ahead) = i + Chunk
    /\ \A k \in 1 .. i : Ahead[k] = Content[k]
    /\ \A k \in i + 1 .. i + Chunk :
         /\ Len(Received) - (i + Chunk - k) \in 1 .. Len(Received)
         /\ Ahead[k] = Received[Len(Received) - (i + Chunk - k)]

LEMMA AheadIs == TypeOK => AheadOK
<1> SUFFICES ASSUME TypeOK, i < size, Len(Content) = i, Len(Received) >= Chunk
             PROVE  /\ Ahead \in Seq(Char) /\ Len(Ahead) = i + Chunk
                    /\ \A k \in 1 .. i : Ahead[k] = Content[k]
                    /\ \A k \in i + 1 .. i + Chunk :
                         /\ Len(Received) - (i + Chunk - k) \in 1 .. Len(Received)
                         /\ Ahead[k] = Received[Len(Received) - (i + Chunk - k)]
  BY DEF AheadOK
<1>1. Chunk \in Nat /\ i \in Nat
  BY ChunkRange DEF TypeOK
<1>2. Content \in Seq(Char) /\ Received \in Seq(Char)
  BY Parts DEF PartsOK
<1>3. i = Len(Content)
  OBVIOUS
<1>4. Ahead = [k \in 1 .. i + Chunk |->
                 IF k <= i THEN Content[k]
                           ELSE Received[Len(Received) - (i + Chunk - k)]]
  BY DEF Ahead
<1> HIDE DEF Content, Received, Chunk
<1>5. QED
  BY <1>1, <1>2, <1>3, <1>4, Joined

-----------------------------------------------------------------------------
(* The line: what a fault leaves of what is on it.                          *)

LEMMA Shorter ==
  ASSUME NEW q \in Seq(Char), NEW k \in 1 .. Len(q)
  PROVE  /\ Remove(q, k) \in Seq(Char) /\ Len(Remove(q, k)) = Len(q) - 1
         /\ \A j \in 1 .. Len(q) - 1 :
              Remove(q, k)[j] = IF j < k THEN q[j] ELSE q[j + 1]
<1> DEFINE before == SubSeq(q, 1, k - 1)
           after == SubSeq(q, k + 1, Len(q))
<1>1. /\ before \in Seq(Char) /\ Len(before) = k - 1
      /\ \A j \in 1 .. k - 1 : before[j] = q[j]
  <2>1. 1 \in Int /\ k - 1 \in Int /\ \A j \in 1 .. k - 1 : q[j] \in Char
    OBVIOUS
  <2>2. /\ before \in Seq(Char)
        /\ Len(before) = IF 1 <= k - 1 THEN (k - 1) - 1 + 1 ELSE 0
        /\ \A j \in 1 .. (k - 1) - 1 + 1 : before[j] = q[1 + j - 1]
    BY <2>1, SubSeqProperties
  <2>3. QED
    BY <2>2
<1>2. /\ after \in Seq(Char) /\ Len(after) = Len(q) - k
      /\ \A j \in 1 .. Len(q) - k : after[j] = q[k + j]
  <2>1. k + 1 \in Int /\ Len(q) \in Int /\ \A j \in k + 1 .. Len(q) : q[j] \in Char
    OBVIOUS
  <2>2. /\ after \in Seq(Char)
        /\ Len(after) = IF k + 1 <= Len(q) THEN Len(q) - (k + 1) + 1 ELSE 0
        /\ \A j \in 1 .. Len(q) - (k + 1) + 1 : after[j] = q[(k + 1) + j - 1]
    BY <2>1, SubSeqProperties
  <2>3. ASSUME NEW j \in 1 .. Len(q) - k
        PROVE  j \in 1 .. Len(q) - (k + 1) + 1 /\ (k + 1) + j - 1 = k + j
    OBVIOUS
  <2>4. QED
    BY <2>2, <2>3
<1>3. Remove(q, k) = before \o after
  BY DEF Remove
<1> HIDE DEF before, after
<1>4. /\ before \o after \in Seq(Char)
      /\ Len(before \o after) = Len(before) + Len(after)
      /\ \A j \in 1 .. Len(before) + Len(after) :
           (before \o after)[j] = IF j <= Len(before) THEN before[j]
                                  ELSE after[j - Len(before)]
  BY <1>1, <1>2, ConcatProperties
<1>5. ASSUME NEW j \in 1 .. Len(q) - 1
      PROVE  (before \o after)[j] = IF j < k THEN q[j] ELSE q[j + 1]
  <2>1. k \in Nat /\ Len(q) \in Nat /\ k <= Len(q) /\ j \in 1 .. Len(before) + Len(after)
    BY <1>1, <1>2
  <2>2. CASE j < k
    BY <1>1, <1>4, <2>1, <2>2
  <2>3. CASE ~(j < k)
    <3>1. /\ j - Len(before) \in 1 .. Len(q) - k /\ k + (j - Len(before)) = j + 1
          /\ ~(j <= Len(before))
      BY <1>1, <2>1, <2>3
    <3>2. (before \o after)[j] = q[j + 1]
      BY <1>2, <1>4, <2>1, <3>1
    <3>3. QED
      BY <2>3, <3>2
  <2>4. QED
    BY <2>2, <2>3
<1>6. QED
  BY <1>1, <1>2, <1>3, <1>4, <1>5

-----------------------------------------------------------------------------
(* One step.                                                                *)

LEMMA Types == TypeOK /\ [Next]_vars => TypeOK'
<1> SUFFICES ASSUME TypeOK, [Next]_vars
             PROVE  TypeOK'
  OBVIOUS
<1>1. CASE Open \/ Session \/ Timeout
  <2>1. <<>> \in Seq(Char)
    BY EmptySeq
  <2>2. CASE Open
    BY <2>1, <2>2 DEF Open, TypeOK, Control
  <2>3. CASE Session
    BY <2>3 DEF Session, TypeOK, Control
  <2>4. CASE Timeout
    BY <2>4 DEF Timeout, TypeOK, Control
  <2>5. QED
    BY <1>1, <2>2, <2>3, <2>4
<1>2. CASE Loop
  <2>1. CASE i < size
    <3>1. Chunk \in Nat /\ 1 <= Chunk /\ a \in Nat
      BY <2>1, ChunkRange DEF TypeOK
    <3>2. PICK s \in Answers(a, Chunk) : toHost' = toHost \o s
      BY <1>2, <2>1 DEF Loop
    <3>3. toHost' \in Seq(Char)
      BY <3>1, <3>2, Answered, ConcatProperties DEF TypeOK
    <3>4. QED
      BY <1>2, <2>1, <3>3 DEF Loop, TypeOK, Control
  <2>2. CASE ~(i < size)
    BY <1>2, <2>2 DEF Loop, TypeOK, Control
  <2>3. QED
    BY <2>1, <2>2
<1>3. CASE GetCode
  <2>1. line' \in Seq(Char) /\ toHost' \in Seq(Char)
    BY <1>3, ReadOne DEF GetCode, TypeOK
  <2>2. QED
    BY <1>3, <2>1 DEF GetCode, TypeOK, Control
<1>4. CASE GetData
  <2>1. buf' \in Seq(Char) /\ toHost' \in Seq(Char)
    BY <1>4, ReadOne DEF GetData, TypeOK
  <2>2. QED
    BY <1>4, <2>1 DEF GetData, TypeOK, Control
<1>5. CASE Write
  <2>1. Len(buf) \in Nat /\ stdio \o buf \in Seq(Char) /\ disk \o stdio \o buf \in Seq(Char)
    BY ConcatProperties DEF TypeOK
  <2>2. Take(disk \o stdio \o buf, room) \in Seq(Char)
    BY <2>1, Beginning DEF TypeOK
  <2>3. <<>> \in Seq(Char)
    BY EmptySeq
  <2>4. /\ disk' \in Seq(Char) /\ stdio' \in Seq(Char)
        /\ pc' \in {"loop", "ioerror"}
        /\ \/ a' = a /\ i' = i
           \/ a' = a + Len(buf) /\ i' = i + Len(buf)
        /\ UNCHANGED <<size, room, line, buf, toHost, faults, torn>>
    <3>1. disk \in Seq(Char)
      BY DEF TypeOK
    <3>2. QED
      BY <1>5, <2>1, <2>2, <2>3, <3>1 DEF Write
  <2>5. QED
    BY <2>1, <2>4 DEF TypeOK, Control
<1>6. CASE Close \/ IoError
  <2>1. disk \o stdio \in Seq(Char)
    BY ConcatProperties DEF TypeOK
  <2>2. Take(disk \o stdio, room) \in Seq(Char)
    BY <2>1, Beginning DEF TypeOK
  <2>3. <<>> \in Seq(Char)
    BY EmptySeq
  <2>4. /\ disk' \in Seq(Char) /\ stdio' \in Seq(Char)
        /\ pc' \in {"success", "failure"}
        /\ UNCHANGED <<size, room, a, i, line, buf, toHost, faults, torn>>
    BY <1>6, <2>2, <2>3 DEF Close, IoError, Flush
  <2>5. QED
    BY <2>4 DEF TypeOK, Control
<1>7. CASE LoseChar
  <2>1. toHost' \in Seq(Char)
    BY <1>7, Shorter DEF LoseChar, TypeOK
  <2>2. QED
    BY <1>7, <2>1 DEF LoseChar, TypeOK
<1>8. CASE CorruptChar
  <2>1. toHost' \in Seq(Char)
    BY <1>8, ExceptSeq DEF CorruptChar, TypeOK
  <2>2. torn' \in SUBSET Nat
    BY <1>8 DEF CorruptChar, TypeOK
  <2>3. QED
    BY <1>8, <2>1, <2>2 DEF CorruptChar, TypeOK
<1>9. CASE Kill
  BY <1>9 DEF Kill, TypeOK, Control
<1>10. CASE UNCHANGED vars
  BY <1>10 DEF vars, TypeOK
<1>11. QED
  BY <1>1, <1>2, <1>3, <1>4, <1>5, <1>6, <1>7, <1>8, <1>9, <1>10 DEF Next, Host


\* A step that leaves the file, its length and the piece alone, or stops.
LEMMA NothingWritten ==
  ASSUME disk' = disk, stdio' = stdio, UNCHANGED <<size, a, i, faults>>
  PROVE  Content' = Content /\ Chunk' = Chunk
BY DEF Content, Chunk

LEMMA OpenStep == IInv /\ Open => Inductive'
<1> SUFFICES ASSUME IInv, Open
             PROVE  Inductive'
  OBVIOUS
<1>1. /\ pc' = "session" /\ i' = 0 /\ a' = 0 /\ toHost' = <<>>
      /\ disk' = <<>> /\ stdio' = <<>> /\ faults' \in Nat /\ torn' = {}
  BY DEF Open, IInv, Inductive, FileInStep, AnswerInStep, TypeOK
<1>2. Content' = <<>>
  BY <1>1, EmptySeq, Emptied DEF Content
<1>3. Cardinality(Wrong(Content', torn')) = 0 /\ Len(Content') = 0
  BY <1>2, WrongOfNothing, EmptySeq
<1>4. QED
  BY <1>1, <1>3 DEF Inductive, FileInStep, HostInStep, AnswerInStep

LEMMA SessionStep == IInv /\ Session => Inductive'
<1> SUFFICES ASSUME IInv, Session
             PROVE  Inductive'
  OBVIOUS
<1>1. /\ Content' = Content /\ pc = "session" /\ pc' \in {"loop", "ioerror"}
      /\ UNCHANGED <<size, disk, stdio, a, i, toHost, faults, torn>>
  BY DEF Session, Content
<1>2. QED
  BY <1>1 DEF IInv, Inductive, FileInStep, HostInStep, AnswerInStep

LEMMA TimeoutStep == IInv /\ Timeout => Inductive'
<1> SUFFICES ASSUME IInv, Timeout
             PROVE  Inductive'
  OBVIOUS
<1>1. /\ Content' = Content /\ pc \in {"code", "data"} /\ pc' = "ioerror"
      /\ UNCHANGED <<size, disk, stdio, a, i, toHost, faults, torn>>
  BY DEF Timeout, Content
<1>2. QED
  BY <1>1 DEF IInv, Inductive, FileInStep, HostInStep, AnswerInStep

\* The answer to R, when nothing of an earlier one is on the line.
LEMMA FreshAnswer ==
  ASSUME IInv, TypeOK', Loop, torn = {}, i < size
  PROVE  /\ Len(Received') <= Chunk' + 3 /\ Received'[2] # "nl"
         /\ Readable' => Cardinality(Wrong(Ahead', {})) <= Allowed'
<1>1. /\ pc = "loop" /\ Len(Content) = i /\ a = i /\ toHost = <<>>
      /\ i \in Nat /\ faults \in Nat /\ Cardinality(Wrong(Content, {})) <= faults
  BY DEF Loop, IInv, Inductive, FileInStep, AnswerInStep, TypeOK
<1>2. /\ Content' = Content /\ Chunk' = Chunk
      /\ UNCHANGED <<size, a, i, faults>>
      /\ line' = <<>> /\ buf' = <<>>
  BY NothingWritten DEF Loop
<1>3. Chunk \in Nat /\ 1 <= Chunk
  BY ChunkRange DEF IInv
<1>4. PICK s \in Answers(a, Chunk) : toHost' = <<>> \o s
  BY <1>1 DEF Loop
<1>5. /\ s \in Seq(Char) /\ s[2] # "nl"
      /\ \/ (Len(s) = 3 \/ Len(s) = 4) /\ s[1] = "E"
         \/ /\ Len(s) = Chunk + 3 /\ i + Chunk <= Len(Flash)
            /\ \A k \in 1 .. Chunk : s[k + 3] = Flash[i + k]
  BY <1>1, <1>3, Answered
<1>6. Received' = s
  <2>1. <<>> \in Seq(Char) /\ <<>> \o <<>> = <<>>
    BY EmptySeq, Emptied
  <2>2. QED
    BY <1>2, <1>4, <1>5, <2>1, Emptied DEF Received
<1>7. Len(s) \in Nat /\ Len(s) <= Chunk + 3
  <2> DEFINE l == Len(s)
             c == Chunk
  <2>1. CASE l = 3 \/ l = 4
    <3>1. c \in Nat /\ 1 <= c
      BY <1>3
    <3> HIDE DEF l, c
    <3>2. l \in Nat /\ l <= c + 3
      BY <2>1, <3>1
    <3>3. QED
      BY <3>2 DEF l, c
  <2>2. CASE Len(s) = Chunk + 3
    BY <1>3, <2>2
  <2>3. (Len(s) = 3 \/ Len(s) = 4) \/ Len(s) = Chunk + 3
    BY <1>5
  <2>4. QED
    BY <2>1, <2>2, <2>3
<1>8. ASSUME Readable'
      PROVE  Cardinality(Wrong(Ahead', {})) <= Allowed'
  <2>1. Len(s) = Chunk + 3
    BY <1>2, <1>5, <1>6, <1>8 DEF Readable
  <2>2. Content' \in Seq(Char)
    <3>1. PartsOK'
      BY Parts, PTL
    <3>2. QED
      BY <3>1 DEF PartsOK
  <2>3. /\ Ahead' \in Seq(Char) /\ Len(Ahead') = i + Chunk
        /\ \A k \in 1 .. i : Ahead'[k] = Content[k]
        /\ \A k \in i + 1 .. i + Chunk :
              Ahead'[k] = s[Len(s) - (i + Chunk - k)]
    <3>1. i' < size' /\ Len(Content') = i' /\ Len(Received') >= Chunk'
      BY <1>1, <1>2, <1>3, <1>6, <2>1
    <3>2. AheadOK'
      BY AheadIs, PTL
    <3>3. QED
      BY <1>2, <1>6, <3>1, <3>2 DEF AheadOK
  <2>4. Cardinality(Wrong(Content, {})) \in Nat /\ Cardinality(Wrong(Ahead', {})) \in Nat
    BY <1>2, <2>2, <2>3, WrongFinite
  <2>5. CASE (Len(s) = 3 \/ Len(s) = 4) /\ s[1] = "E"
    <3>1. Chunk = 1
      BY <1>3, <2>1, <2>5
    <3>2. \A k \in Wrong(Ahead', {}) : k \in Wrong(Content, {}) \/ k = i + 1
      <4> SUFFICES ASSUME NEW k \in Wrong(Ahead', {}), k # i + 1
                   PROVE  k \in Wrong(Content, {})
        OBVIOUS
      <4>1. k \in 1 .. i + 1 /\ (k > Len(Flash) \/ Ahead'[k] # Flash[k])
        BY <2>3, <3>1 DEF Wrong
      <4>2. k \in 1 .. i /\ Ahead'[k] = Content[k]
        BY <1>1, <2>3, <4>1
      <4>3. QED
        BY <1>1, <4>1, <4>2 DEF Wrong
    <3>3. Wrong(Ahead', {}) \subseteq Wrong(Content, {}) \cup {i + 1}
      BY <3>2
    <3>4. Content \in Seq(Char)
      BY <1>2, <2>2
    <3>5. Cardinality(Wrong(Ahead', {})) <= Cardinality(Wrong(Content, {})) + 1
      BY <2>3, <3>3, <3>4, WrongOneMore
    <3>6. Allowed' = faults + 1
      BY <1>2, <1>6, <2>5 DEF Allowed
    <3>7. QED
      BY <1>1, <2>4, <3>5, <3>6
  <2>6. CASE /\ i + Chunk <= Len(Flash)
             /\ \A k \in 1 .. Chunk : s[k + 3] = Flash[i + k]
    <3>1. ASSUME NEW k \in Wrong(Ahead', {})
          PROVE  k \in Wrong(Content, {})
      <4>1. k \in 1 .. i + Chunk /\ (k > Len(Flash) \/ Ahead'[k] # Flash[k])
        BY <2>3 DEF Wrong
      <4>2. Len(Flash) \in Nat
        BY UploadAssumption DEF UploadAssumption
      <4>3. CASE k <= i
        BY <1>1, <2>3, <4>1, <4>3 DEF Wrong
      <4>4. CASE ~(k <= i)
        <5>1. /\ k - i \in 1 .. Chunk /\ i + (k - i) = k
              /\ Len(s) - (i + Chunk - k) = (k - i) + 3
              /\ k \in i + 1 .. i + Chunk
          BY <1>1, <1>3, <2>1, <4>1, <4>4
        <5>2. Ahead'[k] = Flash[k]
          BY <2>3, <2>6, <5>1
        <5>3. QED
          BY <1>1, <1>3, <2>6, <4>1, <4>2, <5>2
      <4>5. QED
        BY <4>3, <4>4
    <3>2. Wrong(Ahead', {}) \subseteq Wrong(Content, {})
      BY <3>1
    <3>3. Content \in Seq(Char)
      BY <1>2, <2>2
    <3>4. Cardinality(Wrong(Ahead', {})) <= Cardinality(Wrong(Content, {}))
      BY <2>3, <3>2, <3>3, WrongOfFewer
    <3>5. Allowed' \in {faults, faults + 1}
      BY <1>2 DEF Allowed
    <3>6. QED
      BY <1>1, <2>4, <3>4, <3>5
  <2>7. QED
    BY <1>5, <2>5, <2>6
<1>9. QED
  BY <1>2, <1>5, <1>6, <1>7, <1>8

LEMMA LoopStep == IInv /\ TypeOK' /\ Loop => Inductive'
<1> SUFFICES ASSUME IInv, TypeOK', Loop
             PROVE  Inductive'
  OBVIOUS
<1>1. /\ Len(Content) = i /\ a = i /\ (i = 0 \/ i <= size) /\ \A t \in torn : t <= i
      /\ i \in Nat /\ size \in Int /\ Cardinality(Wrong(Content, torn)) <= faults
  BY DEF Loop, IInv, Inductive, FileInStep, TypeOK
<1>2. /\ Content' = Content /\ Chunk' = Chunk
      /\ UNCHANGED <<size, a, i, faults, torn>>
      /\ line' = <<>> /\ buf' = <<>>
  BY NothingWritten DEF Loop
<1>3. CASE i < size
  <2>1. pc' = "code"
    BY <1>3 DEF Loop
  <2>2. FileInStep' /\ HostInStep'
    BY <1>1, <1>2, <1>3, <2>1 DEF FileInStep, HostInStep
  <2>3. AnswerInStep'
    <3>1. CASE torn = {}
      BY <1>2, <1>3, <2>1, <3>1, FreshAnswer DEF AnswerInStep
    <3>2. CASE torn # {}
      BY <1>2, <3>2 DEF AnswerInStep
    <3>3. QED
      BY <3>1, <3>2
  <2>4. QED
    BY <2>2, <2>3 DEF Inductive
<1>4. CASE ~(i < size)
  <2>1. pc' = "ioerror" \/ (pc' = "close" /\ size >= 0)
    BY <1>1, <1>4 DEF Loop
  <2>2. QED
    BY <1>1, <1>2, <1>4, <2>1 DEF Inductive, FileInStep, HostInStep, AnswerInStep
<1>5. QED
  BY <1>3, <1>4

\* Reading a character moves it, the answer is the same.
LEMMA GetCodeStep == IInv /\ GetCode => Inductive'
<1> SUFFICES ASSUME IInv, GetCode
             PROVE  Inductive'
  OBVIOUS
<1>1. /\ pc = "code" /\ toHost # <<>> /\ buf = <<>> /\ i < size
      /\ line \in Seq(Char) /\ toHost \in Seq(Char)
  BY DEF GetCode, IInv, TypeOK, Inductive, HostInStep
<1>2. /\ pc' \in {"code", "data", "ioerror"}
      /\ pc' = "data" => IsZero(line) /\ Head(toHost) = "nl"
  <2>1. CASE Head(toHost) = "nl" /\ IsZero(line)
    BY <2>1 DEF GetCode
  <2>2. CASE Head(toHost) # "nl" /\ Len(line) + 1 < LineLimit
    BY <2>2 DEF GetCode
  <2>3. CASE ~(Head(toHost) = "nl" /\ IsZero(line)) /\ ~(Head(toHost) # "nl" /\ Len(line) + 1 < LineLimit)
    <3>1. pc' = "ioerror"
      BY <2>3 DEF GetCode
    <3>2. QED
      BY <3>1
  <2>4. QED
    BY <2>1, <2>2, <2>3
<1>3. /\ line' = Append(line, Head(toHost)) /\ toHost' = Tail(toHost) /\ buf' = <<>>
      /\ UNCHANGED <<size, disk, stdio, a, i, faults, torn>>
  BY <1>1 DEF GetCode
<1>4. Received' = Received
  <2>1. /\ line' \in Seq(Char) /\ line' \o toHost' = line \o toHost
    BY <1>1, <1>3, ReadOne
  <2>2. line' \o buf' = line' /\ line \o buf = line
    BY <1>1, <1>3, <2>1, Emptied
  <2>3. QED
    BY <2>1, <2>2 DEF Received
<1>5. /\ Content' = Content /\ Chunk' = Chunk /\ Ahead' = Ahead
      /\ Readable' <=> Readable
      /\ Allowed' = Allowed
  <2>1. Content' = Content /\ Chunk' = Chunk
    BY <1>3, NothingWritten
  <2>2. QED
    BY <1>3, <1>4, <2>1 DEF Ahead, Readable, Allowed
<1>6. ASSUME pc' = "data"
      PROVE  /\ Len(line') >= 2 /\ line'[Len(line')] = "nl" /\ line'[1] # "E"
             /\ Len(buf') < Chunk
  <2>1. IsZero(line) /\ Head(toHost) = "nl"
    BY <1>2, <1>6
  <2>2. Len(line) >= 1 /\ line[1] # "E"
    <3>1. PICK s \in 0 .. Len(line), e \in 1 .. Len(line) :
            /\ s < e
            /\ \A j \in 1 .. s : line[j] = "cr" \/ (j = s /\ line[j] = "-")
            /\ \A j \in s + 1 .. e : line[j] = "0"
      BY <2>1 DEF IsZero
    <3>2. CASE s = 0
      <4>1. line[1] = "0"
        BY <1>1, <3>1, <3>2
      <4>2. QED
        BY <1>1, <3>1, <4>1
    <3>3. CASE s # 0
      <4>1. line[1] = "cr" \/ line[1] = "-"
        BY <1>1, <3>1, <3>3
      <4>2. QED
        BY <1>1, <3>1, <4>1
    <3>4. QED
      BY <3>2, <3>3
  <2>3. Head(toHost) \in Char
    BY <1>1, HeadTailProperties
  <2>4. /\ Len(line') = Len(line) + 1 /\ line'[Len(line) + 1] = "nl"
        /\ \A k \in 1 .. Len(line) : line'[k] = line[k]
    BY <1>1, <1>3, <2>1, <2>3, AppendProperties
  <2>5. Len(line) \in Nat
    BY <1>1
  <2>6. Len(buf') < Chunk
    BY <1>1, <1>3, ChunkRange, EmptySeq DEF IInv
  <2>7. QED
    BY <2>2, <2>4, <2>5, <2>6
<1>7. FileInStep'
  BY <1>1, <1>2, <1>3, <1>5 DEF IInv, Inductive, FileInStep
<1>8. HostInStep'
  BY <1>1, <1>2, <1>3, <1>5, <1>6 DEF HostInStep
<1>9. AnswerInStep'
  BY <1>1, <1>2, <1>3, <1>4, <1>5 DEF IInv, Inductive, AnswerInStep
<1>10. QED
  BY <1>7, <1>8, <1>9 DEF Inductive

LEMMA GetDataStep == IInv /\ GetData => Inductive'
<1> SUFFICES ASSUME IInv, GetData
             PROVE  Inductive'
  OBVIOUS
<1>1. /\ pc = "data" /\ toHost # <<>> /\ Len(buf) < Chunk /\ i < size
      /\ line \in Seq(Char) /\ buf \in Seq(Char) /\ toHost \in Seq(Char)
      /\ Chunk \in Nat
  BY ChunkRange DEF GetData, IInv, TypeOK, Inductive, HostInStep
<1>2. /\ buf' = Append(buf, Head(toHost)) /\ toHost' = Tail(toHost)
      /\ pc' = IF Len(buf) + 1 = Chunk THEN "write" ELSE "data"
      /\ UNCHANGED <<size, disk, stdio, a, i, line, faults, torn>>
  BY DEF GetData
<1>3. Received' = Received
  <2>1. /\ buf' \in Seq(Char) /\ toHost' \in Seq(Char)
        /\ buf' \o toHost' = buf \o toHost
    BY <1>1, <1>2, ReadOne
  <2>2. (line \o buf') \o toHost' = line \o (buf' \o toHost')
    BY <1>1, <2>1, Regroup, Zenon
  <2>3. (line \o buf) \o toHost = line \o (buf \o toHost)
    BY <1>1, Regroup, Zenon
  <2>4. QED
    BY <1>2, <2>1, <2>2, <2>3 DEF Received
<1>4. /\ Content' = Content /\ Chunk' = Chunk /\ Ahead' = Ahead
      /\ Readable' <=> Readable
      /\ Allowed' = Allowed
  <2>1. Content' = Content /\ Chunk' = Chunk
    BY <1>2, NothingWritten
  <2>2. QED
    BY <1>2, <1>3, <2>1 DEF Ahead, Readable, Allowed
<1>5. Len(buf') = Len(buf) + 1 /\ Len(buf) \in Nat
  <2>1. Head(toHost) \in Char
    BY <1>1, HeadTailProperties
  <2>2. QED
    BY <1>1, <1>2, <2>1, AppendProperties
<1>6. FileInStep'
  BY <1>1, <1>2, <1>4 DEF IInv, Inductive, FileInStep
<1>7. /\ pc' \in {"data", "write"}
      /\ pc' = "data" => Len(buf') < Chunk
      /\ pc' = "write" => Len(buf') = Chunk
  BY <1>1, <1>2, <1>5
<1>8. HostInStep'
  BY <1>1, <1>2, <1>4, <1>7 DEF IInv, Inductive, HostInStep
<1>9. AnswerInStep'
  BY <1>1, <1>2, <1>3, <1>4, <1>7 DEF IInv, Inductive, AnswerInStep
<1>10. QED
  BY <1>6, <1>8, <1>9 DEF Inductive

\* What fwrite() is given is what was ahead: all of the answer's data.
LEMMA AllWasAhead ==
  ASSUME IInv, pc = "write", torn = {}
  PROVE  Cardinality(Wrong(Content \o buf, {})) <= faults
<1> DEFINE all == Content \o buf
<1>1. /\ Len(line) >= 2 /\ line[Len(line)] = "nl" /\ line[1] # "E"
      /\ Len(buf) = Chunk /\ i < size /\ Len(Content) = i
      /\ Len(Received) <= Chunk + 3
      /\ Len(Received) = Chunk + 3 => Received[2] # "nl"
      /\ Readable => Cardinality(Wrong(Ahead, {})) <= Allowed
  BY DEF IInv, Inductive, FileInStep, HostInStep, AnswerInStep
<1>2. /\ buf \in Seq(Char) /\ Len(line) \in Nat /\ Len(toHost) \in Nat
      /\ i \in Nat /\ faults \in Nat /\ Chunk \in Nat
  BY <1>1, ChunkRange DEF IInv, TypeOK
<1>3. /\ Content \in Seq(Char) /\ Received \in Seq(Char)
      /\ Len(Received) = Len(line) + Len(buf) + Len(toHost)
      /\ \A k \in 1 .. Len(Received) :
           Received[k] = IF k <= Len(line) THEN line[k]
                         ELSE IF k <= Len(line) + Len(buf) THEN buf[k - Len(line)]
                         ELSE toHost[k - (Len(line) + Len(buf))]
  BY Parts DEF IInv, PartsOK
<1>4. Len(Received) = Len(line) + Chunk /\ Readable
  <2>1. CASE Len(line) = 2
    <3>1. Received[2] = "nl"
      BY <1>1, <1>2, <1>3, <2>1
    <3>2. Len(Received) = Chunk + 2
      BY <1>1, <1>2, <1>3, <2>1, <3>1
    <3>3. QED
      BY <2>1, <1>2, <3>1, <3>2 DEF Readable
  <2>2. CASE Len(line) # 2
    <3>1. \A x, c, y \in Nat :
            x >= 2 /\ x # 2 /\ x + c + y <= c + 3 => x = 3 /\ x + c + y = c + 3
      OBVIOUS
    <3>2. Len(line) + Chunk + Len(toHost) <= Chunk + 3
      BY <1>1, <1>3
    <3>3. Len(Received) = Len(line) + Chunk + Len(toHost)
      BY <1>1, <1>3
    <3>4. Len(Received) = Chunk + 3 /\ Len(line) = 3
      <4>1. Len(line) >= 2
        BY <1>1
      <4>2. Len(line) = 3 /\ Len(line) + Chunk + Len(toHost) = Chunk + 3
        BY <1>2, <2>2, <3>1, <3>2, <4>1, Zenon
      <4>3. QED
        BY <3>3, <4>2
    <3>5. QED
      BY <1>2, <3>4 DEF Readable
  <2>3. QED
    BY <2>1, <2>2
<1>5. Cardinality(Wrong(Ahead, {})) <= faults
  <2>1. Received[1] = line[1]
    BY <1>1, <1>2, <1>3, <1>4
  <2>2. QED
    BY <1>1, <1>4, <2>1 DEF Allowed
<1>6. /\ Ahead \in Seq(Char) /\ Len(Ahead) = i + Chunk
      /\ \A k \in 1 .. i : Ahead[k] = Content[k]
      /\ \A k \in i + 1 .. i + Chunk :
           /\ Len(Received) - (i + Chunk - k) \in 1 .. Len(Received)
           /\ Ahead[k] = Received[Len(Received) - (i + Chunk - k)]
  <2>1. AheadOK
    BY AheadIs DEF IInv
  <2>2. Len(Received) >= Chunk
    BY <1>2, <1>4
  <2>3. QED
    BY <1>1, <2>1, <2>2 DEF AheadOK
<1>7. /\ all \in Seq(Char) /\ Len(all) = i + Chunk
      /\ \A k \in 1 .. i + Chunk :
           all[k] = IF k <= i THEN Content[k] ELSE buf[k - i]
  BY <1>1, <1>2, <1>3, ConcatProperties
<1>8. ASSUME NEW k \in 1 .. i + Chunk
      PROVE  all[k] = Ahead[k]
  <2>1. CASE k <= i
    BY <1>2, <1>6, <1>7, <2>1
  <2>2. CASE ~(k <= i)
    <3>1. /\ k \in i + 1 .. i + Chunk
          /\ Len(Received) - (i + Chunk - k) = Len(line) + (k - i)
          /\ k - i \in 1 .. Len(buf)
      BY <1>1, <1>2, <1>4, <2>2
    <3>2. Ahead[k] = buf[(Len(line) + (k - i)) - Len(line)]
      <4> DEFINE j == Len(line) + (k - i)
      <4>1. Ahead[k] = Received[j] /\ j \in 1 .. Len(Received)
        BY <1>6, <3>1
      <4>2. ~(j <= Len(line)) /\ j <= Len(line) + Len(buf)
        BY <1>1, <1>2, <3>1
      <4> HIDE DEF j
      <4>3. Received[j] = buf[j - Len(line)]
        BY <1>3, <4>1, <4>2
      <4>4. QED
        BY <4>1, <4>3 DEF j
    <3>3. all[k] = buf[k - i] /\ (Len(line) + (k - i)) - Len(line) = k - i
      BY <1>2, <1>7, <2>2
    <3>4. QED
      BY <3>2, <3>3
  <2>3. QED
    BY <2>1, <2>2
<1> HIDE DEF all
<1>9. all = Ahead
  BY <1>6, <1>7, <1>8, SeqEqual
<1>10. QED
  BY <1>5, <1>9 DEF all

LEMMA WriteStep == IInv /\ TypeOK' /\ Write => Inductive'
<1> SUFFICES ASSUME IInv, TypeOK', Write
             PROVE  Inductive'
  OBVIOUS
<1> DEFINE all == disk \o stdio \o buf
<1>1. /\ pc = "write" /\ Len(buf) = Chunk /\ i < size
      /\ Len(Content) = i /\ a = i /\ \A t \in torn : t <= i
      /\ Cardinality(Wrong(Content, torn)) <= faults
      /\ torn = {} => toHost' = toHost
  BY DEF Write, IInv, Inductive, FileInStep, HostInStep
<1>2. /\ disk \in Seq(Char) /\ stdio \in Seq(Char) /\ buf \in Seq(Char)
      /\ line \in Seq(Char) /\ toHost \in Seq(Char)
      /\ room \in Nat /\ i \in Nat /\ size \in Int /\ faults \in Nat
      /\ torn \in SUBSET Nat
      /\ Chunk \in Nat /\ i + Chunk <= size
  <2>1. TypeOK
    BY DEF IInv
  <2>2. Chunk \in Nat /\ i + Chunk <= size
    BY <1>1, <2>1, ChunkRange
  <2>3. QED
    BY <2>1, <2>2 DEF TypeOK
<1>3. /\ Content \in Seq(Char) /\ all = Content \o buf
      /\ all \in Seq(Char) /\ Len(all) = i + Chunk
      /\ \A k \in 1 .. i + Chunk :
           all[k] = IF k <= i THEN Content[k] ELSE buf[k - i]
  <2>1. Content \in Seq(Char) /\ all = Content \o buf
    BY Parts DEF IInv, PartsOK, Content
  <2> HIDE DEF all
  <2>2. /\ Content \o buf \in Seq(Char) /\ Len(Content \o buf) = Len(Content) + Len(buf)
        /\ \A k \in 1 .. Len(Content) + Len(buf) :
             (Content \o buf)[k] = IF k <= Len(Content) THEN Content[k]
                                   ELSE buf[k - Len(Content)]
    BY <1>2, <2>1, ConcatProperties
  <2>3. QED
    BY <1>1, <2>1, <2>2
<1>4. Cardinality(Wrong(all, torn)) <= faults
  <2> HIDE DEF all
  <2>1. CASE torn = {}
    BY <1>1, <1>3, <2>1, AllWasAhead
  <2>2. CASE torn # {}
    <3>1. PICK t \in torn : TRUE
      BY <2>2
    <3>2. ASSUME NEW k \in Wrong(all, torn)
          PROVE  k \in Wrong(Content, torn)
      <4>1. /\ k \in 1 .. i + Chunk /\ \A u \in torn : k <= u
            /\ k > Len(Flash) \/ all[k] # Flash[k]
        BY <1>3 DEF Wrong
      <4>2. k <= t /\ t <= i /\ t \in Nat
        BY <1>1, <1>2, <3>1, <4>1
      <4>3. k \in 1 .. i
        BY <1>2, <4>1, <4>2
      <4>4. QED
        BY <1>1, <1>2, <1>3, <4>1, <4>3 DEF Wrong
    <3>3. Wrong(all, torn) \subseteq Wrong(Content, torn)
      BY <3>2
    <3>4. Cardinality(Wrong(all, torn)) <= Cardinality(Wrong(Content, torn))
      BY <1>3, <3>3, WrongOfFewer
    <3>5. /\ Cardinality(Wrong(all, torn)) \in Nat
          /\ Cardinality(Wrong(Content, torn)) \in Nat
      BY <1>3, WrongFinite
    <3>6. QED
      BY <1>1, <1>2, <3>4, <3>5
  <2>3. QED
    BY <2>1, <2>2
<1>5. UNCHANGED <<size, toHost, faults, torn>> /\ pc' \in {"loop", "ioerror"}
  BY DEF Write
<1>6. torn = {} => toHost = <<>>
  <2> SUFFICES ASSUME torn = {}
               PROVE  toHost = <<>>
    OBVIOUS
  <2>1. /\ Len(Received) <= Chunk + 3
        /\ Len(Received) = Chunk + 3 => Received[2] # "nl"
        /\ Len(line) >= 2 /\ line[Len(line)] = "nl"
    BY <1>1 DEF IInv, Inductive, HostInStep, AnswerInStep
  <2>2. /\ Len(Received) = Len(line) + Len(buf) + Len(toHost)
        /\ Len(line) >= 2 => Received[2] = line[2]
    <3>1. /\ Len(Received) = Len(line) + Len(buf) + Len(toHost)
          /\ \A k \in 1 .. Len(Received) :
              Received[k] = IF k <= Len(line) THEN line[k]
                            ELSE IF k <= Len(line) + Len(buf) THEN buf[k - Len(line)]
                            ELSE toHost[k - (Len(line) + Len(buf))]
      BY Parts DEF IInv, PartsOK
    <3>2. Len(line) \in Nat /\ Len(buf) \in Nat /\ Len(toHost) \in Nat
      BY <1>2
    <3>3. QED
      BY <3>1, <3>2
  <2>3. Len(line) \in Nat /\ Len(toHost) \in Nat
    BY <1>2
  <2>4. Len(toHost) = 0
    <3>1. CASE Len(line) = 2
      BY <1>1, <1>2, <2>1, <2>2, <2>3, <3>1
    <3>2. CASE Len(line) # 2
      BY <1>1, <1>2, <2>1, <2>2, <2>3, <3>2
    <3>3. QED
      BY <3>1, <3>2
  <2>5. QED
    BY <1>2, <2>4, EmptySeq
<1>7. AnswerInStep'
  BY <1>5, <1>6 DEF AnswerInStep
<1>8. HostInStep'
  BY <1>5 DEF HostInStep
<1>9. ASSUME Content' = all, a' = a + Len(buf), i' = i + Len(buf), pc' = "loop"
      PROVE  FileInStep'
  <2> HIDE DEF all
  <2>1. Len(Content') = i' /\ a' = i' /\ i' <= size' /\ \A t \in torn : t <= i'
    BY <1>1, <1>2, <1>3, <1>5, <1>9
  <2>2. Cardinality(Wrong(Content', torn')) <= faults'
    BY <1>4, <1>5, <1>9
  <2>3. QED
    BY <1>5, <1>9, <2>1, <2>2 DEF FileInStep
<1>10. CASE /\ stdio' = stdio \o buf /\ UNCHANGED disk
            /\ a' = a + Len(buf) /\ i' = i + Len(buf) /\ pc' = "loop"
  <2>1. (disk \o stdio) \o buf = disk \o (stdio \o buf)
    BY <1>2, Regroup, ZenonT(30)
  <2>2. Content' = all
    BY <1>10, <2>1 DEF Content
  <2>3. QED
    BY <1>7, <1>8, <1>9, <1>10, <2>2 DEF Inductive
<1>11. CASE /\ disk' = Take(all, room) /\ stdio' = <<>>
            /\ Len(all) <= room
            /\ a' = a + Len(buf) /\ i' = i + Len(buf) /\ pc' = "loop"
  <2> HIDE DEF all
  <2>1. all \in Seq(Char) /\ room \in Nat
    BY <1>2, <1>3
  <2>2. disk' = all
    BY <1>11, <2>1, Beginning
  <2>3. Content' = all
    BY <1>11, <2>1, <2>2, Emptied DEF Content
  <2>4. QED
    BY <1>7, <1>8, <1>9, <1>11, <2>3 DEF Inductive
<1>12. CASE /\ disk' = Take(all, room) /\ stdio' = <<>>
            /\ UNCHANGED <<a, i>> /\ pc' = "ioerror"
  <2> HIDE DEF all
  <2>1. all \in Seq(Char) /\ room \in Nat
    BY <1>2, <1>3
  <2> DEFINE kept == Take(all, room)
  <2>2. /\ kept \in Seq(Char) /\ Len(kept) <= Len(all)
        /\ \A k \in 1 .. Len(kept) : kept[k] = all[k]
    BY <2>1, Beginning
  <2>3. Content' = kept
    BY <1>12, <2>2, Emptied DEF Content
  <2> HIDE DEF kept
  <2>4. /\ Cardinality(Wrong(kept, torn)) <= Cardinality(Wrong(all, torn))
        /\ Cardinality(Wrong(all, torn)) \in Nat
        /\ Cardinality(Wrong(kept, torn)) \in Nat
    BY <2>1, <2>2, WrongOfBeginning
  <2>5. Cardinality(Wrong(Content', torn')) <= faults'
    BY <1>2, <1>4, <1>5, <2>3, <2>4
  <2>6. FileInStep'
    BY <1>12, <2>5 DEF FileInStep
  <2>7. QED
    BY <1>7, <1>8, <2>6 DEF Inductive
<1>13. QED
  BY <1>10, <1>11, <1>12 DEF Write

\* fclose() leaves the beginning of what fwrite() was given, or all of it.
LEMMA Flushed ==
  ASSUME IInv, Flush, pc # "open", faults' = faults, torn' = torn
  PROVE  /\ Content' = Take(Content, room) /\ disk' = Content' /\ stdio' = <<>>
         /\ Len(Content) <= room => disk' = Content
         /\ Cardinality(Wrong(Content', torn')) <= faults'
<1>1. /\ Content \in Seq(Char) /\ room \in Nat /\ faults \in Nat
      /\ Cardinality(Wrong(Content, torn)) <= faults
  BY Parts DEF IInv, TypeOK, PartsOK, Inductive, FileInStep
<1> DEFINE kept == Take(Content, room)
<1>2. /\ kept \in Seq(Char) /\ Len(kept) <= Len(Content)
      /\ \A k \in 1 .. Len(kept) : kept[k] = Content[k]
      /\ Len(Content) <= room => kept = Content
  BY <1>1, Beginning
<1>3. disk' = kept /\ stdio' = <<>>
  BY DEF Flush, Content
<1> HIDE DEF kept
<1>4. Content' = kept
  BY <1>2, <1>3, Emptied DEF Content
<1>5. /\ Cardinality(Wrong(kept, torn)) <= Cardinality(Wrong(Content, torn))
      /\ Cardinality(Wrong(Content, torn)) \in Nat
      /\ Cardinality(Wrong(kept, torn)) \in Nat
  BY <1>1, <1>2, WrongOfBeginning
<1>6. QED
  BY <1>1, <1>2, <1>3, <1>4, <1>5 DEF kept

LEMMA CloseStep == IInv /\ Close => Inductive'
<1> SUFFICES ASSUME IInv, Close
             PROVE  Inductive'
  OBVIOUS
<1>1. /\ pc = "close" /\ Flush /\ UNCHANGED <<size, faults, torn>>
      /\ pc' \in {"success", "failure"}
      /\ pc' = "success" => Len(Content) <= room
  BY DEF Close, Content
<1>2. Len(Content) = size
  BY <1>1 DEF IInv, Inductive, FileInStep
<1>3. /\ stdio' = <<>>
      /\ Len(Content) <= room => disk' = Content
      /\ Cardinality(Wrong(Content', torn')) <= faults'
  BY <1>1, Flushed
<1>4. QED
  BY <1>1, <1>2, <1>3 DEF Inductive, FileInStep, HostInStep, AnswerInStep

LEMMA IoErrorStep == IInv /\ IoError => Inductive'
<1> SUFFICES ASSUME IInv, IoError
             PROVE  Inductive'
  OBVIOUS
<1>1. /\ pc = "ioerror" /\ Flush /\ pc' = "failure" /\ faults' = faults /\ torn' = torn
  BY DEF IoError
<1>2. Cardinality(Wrong(Content', torn')) <= faults'
  BY <1>1, Flushed
<1>3. QED
  BY <1>1, <1>2 DEF Inductive, FileInStep, HostInStep, AnswerInStep

\* What the user kills has its beginning on the disk.
LEMMA KillStep == IInv /\ Kill => Inductive'
<1> SUFFICES ASSUME IInv, Kill
             PROVE  Inductive'
  OBVIOUS
<1>1. /\ pc # "open" /\ pc' = "killed" /\ stdio' = <<>> /\ disk' = disk
      /\ faults' = faults /\ torn' = torn
  BY DEF Kill
<1>2. /\ Content \in Seq(Char) /\ disk \in Seq(Char) /\ stdio \in Seq(Char)
      /\ faults \in Nat /\ Cardinality(Wrong(Content, torn)) <= faults
  BY <1>1, Parts DEF IInv, TypeOK, PartsOK, Inductive, FileInStep
<1>3. Content' = disk
  BY <1>1, <1>2, Emptied DEF Content
<1>4. Len(disk) <= Len(Content) /\ \A k \in 1 .. Len(disk) : disk[k] = Content[k]
  BY <1>2, ConcatProperties DEF Content
<1>5. /\ Cardinality(Wrong(disk, torn)) <= Cardinality(Wrong(Content, torn))
      /\ Cardinality(Wrong(Content, torn)) \in Nat
      /\ Cardinality(Wrong(disk, torn)) \in Nat
  BY <1>2, <1>4, WrongOfBeginning
<1>6. QED
  BY <1>1, <1>2, <1>3, <1>5 DEF Inductive, FileInStep, HostInStep, AnswerInStep

\* What one fault makes of the answer, wherever on the line it happens.
LEMMA LostOne ==
  ASSUME IInv, TypeOK', LoseChar
  PROVE  \E p \in 1 .. Len(Received) :
           /\ Len(Received') = Len(Received) - 1
           /\ \A q \in 1 .. Len(Received) - 1 :
                Received'[q] = IF q < p THEN Received[q] ELSE Received[q + 1]
<1>1. /\ UNCHANGED <<line, buf>>
      /\ toHost \in Seq(Char) /\ toHost' \in Seq(Char)
      /\ Len(line) \in Nat /\ Len(buf) \in Nat /\ Len(toHost) \in Nat
  BY DEF LoseChar, IInv, TypeOK
<1>2. PICK k \in 1 .. Len(toHost) : toHost' = Remove(toHost, k)
  BY DEF LoseChar
<1>3. /\ Len(toHost') = Len(toHost) - 1
      /\ \A j \in 1 .. Len(toHost) - 1 :
           toHost'[j] = IF j < k THEN toHost[j] ELSE toHost[j + 1]
  BY <1>1, <1>2, Shorter
<1>4. PartsOK /\ PartsOK'
  BY Parts, PTL DEF IInv
<1> DEFINE n == Len(line) + Len(buf)
           p == n + k
<1>5. /\ Len(Received) = n + Len(toHost) /\ Len(Received') = n + Len(toHost')
      /\ \A q \in 1 .. n + Len(toHost) :
            Received[q] = IF q <= Len(line) THEN line[q]
                          ELSE IF q <= n THEN buf[q - Len(line)]
                          ELSE toHost[q - n]
      /\ \A q \in 1 .. n + Len(toHost') :
            Received'[q] = IF q <= Len(line) THEN line[q]
                           ELSE IF q <= n THEN buf[q - Len(line)]
                           ELSE toHost'[q - n]
  <2>2. Len(Received) = n + Len(toHost) /\ Len(Received') = n + Len(toHost')
    BY <1>1, <1>4 DEF PartsOK
  <2>3. ASSUME NEW q \in 1 .. n + Len(toHost)
        PROVE  Received[q] = IF q <= Len(line) THEN line[q]
                             ELSE IF q <= n THEN buf[q - Len(line)]
                             ELSE toHost[q - n]
    BY <1>1, <1>4, <2>2 DEF PartsOK
  <2>4. ASSUME NEW q \in 1 .. n + Len(toHost')
        PROVE  Received'[q] = IF q <= Len(line) THEN line[q]
                              ELSE IF q <= n THEN buf[q - Len(line)]
                              ELSE toHost'[q - n]
    BY <1>1, <1>4, <2>2 DEF PartsOK
  <2>5. QED
    BY <2>2, <2>3, <2>4
<1>6. n \in Nat /\ Len(line) <= n
  BY <1>1
<1> HIDE DEF n
<1>7. p \in 1 .. Len(Received) /\ Len(Received') = Len(Received) - 1
  BY <1>1, <1>3, <1>5, <1>6
<1>8. ASSUME NEW q \in 1 .. Len(Received) - 1
      PROVE  Received'[q] = IF q < p THEN Received[q] ELSE Received[q + 1]
  <2>1. q \in 1 .. n + Len(toHost) - 1 /\ q \in 1 .. n + Len(toHost')
    BY <1>1, <1>3, <1>5, <1>6
  <2>2. CASE q <= n
    <3>1. q < p /\ q \in 1 .. n + Len(toHost)
      BY <1>1, <1>6, <2>1, <2>2
    <3>2. Received'[q] = Received[q]
      BY <1>5, <2>1, <2>2, <3>1
    <3>3. QED
      BY <3>1, <3>2
  <2>3. CASE ~(q <= n)
    <3>1. /\ q - n \in 1 .. Len(toHost) - 1
          /\ (q + 1) - n = (q - n) + 1 /\ ~(q + 1 <= n)
          /\ ~(q <= Len(line)) /\ ~(q + 1 <= Len(line))
          /\ q \in 1 .. n + Len(toHost) /\ q + 1 \in 1 .. n + Len(toHost)
          /\ q < p <=> q - n < k
      BY <1>1, <1>6, <2>1, <2>3
    <3>2. Received'[q] = toHost'[q - n]
      BY <1>5, <2>1, <2>3, <3>1
    <3>3. Received[q] = toHost[q - n] /\ Received[q + 1] = toHost[(q - n) + 1]
      BY <1>5, <2>3, <3>1
    <3>4. toHost'[q - n] = IF q - n < k THEN toHost[q - n] ELSE toHost[(q - n) + 1]
      BY <1>3, <3>1
    <3>5. QED
      BY <3>1, <3>2, <3>3, <3>4
  <2>4. QED
    BY <2>2, <2>3
<1> HIDE DEF p
<1>9. QED
  BY <1>7, <1>8

\* An answer that has lost a character is still readable only when it has lost
\* one of its code line, and then it ends with the same data.
LEMMA LoseCharStep == IInv /\ TypeOK' /\ LoseChar => Inductive'
<1> SUFFICES ASSUME IInv, TypeOK', LoseChar
             PROVE  Inductive'
  OBVIOUS
<1>1. /\ UNCHANGED <<pc, size, room, disk, stdio, a, i, line, buf, torn>>
      /\ faults' = faults + 1 /\ faults \in Nat
  BY DEF LoseChar, IInv, TypeOK
<1>2. Content' = Content /\ Chunk' = Chunk
  BY <1>1 DEF Content, Chunk
<1>3. toHost # <<>>
  <2>1. PICK k \in 1 .. Len(toHost) : TRUE
    BY DEF LoseChar
  <2>2. QED
    BY <2>1, EmptySeq
<1>4. PICK p \in 1 .. Len(Received) :
        /\ Len(Received') = Len(Received) - 1
        /\ \A q \in 1 .. Len(Received) - 1 :
             Received'[q] = IF q < p THEN Received[q] ELSE Received[q + 1]
  BY LostOne
<1>5. Content \in Seq(Char) /\ Received \in Seq(Char) /\ Len(Received) \in Nat
  BY Parts DEF IInv, PartsOK
<1>6. FileInStep'
  <2>1. Cardinality(Wrong(Content, torn)) \in Nat
    BY <1>5, WrongFinite
  <2>2. pc # "open" => Cardinality(Wrong(Content', torn')) <= faults'
    BY <1>1, <1>2, <2>1 DEF IInv, Inductive, FileInStep
  <2>3. QED
    BY <1>1, <1>2, <2>2 DEF IInv, Inductive, FileInStep
<1>7. HostInStep'
  BY <1>1, <1>2 DEF IInv, Inductive, HostInStep
<1>8. ASSUME torn = {}, pc \in {"code", "data", "write"}
      PROVE  /\ Len(Received') <= Chunk' + 3 /\ Len(Received') # Chunk' + 3
             /\ Readable' => Cardinality(Wrong(Ahead', {})) <= Allowed'
  <2>1. /\ Len(Received) <= Chunk + 3
        /\ Len(Received) = Chunk + 3 => Received[2] # "nl"
        /\ Readable => Cardinality(Wrong(Ahead, {})) <= Allowed
        /\ i < size /\ Len(Content) = i
    BY <1>8 DEF IInv, Inductive, FileInStep, HostInStep, AnswerInStep
  <2>2. Chunk \in Nat /\ 1 <= Chunk /\ i \in Nat
    BY <2>1, ChunkRange DEF IInv, TypeOK
  <2>3. Len(Received') <= Chunk' + 3 /\ Len(Received') # Chunk' + 3
    BY <1>2, <1>4, <1>5, <2>1, <2>2
  <2>4. ASSUME Readable'
        PROVE  Cardinality(Wrong(Ahead', {})) <= Allowed'
    <3>1. Len(Received') = Chunk' + 2 /\ Received'[2] = "nl"
      BY <2>3, <2>4 DEF Readable
    <3>2. Len(Received) = Chunk + 3 /\ Received[2] # "nl"
      BY <1>2, <1>4, <1>5, <2>1, <2>2, <3>1
    <3>3. p <= 2
      <4>1. 2 \in 1 .. Len(Received) - 1
        BY <2>2, <3>2
      <4>2. ~(2 < p)
        BY <1>4, <3>1, <3>2, <4>1
      <4>3. QED
        BY <1>5, <4>2
    <3>4. /\ Ahead \in Seq(Char) /\ Len(Ahead) = i + Chunk
          /\ \A k \in 1 .. i : Ahead[k] = Content[k]
          /\ \A k \in i + 1 .. i + Chunk :
               Ahead[k] = Received[(Chunk + 3) - (i + Chunk - k)]
      <4>1. AheadOK /\ Len(Received) >= Chunk
        BY AheadIs, <2>2, <3>2 DEF IInv
      <4>2. QED
        BY <2>1, <3>2, <4>1 DEF AheadOK
    <3>5. /\ Ahead' \in Seq(Char) /\ Len(Ahead') = i + Chunk
          /\ \A k \in 1 .. i : Ahead'[k] = Content[k]
          /\ \A k \in i + 1 .. i + Chunk :
               Ahead'[k] = Received'[(Chunk + 2) - (i + Chunk - k)]
      <4>1. AheadOK'
        BY AheadIs, PTL
      <4>2. i' < size' /\ Len(Content') = i' /\ Len(Received') >= Chunk'
        BY <1>1, <1>2, <2>1, <2>2, <3>1
      <4>3. QED
        BY <1>1, <1>2, <3>1, <4>1, <4>2 DEF AheadOK
    <3>6. ASSUME NEW k \in 1 .. i + Chunk
          PROVE  Ahead'[k] = Ahead[k]
      <4>1. CASE k <= i
        BY <2>2, <3>4, <3>5, <4>1
      <4>2. CASE ~(k <= i)
        <5> DEFINE q == (Chunk + 2) - (i + Chunk - k)
        <5>1. /\ k \in i + 1 .. i + Chunk /\ q \in 1 .. Len(Received) - 1 /\ ~(q < p)
              /\ q + 1 = (Chunk + 3) - (i + Chunk - k)
          BY <1>5, <2>2, <3>2, <3>3, <4>2
        <5>2. Ahead'[k] = Received'[q] /\ Ahead[k] = Received[q + 1]
          BY <3>4, <3>5, <5>1
        <5> HIDE DEF q
        <5>3. QED
          BY <1>4, <5>1, <5>2
      <4>3. QED
        BY <4>1, <4>2
    <3>7. Ahead' = Ahead
      BY <3>4, <3>5, <3>6, SeqEqual
    <3>8. Readable /\ Cardinality(Wrong(Ahead, {})) \in Nat
      BY <3>2, <3>4, WrongFinite DEF Readable
    <3>9. Allowed <= faults + 1 /\ faults' <= Allowed'
      BY <1>1 DEF Allowed
    <3>10. Allowed \in Nat /\ Allowed' \in Nat
      BY <1>1 DEF Allowed
    <3>11. QED
      BY <1>1, <2>1, <3>7, <3>8, <3>9, <3>10
  <2>5. QED
    BY <2>3, <2>4
<1>9. AnswerInStep'
  BY <1>1, <1>3, <1>8 DEF IInv, Inductive, AnswerInStep
<1>10. QED
  BY <1>6, <1>7, <1>9 DEF Inductive

LEMMA ChangedOne ==
  ASSUME IInv, TypeOK', CorruptChar
  PROVE  \E j \in 1 .. Len(toHost) :
           /\ torn' = IF Torn(j) THEN torn \cup {i} ELSE torn
           /\ Len(Received') = Len(Received)
           /\ \A q \in 1 .. Len(Received) :
                q # Len(line) + Len(buf) + j => Received'[q] = Received[q]
           /\ Received[Len(line) + Len(buf) + j] = toHost[j]
           /\ Received'[Len(line) + Len(buf) + j] = toHost'[j]
           /\ Len(line) + Len(buf) + j \in 1 .. Len(Received)
<1>1. /\ UNCHANGED <<line, buf>>
      /\ toHost \in Seq(Char) /\ toHost' \in Seq(Char)
      /\ Len(line) \in Nat /\ Len(buf) \in Nat /\ Len(toHost) \in Nat
  BY DEF CorruptChar, IInv, TypeOK
<1>2. PICK j \in 1 .. Len(toHost), c \in Char :
        /\ toHost' = [toHost EXCEPT ![j] = c]
        /\ torn' = IF Torn(j) THEN torn \cup {i} ELSE torn
  BY DEF CorruptChar
<1>3. /\ Len(toHost') = Len(toHost)
      /\ \A k \in 1 .. Len(toHost) : k # j => toHost'[k] = toHost[k]
  BY <1>1, <1>2, ExceptSeq
<1>4. PartsOK /\ PartsOK'
  BY Parts, PTL DEF IInv
<1> DEFINE n == Len(line) + Len(buf)
<1>5. /\ Len(Received) = n + Len(toHost) /\ Len(Received') = n + Len(toHost)
      /\ \A q \in 1 .. n + Len(toHost) :
            /\ Received[q] = IF q <= Len(line) THEN line[q]
                             ELSE IF q <= n THEN buf[q - Len(line)]
                             ELSE toHost[q - n]
            /\ Received'[q] = IF q <= Len(line) THEN line[q]
                              ELSE IF q <= n THEN buf[q - Len(line)]
                              ELSE toHost'[q - n]
  <2>2. Len(Received) = n + Len(toHost) /\ Len(Received') = n + Len(toHost)
    BY <1>1, <1>3, <1>4 DEF PartsOK
  <2>3. ASSUME NEW q \in 1 .. n + Len(toHost)
        PROVE  Received[q] = IF q <= Len(line) THEN line[q]
                             ELSE IF q <= n THEN buf[q - Len(line)]
                             ELSE toHost[q - n]
    BY <1>1, <1>4, <2>2 DEF PartsOK
  <2>4. ASSUME NEW q \in 1 .. n + Len(toHost)
        PROVE  Received'[q] = IF q <= Len(line) THEN line[q]
                              ELSE IF q <= n THEN buf[q - Len(line)]
                              ELSE toHost'[q - n]
    BY <1>1, <1>4, <2>2 DEF PartsOK
  <2>5. QED
    BY <2>2, <2>3, <2>4
<1>6. n \in Nat /\ Len(line) <= n
  BY <1>1
<1> HIDE DEF n
<1>7. ASSUME NEW q \in 1 .. Len(Received), q # n + j
      PROVE  Received'[q] = Received[q]
  <2>1. q \in 1 .. n + Len(toHost)
    BY <1>5
  <2>2. CASE q <= n
    BY <1>5, <2>1, <2>2
  <2>3. CASE ~(q <= n)
    <3>1. q - n \in 1 .. Len(toHost) /\ q - n # j
      BY <1>1, <1>6, <1>7, <2>1, <2>3
    <3>2. ~(q <= Len(line))
      BY <1>1, <1>6, <2>1, <2>3
    <3>3. QED
      BY <1>3, <1>5, <2>1, <2>3, <3>1, <3>2
  <2>4. QED
    BY <2>2, <2>3
<1>8. /\ n + j \in 1 .. n + Len(toHost) /\ ~(n + j <= Len(line))
      /\ ~(n + j <= n) /\ (n + j) - n = j
  BY <1>1, <1>6
<1>9. Received[n + j] = toHost[j] /\ Received'[n + j] = toHost'[j]
  BY <1>5, <1>8
<1>10. QED
  BY <1>2, <1>5, <1>7, <1>8, <1>9 DEF n

\* A corrupted character tears the code line, or makes the digit of another
\* code a 0, or is one byte of the file, or makes nothing readable.
LEMMA CorruptCharStep == IInv /\ TypeOK' /\ CorruptChar => Inductive'
<1> SUFFICES ASSUME IInv, TypeOK', CorruptChar
             PROVE  Inductive'
  OBVIOUS
<1>1. /\ UNCHANGED <<pc, size, room, disk, stdio, a, i, line, buf>>
      /\ faults' = faults + 1 /\ faults \in Nat /\ i \in Nat
      /\ line \in Seq(Char) /\ buf \in Seq(Char)
      /\ Len(line) \in Nat /\ Len(buf) \in Nat
  BY DEF CorruptChar, IInv, TypeOK
<1>2. Content' = Content /\ Chunk' = Chunk
  BY <1>1 DEF Content, Chunk
<1> DEFINE n == Len(line) + Len(buf)
<1>3. PICK j \in 1 .. Len(toHost) :
        /\ torn' = IF Torn(j) THEN torn \cup {i} ELSE torn
        /\ Len(Received') = Len(Received)
        /\ \A q \in 1 .. Len(Received) : q # n + j => Received'[q] = Received[q]
        /\ Received[n + j] = toHost[j] /\ Received'[n + j] = toHost'[j]
        /\ n + j \in 1 .. Len(Received)
  BY ChangedOne
<1>4. toHost # <<>>
  BY <1>3, EmptySeq
<1>5. Content \in Seq(Char) /\ Received \in Seq(Char) /\ Len(Received) \in Nat
  BY Parts DEF IInv, PartsOK
<1>6. FileInStep'
  <2>1. /\ Cardinality(Wrong(Content, torn)) \in Nat
        /\ Cardinality(Wrong(Content, torn')) \in Nat
    BY <1>5, WrongFinite
  <2>2. torn \subseteq torn'
    BY <1>3
  <2>3. Wrong(Content, torn') \subseteq Wrong(Content, torn)
    BY <2>2 DEF Wrong
  <2>4. Cardinality(Wrong(Content, torn')) <= Cardinality(Wrong(Content, torn))
    BY <1>5, <2>3, WrongOfFewer
  <2>5. pc # "open" => Cardinality(Wrong(Content', torn')) <= faults'
    BY <1>1, <1>2, <2>1, <2>4 DEF IInv, Inductive, FileInStep
  <2>6. (\A t \in torn : t <= i) => (\A t \in torn' : t <= i)
    BY <1>1, <1>3
  <2>7. pc # "open"
    BY <1>4 DEF IInv, Inductive, FileInStep, AnswerInStep
  <2>8. QED
    BY <1>1, <1>2, <2>5, <2>6, <2>7 DEF IInv, Inductive, FileInStep
<1>7. HostInStep'
  BY <1>1, <1>2 DEF IInv, Inductive, HostInStep
<1>8. ASSUME torn' = {}, pc \in {"code", "data", "write"}
      PROVE  /\ Len(Received') <= Chunk' + 3
             /\ Len(Received') = Chunk' + 3 => Received'[2] # "nl"
             /\ Readable' => Cardinality(Wrong(Ahead', {})) <= Allowed'
  <2>1. torn = {} /\ ~Torn(j)
    BY <1>3, <1>8
  <2>2. /\ Len(Received) <= Chunk + 3
        /\ Len(Received) = Chunk + 3 => Received[2] # "nl"
        /\ Readable => Cardinality(Wrong(Ahead, {})) <= Allowed
        /\ i < size /\ Len(Content) = i
        /\ pc = "code" => buf = <<>>
        /\ pc # "code" => Len(line) >= 2
    BY <1>8, <2>1 DEF IInv, Inductive, FileInStep, HostInStep, AnswerInStep
  <2>3. Chunk \in Nat /\ 1 <= Chunk
    BY <2>2, ChunkRange DEF IInv
  <2>4. ASSUME Received'[2] = "nl", Received[2] # "nl", Len(Received) >= 2
        PROVE  FALSE
    <3>1. n + j = 2
      BY <1>3, <1>5, <2>4
    <3>2. pc = "code" /\ Len(line) + j = 2
      BY <1>1, <2>2, <3>1, EmptySeq
    <3>3. Torn(j)
      BY <1>3, <2>4, <3>1, <3>2 DEF Torn
    <3>4. QED
      BY <2>1, <3>3
  <2>5. Len(Received') = Chunk' + 3 => Received'[2] # "nl"
    BY <1>2, <1>3, <2>2, <2>3, <2>4
  <2>6. ASSUME Readable'
        PROVE  Cardinality(Wrong(Ahead', {})) <= Allowed'
    <3>1. Readable /\ (Len(Received) = Chunk + 3 \/ Len(Received) = Chunk + 2)
      BY <1>2, <1>3, <2>3, <2>4, <2>6 DEF Readable
    <3> DEFINE r == Len(Received)
               g == n + j
               m == i + Chunk
    <3>2. m = i + Chunk /\ r = Len(Received) /\ g = n + j
      OBVIOUS
    <3> HIDE DEF r, g, m
    <3>3. /\ Ahead \in Seq(Char) /\ Len(Ahead) = m
          /\ \A k \in 1 .. i : Ahead[k] = Content[k]
          /\ \A k \in i + 1 .. m : Ahead[k] = Received[r - (m - k)]
      <4>1. AheadOK /\ Len(Received) >= Chunk
        BY AheadIs, <2>3, <3>1 DEF IInv
      <4>2. /\ Ahead \in Seq(Char) /\ Len(Ahead) = i + Chunk
            /\ \A k \in 1 .. i : Ahead[k] = Content[k]
            /\ \A k \in i + 1 .. i + Chunk :
                 Ahead[k] = Received[Len(Received) - (i + Chunk - k)]
        BY <2>2, <4>1 DEF AheadOK
      <4>3. QED
        BY <1>1, <1>5, <2>3, <3>2, <4>2
    <3>4. /\ Ahead' \in Seq(Char) /\ Len(Ahead') = m
          /\ \A k \in 1 .. i : Ahead'[k] = Content[k]
          /\ \A k \in i + 1 .. m : Ahead'[k] = Received'[r - (m - k)]
      <4>1. AheadOK'
        BY AheadIs, PTL
      <4>2. i' < size' /\ Len(Content') = i' /\ Len(Received') >= Chunk'
        BY <1>1, <1>2, <1>3, <2>2, <2>3, <3>1
      <4>3. /\ Ahead' \in Seq(Char) /\ Len(Ahead') = i + Chunk
            /\ \A k \in 1 .. i : Ahead'[k] = Content[k]
            /\ \A k \in i + 1 .. i + Chunk :
                 Ahead'[k] = Received'[Len(Received) - (i + Chunk - k)]
        BY <1>1, <1>2, <1>3, <4>1, <4>2 DEF AheadOK
      <4>4. QED
        BY <1>1, <1>5, <2>3, <3>2, <4>3
    <3>5. /\ r \in Nat /\ g \in 1 .. r /\ (r = Chunk + 3 \/ r = Chunk + 2)
          /\ \A q \in 1 .. r : q # g => Received'[q] = Received[q]
      BY <1>3, <1>5, <3>2, <3>1
    <3>6. m \in Nat /\ m - i = Chunk /\ i <= m
      BY <1>1, <2>3, <3>2
    <3>7. ASSUME NEW k \in 1 .. m, r - (m - k) # g
          PROVE  Ahead'[k] = Ahead[k]
      <4>1. CASE k <= i
        BY <1>1, <3>3, <3>4, <3>6, <4>1
      <4>2. CASE ~(k <= i)
        <5>1. k \in i + 1 .. m /\ r - (m - k) \in 1 .. r
          BY <1>1, <2>3, <3>5, <3>6, <4>2
        <5>2. QED
          BY <3>3, <3>4, <3>5, <3>7, <5>1
      <4>3. QED
        BY <4>1, <4>2
    <3>8. /\ Cardinality(Wrong(Ahead, {})) \in Nat
          /\ Cardinality(Wrong(Ahead', {})) \in Nat
      BY <3>3, <3>4, WrongFinite
    <3>9. /\ Allowed \in Nat /\ Allowed' \in Nat
          /\ faults <= Allowed /\ Allowed <= faults + 1
          /\ faults + 1 <= Allowed'
      BY <1>1 DEF Allowed
    <3>10. CASE Allowed = faults + 1 /\ Allowed' = faults + 1
      <4>1. Received[1] = "E" /\ Received'[1] # "E"
        BY <1>1, <3>10 DEF Allowed
      <4>2. 1 \in 1 .. r
        BY <2>3, <3>5
      <4>3. g = 1
        BY <3>5, <4>1, <4>2
      <4>4. ASSUME NEW k \in 1 .. m
            PROVE  Ahead'[k] = Ahead[k]
        <5>1. CASE k <= i
          BY <1>1, <3>3, <3>4, <3>6, <5>1
        <5>2. CASE ~(k <= i)
          <6>1. r - (m - k) # g
            BY <1>1, <2>3, <3>5, <3>6, <4>3, <5>2
          <6>2. QED
            BY <3>7, <6>1
        <5>3. QED
          BY <5>1, <5>2
      <4>5. Ahead' = Ahead
        BY <3>3, <3>4, <4>4, SeqEqual
      <4>6. QED
        BY <2>2, <3>1, <3>10, <4>5
    <3>11. CASE ~(Allowed = faults + 1 /\ Allowed' = faults + 1)
      <4>1. Allowed + 1 <= Allowed'
        <5>1. Allowed' = faults + 1 \/ Allowed' = faults + 2
          BY <1>1 DEF Allowed
        <5>2. Allowed = faults \/ Allowed = faults + 1
          BY <1>1 DEF Allowed
        <5>3. QED
          BY <1>1, <3>11, <5>1, <5>2
      <4>2. Wrong(Ahead', {}) \subseteq Wrong(Ahead, {}) \cup {g - r + m}
        <5> SUFFICES ASSUME NEW k \in Wrong(Ahead', {}), k # g - r + m
                     PROVE  k \in Wrong(Ahead, {})
          OBVIOUS
        <5>1. k \in 1 .. m /\ (k > Len(Flash) \/ Ahead'[k] # Flash[k])
          BY <3>4 DEF Wrong
        <5>2. r - (m - k) # g
          BY <3>5, <3>6, <5>1
        <5>3. Ahead'[k] = Ahead[k]
          BY <3>7, <5>1, <5>2
        <5>4. QED
          BY <3>3, <5>1, <5>3 DEF Wrong
      <4>3. Cardinality(Wrong(Ahead', {})) <= Cardinality(Wrong(Ahead, {})) + 1
        BY <3>3, <3>4, <4>2, WrongOneMore
      <4>4. QED
        BY <2>2, <3>1, <3>8, <3>9, <4>1, <4>3
    <3>12. QED
      BY <3>10, <3>11
  <2>7. QED
    BY <1>2, <1>3, <2>2, <2>5, <2>6
<1>9. AnswerInStep'
  <2>1. torn' = {} => torn = {}
    BY <1>3
  <2>2. torn = {} => pc \notin {"open", "session", "loop"}
    BY <1>4 DEF IInv, Inductive, AnswerInStep
  <2>3. QED
    BY <1>1, <1>8, <2>1, <2>2 DEF AnswerInStep
<1>10. QED
  BY <1>6, <1>7, <1>9 DEF Inductive

-----------------------------------------------------------------------------
(* The theorems.                                                            *)

\* IInv holds in every reachable state.
THEOREM Invariance == Spec => []IInv
<1>1. Init => IInv
  <2> SUFFICES ASSUME Init
               PROVE  IInv
    OBVIOUS
  <2>1. /\ disk \in Seq(Char) /\ <<>> \in Seq(Char)
        /\ size \in Int /\ room \in Nat
    BY EmptySeq, UploadAssumption DEF Init, Old, Char, UploadAssumption
  <2>2. TypeOK
    BY <2>1 DEF Init, TypeOK, Control
  <2>3. QED
    BY <2>2 DEF Init, IInv, Inductive, FileInStep, HostInStep, AnswerInStep
<1>2. IInv /\ [Next]_vars => IInv'
  <2> SUFFICES ASSUME IInv, [Next]_vars
               PROVE  Inductive'
    BY Types DEF IInv
  <2>1. TypeOK'
    BY Types DEF IInv
  <2>2. CASE Open
    BY <2>2, OpenStep
  <2>3. CASE Session
    BY <2>3, SessionStep
  <2>4. CASE Loop
    BY <2>1, <2>4, LoopStep
  <2>5. CASE GetCode
    BY <2>5, GetCodeStep
  <2>6. CASE GetData
    BY <2>6, GetDataStep
  <2>7. CASE Timeout
    BY <2>7, TimeoutStep
  <2>8. CASE Write
    BY <2>1, <2>8, WriteStep
  <2>9. CASE Close
    BY <2>9, CloseStep
  <2>10. CASE IoError
    BY <2>10, IoErrorStep
  <2>11. CASE LoseChar
    BY <2>1, <2>11, LoseCharStep
  <2>12. CASE CorruptChar
    BY <2>1, <2>12, CorruptCharStep
  <2>13. CASE Kill
    BY <2>13, KillStep
  <2>14. CASE UNCHANGED vars
    <3>1. Content' = Content /\ Chunk' = Chunk /\ Received' = Received
      BY <2>14 DEF vars, Content, Chunk, Received
    <3>2. Ahead' = Ahead /\ (Readable' <=> Readable) /\ Allowed' = Allowed
      BY <2>14, <3>1 DEF vars, Ahead, Readable, Allowed
    <3>3. QED
      BY <2>14, <3>1, <3>2
      DEF vars, IInv, Inductive, FileInStep, HostInStep, AnswerInStep
  <2>15. QED
    BY <2>2, <2>3, <2>4, <2>5, <2>6, <2>7, <2>8, <2>9, <2>10, <2>11, <2>12,
       <2>13, <2>14 DEF Next, Host
<1>3. QED
  BY <1>1, <1>2, PTL DEF Spec

\* Whatever is lost, corrupted, refused, late or full (command.c:408-430,
\* transfer.c:45-52), exit status 0 (main.c:218-247) means a file of the size
\* asked for with no more wrong bytes than lost and corrupted characters, up
\* to the first piece whose code line ended too early (command.c:112).
THEOREM UploadIsComplete == Spec => []SuccessMeansCopied
<1>1. IInv => SuccessMeansCopied
  <2> SUFFICES ASSUME IInv, pc = "success"
               PROVE  Len(disk) = size /\ Cardinality(Wrong(disk, torn)) <= faults
    BY DEF SuccessMeansCopied
  <2>1. /\ stdio = <<>> /\ Len(disk) = size
        /\ Cardinality(Wrong(Content, torn)) <= faults
    BY DEF IInv, Inductive, FileInStep
  <2>2. Content = disk
    BY <2>1, Emptied DEF Content, IInv, TypeOK
  <2>3. QED
    BY <2>1, <2>2
<1>2. QED
  BY <1>1, Invariance, PTL

\* From fopen() (main.c:147) to every end of the program, killed or not, the
\* file is a beginning of the flash but for the lost and corrupted characters:
\* bytes of a code, of a later request or of another address get into it only
\* from the first piece on whose code line ended too early (command.c:112).
THEOREM UploadLeavesAPrefix == Spec => []FileIsPrefix
<1>1. IInv => FileIsPrefix
  BY DEF IInv, Inductive, FileInStep, FileIsPrefix, Content
<1>2. QED
  BY <1>1, Invariance, PTL
=============================================================================
