--------------------------- MODULE AuditLedgerProofs ---------------------------
(***************************************************************************)
(* Theorems about AuditLedger, for any number of writers, events and       *)
(* failing writes.                                                         *)
(***************************************************************************)
EXTENDS AuditLedger, SequenceTheorems, LeastNumber

-----------------------------------------------------------------------------
(* Typing.  The digests that have occurred so far are some set S.           *)

LineOver(S) ==
  [event : Events, context : Contexts, previous : S, digest : S,
   readable : BOOLEAN, ended : BOOLEAN]

FileOver(S) ==
  /\ file \in Seq(LineOver(S))
  /\ pending \in [Writers -> LineOver(S) \cup {NoLine}]

FileInv == \E S : FileOver(S)

\* A line goes behind the file, or into its last line, which keeps its event,
\* context and digests, and becomes unreadable.
LEMMA WrittenShape ==
  ASSUME NEW S, NEW f \in Seq(LineOver(S)), NEW line \in LineOver(S)
  PROVE  LET g == Written(f, line)
         IN  /\ g \in Seq(LineOver(S))
             /\ \A i \in 1..Len(f) : /\ g[i].event = f[i].event
                                     /\ g[i].context = f[i].context
                                     /\ g[i].previous = f[i].previous
                                     /\ g[i].digest = f[i].digest
                                     /\ g[i].readable => g[i] = f[i]
             /\ \/ Len(g) = Len(f) + 1 /\ g[Len(g)] = line
                \/ Len(g) = Len(f)
<1> DEFINE g == Written(f, line)
<1>1. CASE f = <<>> \/ f[Len(f)].ended
  <2>1. g = Append(f, line)
    BY <1>1 DEF Written
  <2>2. QED
    BY <2>1
<1>2. CASE ~(f = <<>> \/ f[Len(f)].ended)
  <2>1. Len(f) \in 1..Len(f)
    BY <1>2
  <2>2. g = [f EXCEPT ![Len(f)] = Continued(f[Len(f)], line)]
    BY <1>2 DEF Written
  <2>3. f[Len(f)] \in LineOver(S)
    BY <2>1
  <2>4. /\ Continued(f[Len(f)], line) \in LineOver(S)
        /\ Continued(f[Len(f)], line).event = f[Len(f)].event
        /\ Continued(f[Len(f)], line).context = f[Len(f)].context
        /\ Continued(f[Len(f)], line).previous = f[Len(f)].previous
        /\ Continued(f[Len(f)], line).digest = f[Len(f)].digest
        /\ ~Continued(f[Len(f)], line).readable
    BY <2>3 DEF Continued, LineOver
  <2>5. QED
    BY <2>1, <2>2, <2>4
<1>3. QED
  BY <1>1, <1>2

\* What a torn write leaves of a line is a line of the file.
LEMMA PartialType ==
  ASSUME NEW S, NEW line \in LineOver(S), NEW p \in Partial(line)
  PROVE  /\ p \in LineOver(S)
         /\ p.event = line.event /\ p.previous = line.previous
         /\ p.digest = line.digest
<1>1. PICK complete \in BOOLEAN :
        p = [line EXCEPT !.ended = FALSE, !.readable = complete]
  BY Zenon DEF Partial
<1>2. [line EXCEPT !.ended = FALSE] \in LineOver(S)
  BY DEF LineOver
<1>3. p = [[line EXCEPT !.ended = FALSE] EXCEPT !.readable = complete]
  BY <1>1 DEF LineOver
<1>4. p \in LineOver(S)
  BY <1>2, <1>3 DEF LineOver
<1>5. p.event = line.event /\ p.previous = line.previous /\ p.digest = line.digest
  BY <1>1 DEF LineOver
<1>6. QED
  BY <1>4, <1>5

\* What a write does to the file: nothing, or it writes some form of the
\* writer's line.
LEMMA WriterStep ==
  ASSUME NEW S, FileOver(S), NEW w \in Writers, WriteLine(w) \/ WriteFails(w)
  PROVE  \/ file' = file
         \/ \E line \in LineOver(S) :
              /\ line.event = pending[w].event
              /\ line.previous = pending[w].previous
              /\ line.digest = pending[w].digest
              /\ WriteLine(w) => line = pending[w]
              /\ file' = Written(file, line)
<1>1. pending[w] \in LineOver(S)
  BY DEF FileOver, WriteLine, WriteFails
<1>2. CASE WriteLine(w)
  BY <1>1, <1>2 DEF WriteLine
<1>3. CASE ~WriteLine(w) /\ WriteFails(w)
  <2>1. CASE file' = file
    BY <2>1
  <2>2. CASE file' # file
    <3>1. PICK p \in Partial(pending[w]) : file' = Written(file, p)
      BY <1>3, <2>2 DEF WriteFails
    <3>2. QED
      BY <1>1, <1>3, <3>1, PartialType
  <2>3. QED
    BY <2>1, <2>2
<1>4. QED
  BY <1>2, <1>3

\* The digest that append links its line to, and the line.
LEMMA LastDigestType ==
  ASSUME NEW S, file \in Seq(LineOver(S))
  PROVE  /\ LastDigest(file) \in S \cup {NoDigest}
         /\ \/ LastDigest(file) = NoDigest
            \/ \E j \in 1..Len(file) : LastDigest(file) = file[j].digest
<1>1. CASE file = <<>>
  BY <1>1 DEF LastDigest
<1>2. CASE file # <<>>
  <2>1. Len(file) \in 1..Len(file) /\ LastDigest(file) = file[Len(file)].digest
    BY <1>2 DEF LastDigest
  <2>2. file[Len(file)] \in LineOver(S)
    BY <2>1
  <2>3. QED
    BY <2>1, <2>2 DEF LineOver
<1>3. QED
  BY <1>1, <1>2

\* The well-formedness of the file holds at the start.
LEMMA FileInit == Init => FileInv
<1> SUFFICES ASSUME Init PROVE FileInv
  OBVIOUS
<1>1. FileOver({})
  BY DEF Init, FileOver
<1>2. QED
  BY <1>1 DEF FileInv

\* Every step of append and every loss of a write keeps the file well formed.
LEMMA FileStep == FileInv /\ [Next]_vars => FileInv'
<1> SUFFICES ASSUME FileInv, [Next]_vars
             PROVE  FileInv'
  OBVIOUS
<1>1. PICK S : FileOver(S)
  BY DEF FileInv
<1>2. ASSUME NEW w \in Writers, ReadLast(w)
      PROVE  FileInv'
  <2>1. PICK p : p = LastDigest(file)
    OBVIOUS
  <2>2. PICK e \in Events, c \in Contexts :
           pending' = [pending EXCEPT ![w] = Line(e, c, p)]
    BY <1>2, <2>1 DEF ReadLast
  <2>3. PICK T : T = S \cup {p, Digest(e, p)}
    OBVIOUS
  <2>4. LineOver(S) \subseteq LineOver(T) /\ Line(e, c, p) \in LineOver(T)
    BY <2>3 DEF LineOver, Line
  <2>5. file' \in Seq(LineOver(T))
    BY <1>1, <1>2, <2>4, SeqMonotonic DEF FileOver, ReadLast
  <2>6. pending' \in [Writers -> LineOver(T) \cup {NoLine}]
    BY <1>1, <2>2, <2>4 DEF FileOver
  <2>7. FileOver(T)'
    BY <2>5, <2>6 DEF FileOver
  <2>8. QED
    BY <2>7 DEF FileInv
<1>3. ASSUME NEW w \in Writers, WriteLine(w) \/ WriteFails(w)
      PROVE  FileInv'
  <2>1. file' \in Seq(LineOver(S))
    <3>1. file \in Seq(LineOver(S))
      BY <1>1 DEF FileOver
    <3>2. file' = file \/ \E line \in LineOver(S) : file' = Written(file, line)
      BY <1>1, <1>3, WriterStep
    <3>3. \A line \in LineOver(S) : Written(file, line) \in Seq(LineOver(S))
      BY <3>1, WrittenShape
    <3>4. QED
      BY <3>1, <3>2, <3>3
  <2>2. pending' \in [Writers -> LineOver(S) \cup {NoLine}]
    BY <1>1, <1>3 DEF FileOver, WriteLine, WriteFails
  <2>3. FileOver(S)'
    BY <2>1, <2>2 DEF FileOver
  <2>4. QED
    BY <2>3 DEF FileInv
<1>4. ASSUME Crash
      PROVE  FileInv'
  BY <1>1, <1>4 DEF Crash, FileInv, FileOver
<1>5. CASE UNCHANGED vars
  BY <1>1, <1>5 DEF vars, FileInv, FileOver
<1>6. QED
  BY <1>2, <1>3, <1>4, <1>5 DEF Next, ReadRaises

-----------------------------------------------------------------------------
(* What the steps do to the file and to the pending lines.                  *)

\* g begins with the lines of f, some of which may have become unreadable.
Keeps(f, g) ==
  \A i \in 1..Len(f) : /\ g[i].event = f[i].event
                       /\ g[i].context = f[i].context
                       /\ g[i].previous = f[i].previous
                       /\ g[i].digest = f[i].digest
                       /\ g[i].readable => g[i] = f[i]

\* g ends in one more line than f, made from the given one.
OneMore(f, g, line) ==
  /\ Len(g) = Len(f) + 1
  /\ g[Len(g)].event = line.event
  /\ g[Len(g)].previous = line.previous
  /\ g[Len(g)].digest = line.digest

\* The positions of a file are 1 to its length.
LEMMA DomainOfFile ==
  ASSUME FileInv
  PROVE  Len(file) \in Nat /\ DOMAIN file = 1..Len(file)
BY DEF FileInv, FileOver

\* A write keeps the lines of the file and adds at most the writer's line.
LEMMA FileChange ==
  ASSUME FileInv, NEW w \in Writers, WriteLine(w) \/ WriteFails(w)
  PROVE  /\ Keeps(file, file')
         /\ Len(file') = Len(file) \/ OneMore(file, file', pending[w])
<1>1. PICK S : FileOver(S)
  BY DEF FileInv
<1>2. CASE file' = file
  BY <1>2 DEF Keeps
<1>3. CASE file' # file
  <2>1. PICK line \in LineOver(S) :
           /\ line.event = pending[w].event
           /\ line.previous = pending[w].previous
           /\ line.digest = pending[w].digest
           /\ file' = Written(file, line)
    BY <1>1, <1>3, WriterStep
  <2>2. file \in Seq(LineOver(S))
    BY <1>1 DEF FileOver
  <2> DEFINE g == Written(file, line)
  <2>3. /\ \A i \in 1..Len(file) : /\ g[i].event = file[i].event
                                   /\ g[i].context = file[i].context
                                   /\ g[i].previous = file[i].previous
                                   /\ g[i].digest = file[i].digest
                                   /\ g[i].readable => g[i] = file[i]
        /\ \/ Len(g) = Len(file) + 1 /\ g[Len(g)] = line
           \/ Len(g) = Len(file)
    BY <2>2, WrittenShape
  <2>4. QED
    BY <2>1, <2>3 DEF Keeps, OneMore
<1>4. QED
  BY <1>2, <1>3

\* The writer of a write has a line, and then none; the others keep theirs.
LEMMA WriterDone ==
  ASSUME FileInv, NEW w \in Writers, WriteLine(w) \/ WriteFails(w)
  PROVE  /\ pending[w] # NoLine /\ pending'[w] = NoLine /\ issued' = issued
         /\ \A v \in Writers : v # w => pending'[v] = pending[v]
BY DEF FileInv, FileOver, WriteLine, WriteFails

\* A writer that has read holds a line with a fresh event.
LEMMA ReaderDone ==
  ASSUME FileInv, NEW w \in Writers, ReadLast(w)
  PROVE  \E e \in Events \ issued, c \in Contexts :
           /\ issued' = issued \cup {e} /\ file' = file
           /\ pending'[w] = Line(e, c, LastDigest(file))
           /\ \A v \in Writers : v # w => pending'[v] = pending[v]
BY DEF FileInv, FileOver, ReadLast

\* The fields of the line that append builds.
LEMMA LineFields ==
  \A e, c, p : /\ Line(e, c, p).event = e /\ Line(e, c, p).context = c
               /\ Line(e, c, p).previous = p
               /\ Line(e, c, p).digest = Digest(e, p)
               /\ Line(e, c, p).readable /\ Line(e, c, p).ended
BY DEF Line

-----------------------------------------------------------------------------
(* History: what all interleavings and faults preserve.                     *)

\* d is the digest a line may be linked to when n lines are above it.
KnownDigest(d, n) == d = NoDigest \/ \E j \in 1..n : d = file[j].digest

HistoryInv ==
  /\ \A i \in 1..Len(file) :
       /\ file[i].event \in issued
       /\ file[i].digest = Digest(file[i].event, file[i].previous)
       /\ KnownDigest(file[i].previous, i - 1)
  /\ \A i, j \in 1..Len(file) : file[i].event = file[j].event => i = j
  /\ \A w \in Writers : pending[w] # NoLine =>
       /\ pending[w].event \in issued
       /\ pending[w].digest = Digest(pending[w].event, pending[w].previous)
       /\ KnownDigest(pending[w].previous, Len(file))
       /\ \A i \in 1..Len(file) : file[i].event # pending[w].event
       /\ \A v \in Writers : v # w /\ pending[v] # NoLine
            => pending[v].event # pending[w].event

\* No two lines of the empty ledger carry the same event.
LEMMA HistoryInit == Init => HistoryInv
BY DEF Init, HistoryInv

\* Every step keeps the events of lines and writers distinct and every
\* line linked to the start or to a line above it.
LEMMA HistoryStep == FileInv /\ HistoryInv /\ [Next]_vars => HistoryInv'
<1> SUFFICES ASSUME FileInv, HistoryInv, [Next]_vars
             PROVE  HistoryInv'
  OBVIOUS
<1>0. Len(file) \in Nat
  BY DomainOfFile
<1>1. ASSUME NEW w \in Writers, ReadLast(w)
      PROVE  HistoryInv'
  <2>1. PICK e \in Events \ issued, c \in Contexts :
           /\ issued' = issued \cup {e} /\ file' = file
           /\ pending'[w] = Line(e, c, LastDigest(file))
           /\ \A v \in Writers : v # w => pending'[v] = pending[v]
    BY <1>1, ReaderDone
  <2>2. KnownDigest(LastDigest(file), Len(file))
    BY LastDigestType DEF FileInv, FileOver, KnownDigest
  <2>3. QED
    BY <1>0, <2>1, <2>2, LineFields DEF HistoryInv, KnownDigest
<1>2. ASSUME NEW w \in Writers, WriteLine(w) \/ WriteFails(w)
      PROVE  HistoryInv'
  <2>1. Keeps(file, file')
    BY <1>2, FileChange
  <2>2. /\ pending[w] # NoLine /\ pending'[w] = NoLine /\ issued' = issued
        /\ \A v \in Writers : v # w => pending'[v] = pending[v]
    BY <1>2, WriterDone
  <2>3. CASE Len(file') = Len(file)
    BY <1>0, <2>1, <2>2, <2>3 DEF HistoryInv, KnownDigest, Keeps
  <2>4. CASE OneMore(file, file', pending[w])
    <3> DEFINE n == Len(file)
    <3>1. /\ Len(file') = n + 1
          /\ file'[n + 1].event = pending[w].event
          /\ file'[n + 1].previous = pending[w].previous
          /\ file'[n + 1].digest = pending[w].digest
      BY <2>4 DEF OneMore
    <3>2. \A d, m : m \in 0..n /\ KnownDigest(d, m) => KnownDigest(d, m)'
      BY <1>0, <2>1, <3>1 DEF KnownDigest, Keeps
    <3>3. ASSUME NEW i \in 1..(n + 1)
          PROVE  /\ file'[i].event \in issued'
                 /\ file'[i].digest = Digest(file'[i].event, file'[i].previous)
                 /\ KnownDigest(file[i].previous, i - 1)'
      <4>1. CASE i = n + 1
        BY <1>0, <2>2, <3>1, <3>2, <4>1 DEF HistoryInv
      <4>2. CASE i # n + 1
        <5>1. i \in 1..n /\ i - 1 \in 0..n
          BY <1>0, <4>2
        <5>2. QED
          BY <2>1, <2>2, <3>2, <5>1 DEF HistoryInv, Keeps
      <4>3. QED
        BY <4>1, <4>2
    <3>4. \A i, j \in 1..(n + 1) : file'[i].event = file'[j].event => i = j
      BY <1>0, <2>1, <2>2, <3>1 DEF HistoryInv, Keeps
    <3>5. ASSUME NEW v \in Writers, pending'[v] # NoLine
          PROVE  /\ pending'[v].event \in issued'
                 /\ pending'[v].digest
                      = Digest(pending'[v].event, pending'[v].previous)
                 /\ KnownDigest(pending[v].previous, Len(file))'
                 /\ \A i \in 1..(n + 1) : file'[i].event # pending'[v].event
                 /\ \A u \in Writers : u # v /\ pending'[u] # NoLine
                      => pending'[u].event # pending'[v].event
      <4>1. v # w /\ pending[v] # NoLine /\ pending'[v] = pending[v]
        BY <2>2, <3>5
      <4>2. KnownDigest(pending[v].previous, n)
        BY <4>1 DEF HistoryInv
      <4>3. KnownDigest(pending[v].previous, Len(file))'
        BY <1>0, <2>1, <3>1, <4>1, <4>2 DEF KnownDigest, Keeps
      <4>4. \A i \in 1..(n + 1) : file'[i].event # pending'[v].event
        BY <1>0, <2>1, <2>2, <3>1, <4>1 DEF HistoryInv, Keeps
      <4>5. QED
        BY <2>2, <4>1, <4>3, <4>4 DEF HistoryInv
    <3>6. QED
      BY <3>1, <3>3, <3>4, <3>5 DEF HistoryInv
  <2>5. QED
    BY <1>2, <2>3, <2>4, FileChange
<1>3. ASSUME Crash
      PROVE  HistoryInv'
  BY <1>3 DEF Crash, HistoryInv, KnownDigest
<1>4. CASE UNCHANGED vars
  BY <1>4 DEF vars, HistoryInv, KnownDigest
<1>5. QED
  BY <1>1, <1>2, <1>3, <1>4 DEF Next, ReadRaises

\* The two invariants about the file hold in every state.
LEMMA History == Spec => [](FileInv /\ HistoryInv)
BY FileInit, FileStep, HistoryInit, HistoryStep, PTL DEF Spec

\* Whatever the writers and the disk do, every line is linked to the start or
\* to a line above it.
THEOREM AlwaysRooted == Spec => []Rooted
<1>1. FileInv /\ HistoryInv => Rooted
  BY DomainOfFile DEF HistoryInv, KnownDigest, Rooted
<1>2. QED
  BY <1>1, History, PTL

-----------------------------------------------------------------------------
(* Forks.  A file in which no two lines are linked to the same digest is a  *)
(* chain: this is where the detection of overlapping appends comes from.    *)

NoFork ==
  \A i, j \in 1..Len(file) : file[i].previous = file[j].previous => i = j

Linear ==
  \A i \in 1..Len(file) :
    file[i].previous = IF i = 1 THEN NoDigest ELSE file[i - 1].digest

ForkInv == NoFork => Linear

\* A line that hangs on any line but the last makes a fork.
LEMMA ForkStep == FileInv /\ HistoryInv /\ ForkInv /\ [Next]_vars => ForkInv'
<1> SUFFICES ASSUME FileInv, HistoryInv, ForkInv, [Next]_vars, NoFork'
             PROVE  Linear'
  BY DEF ForkInv
<1>0. Len(file) \in Nat
  BY DomainOfFile
<1>1. ASSUME NEW w \in Writers, WriteLine(w) \/ WriteFails(w)
      PROVE  Linear'
  <2>1. Keeps(file, file')
    BY <1>1, FileChange
  <2>2. CASE Len(file') = Len(file)
    <3>1. NoFork
      BY <2>1, <2>2 DEF NoFork, Keeps
    <3>2. Linear
      BY <3>1 DEF ForkInv
    <3>3. QED
      BY <1>0, <2>1, <2>2, <3>2 DEF Linear, Keeps
  <2>3. CASE OneMore(file, file', pending[w])
    <3> DEFINE n == Len(file)
    <3>1. Len(file') = n + 1 /\ file'[n + 1].previous = pending[w].previous
      BY <2>3 DEF OneMore
    <3>2. NoFork
      BY <1>0, <2>1, <3>1 DEF NoFork, Keeps
    <3>3. Linear
      BY <3>2 DEF ForkInv
    <3>4. KnownDigest(pending[w].previous, n)
      BY <1>1, WriterDone DEF HistoryInv
    <3>5. file'[n + 1].previous = IF n = 0 THEN NoDigest ELSE file[n].digest
      <4>1. CASE pending[w].previous = NoDigest
        <5>1. CASE n = 0
          BY <3>1, <4>1, <5>1
        <5>2. CASE n # 0
          <6>1. file'[1].previous = file'[n + 1].previous
            BY <1>0, <2>1, <3>1, <3>3, <4>1, <5>2 DEF Linear, Keeps
          <6>2. QED
            BY <1>0, <3>1, <5>2, <6>1 DEF NoFork
        <5>3. QED
          BY <5>1, <5>2
      <4>2. CASE pending[w].previous # NoDigest
        <5>1. PICK j \in 1..n : pending[w].previous = file[j].digest
          BY <3>4, <4>2 DEF KnownDigest
        <5>2. CASE j = n
          BY <1>0, <3>1, <5>1, <5>2
        <5>3. CASE j # n
          <6>1. j + 1 \in 1..n
            BY <1>0, <5>1, <5>3
          <6>2. file'[j + 1].previous = file'[n + 1].previous
            BY <1>0, <2>1, <3>1, <3>3, <5>1, <6>1 DEF Linear, Keeps
          <6>3. QED
            BY <1>0, <3>1, <6>1, <6>2 DEF NoFork
        <5>4. QED
          BY <5>2, <5>3
      <4>3. QED
        BY <4>1, <4>2
    <3>6. ASSUME NEW i \in 1..(n + 1)
          PROVE  file'[i].previous = IF i = 1 THEN NoDigest
                                              ELSE file'[i - 1].digest
      <4>1. CASE i = n + 1
        BY <1>0, <2>1, <3>5, <4>1 DEF Keeps
      <4>2. CASE i # n + 1
        <5>1. i \in 1..n /\ (i # 1 => i - 1 \in 1..n)
          BY <1>0, <4>2
        <5>2. QED
          BY <2>1, <3>3, <5>1 DEF Linear, Keeps
      <4>3. QED
        BY <4>1, <4>2
    <3>7. QED
      BY <3>1, <3>6 DEF Linear
  <2>4. QED
    BY <1>1, <2>2, <2>3, FileChange
<1>2. CASE UNCHANGED file
  BY <1>2 DEF ForkInv, NoFork, Linear
<1>3. QED
  BY <1>1, <1>2 DEF Next, ReadLast, ReadRaises, Crash, vars

\* verify_chain accepts a file of readable lines exactly if it is linear.
LEMMA VerifyMeansLinear ==
  ASSUME FileInv, HistoryInv, \A i \in DOMAIN file : file[i].readable
  PROVE  VerifyChain(file) = "intact" <=> Linear
<1>1. Linear <=> \A i \in DOMAIN file : file[i].readable /\ LinkHolds(file, i)
  BY DomainOfFile DEF HistoryInv, LinkHolds, Linear
<1>2. VerifyChain(file) = "intact"
        <=> \A i \in DOMAIN file : file[i].readable /\ LinkHolds(file, i)
  BY DEF VerifyChain
<1>3. QED
  BY <1>1, <1>2

\* A digest is never the empty one, and tells the event.
LEMMA DigestInjective ==
  \A e, p, d, q : /\ Digest(e, p) # NoDigest
                  /\ Digest(e, p) = Digest(d, q) => e = d
BY DEF Digest, NoDigest

\* In a linear file no two lines are linked to the same one.
LEMMA LinearHasNoFork ==
  ASSUME FileInv, HistoryInv, Linear
  PROVE  NoFork
<1> SUFFICES ASSUME NEW i \in 1..Len(file), NEW j \in 1..Len(file),
                    file[i].previous = file[j].previous
             PROVE  i = j
  BY DEF NoFork
<1>1. ASSUME NEW k \in 1..Len(file), k # 1
      PROVE  k - 1 \in 1..Len(file) /\ file[k].previous = file[k - 1].digest
             /\ file[k - 1].digest # NoDigest
  <2>1. k - 1 \in 1..Len(file) /\ file[k].previous = file[k - 1].digest
    BY <1>1, DomainOfFile DEF Linear
  <2>2. QED
    BY <2>1, DigestInjective DEF HistoryInv
<1>2. CASE i = 1 \/ j = 1
  BY <1>1, <1>2, DomainOfFile DEF Linear
<1>3. CASE i # 1 /\ j # 1
  <2>1. file[i - 1].digest = file[j - 1].digest
    BY <1>1, <1>3
  <2>2. file[i - 1].event = file[j - 1].event
    BY <1>1, <1>3, <2>1, DigestInjective DEF HistoryInv
  <2>3. i - 1 = j - 1
    BY <1>1, <1>3, <2>2 DEF HistoryInv
  <2>4. QED
    BY <2>3, DomainOfFile
<1>4. QED
  BY <1>2, <1>3

\* While every line is readable, verify_chain accepts the file exactly if no
\* two lines are linked to the same one: it misses no fork and invents none.
THEOREM ForksAreDetected == Spec => []ForksDetected
<1>1. Init => ForkInv
  BY DEF Init, ForkInv, NoFork, Linear
<1>2. Spec => [](FileInv /\ HistoryInv /\ ForkInv)
  BY <1>1, FileInit, FileStep, HistoryInit, HistoryStep, ForkStep, PTL DEF Spec
<1>3. FileInv /\ HistoryInv /\ ForkInv => ForksDetected
  <2> SUFFICES ASSUME FileInv, HistoryInv, ForkInv,
                      \A i \in DOMAIN file : file[i].readable
               PROVE  VerifyChain(file) = "intact"
                        <=> \A i, j \in DOMAIN file :
                              file[i].previous = file[j].previous => i = j
    BY DEF ForksDetected
  <2>1. NoFork <=> Linear
    BY LinearHasNoFork DEF ForkInv
  <2>2. QED
    BY <2>1, VerifyMeansLinear, DomainOfFile DEF NoFork
<1>4. QED
  BY <1>2, <1>3, PTL

-----------------------------------------------------------------------------
(* Counters, ids and pending lines.                                         *)

CountInv ==
  /\ faults \in 0..MaxFaults
  /\ issued \subseteq Events
  /\ returned \subseteq issued
  /\ \A w \in Writers : pending[w] # NoLine =>
       pending[w] = Line(pending[w].event, pending[w].context, pending[w].previous)

\* The empty ledger has drawn and returned nothing.
LEMMA CountInit == Init => CountInv
BY LedgerAssumption DEF Init, CountInv

\* A pending line is whole until it is written; only drawn ids are returned.
LEMMA CountStep == FileInv /\ HistoryInv /\ CountInv /\ [Next]_vars => CountInv'
<1> SUFFICES ASSUME FileInv, HistoryInv, CountInv, [Next]_vars
             PROVE  CountInv'
  OBVIOUS
<1>1. ASSUME NEW w \in Writers, ReadLast(w)
      PROVE  CountInv'
  <2>1. PICK p : p = LastDigest(file)
    OBVIOUS
  <2>2. PICK e \in Events \ issued, c \in Contexts :
           /\ issued' = issued \cup {e}
           /\ pending'[w] = Line(e, c, p)
           /\ \A v \in Writers : v # w => pending'[v] = pending[v]
    BY <1>1, <2>1, ReaderDone
  <2>3. returned' = returned /\ faults' = faults
    BY <1>1 DEF ReadLast
  <2>4. pending'[w]
          = Line(pending'[w].event, pending'[w].context, pending'[w].previous)
    BY <2>2, LineFields
  <2>5. QED
    BY <2>2, <2>3, <2>4 DEF CountInv
<1>2. ASSUME NEW w \in Writers, WriteLine(w) \/ WriteFails(w)
      PROVE  CountInv'
  <2>1. /\ pending[w] # NoLine /\ pending'[w] = NoLine /\ issued' = issued
        /\ \A v \in Writers : v # w => pending'[v] = pending[v]
    BY <1>2, WriterDone
  <2>2. returned' \subseteq issued
    BY <1>2, <2>1 DEF WriteLine, WriteFails, CountInv, HistoryInv
  <2>3. faults' \in 0..MaxFaults
    BY <1>2, LedgerAssumption DEF WriteLine, WriteFails, CountInv
  <2>4. QED
    BY <2>1, <2>2, <2>3 DEF CountInv
<1>3. ASSUME Crash
      PROVE  CountInv'
  BY <1>3 DEF Crash, CountInv
<1>4. CASE UNCHANGED vars
  BY <1>4 DEF vars, CountInv
<1>5. QED
  BY <1>1, <1>2, <1>3, <1>4 DEF Next, ReadRaises

\* The shape of the file and of the writers' state, whatever the interleaving.
THEOREM Typing == Spec => []TypeOK
<1>1. FileInv /\ HistoryInv /\ CountInv => TypeOK
  <2> SUFFICES ASSUME FileInv, HistoryInv, CountInv
               PROVE  TypeOK
    OBVIOUS
  <2>1. PICK S : FileOver(S)
    BY DEF FileInv
  <2>2. ASSUME NEW i \in DOMAIN file
        PROVE  /\ file[i].event \in issued /\ file[i].context \in Contexts
               /\ file[i].digest = Digest(file[i].event, file[i].previous)
               /\ file[i].readable \in BOOLEAN /\ file[i].ended \in BOOLEAN
    <3>1. i \in 1..Len(file)
      BY DomainOfFile
    <3>2. file[i] \in LineOver(S)
      BY <2>1, <3>1 DEF FileOver
    <3>3. /\ file[i].context \in Contexts
          /\ file[i].readable \in BOOLEAN /\ file[i].ended \in BOOLEAN
      BY <3>2 DEF LineOver
    <3>4. QED
      BY <3>1, <3>3 DEF HistoryInv
  <2>3. ASSUME NEW w \in Writers, pending[w] # NoLine
        PROVE  \E e \in issued, c \in Contexts, p \in Digests :
                 pending[w] = Line(e, c, p)
    <3>1. pending[w].event \in issued /\ KnownDigest(pending[w].previous, Len(file))
      BY <2>3 DEF HistoryInv
    <3>2. pending[w].previous \in Digests
      BY <3>1, DomainOfFile DEF KnownDigest, Digests
    <3>3. pending[w]
            = Line(pending[w].event, pending[w].context, pending[w].previous)
      BY <2>3 DEF CountInv
    <3>4. pending[w].context \in Contexts
      BY <2>1, <2>3 DEF FileOver, LineOver
    <3>5. QED
      BY <3>1, <3>2, <3>3, <3>4
  <2>4. QED
    BY <2>2, <2>3 DEF TypeOK, CountInv
<1>2. QED
  BY <1>1, CountInit, CountStep, FileInit, FileStep, HistoryInit, HistoryStep,
     PTL DEF Spec

-----------------------------------------------------------------------------
(* Appends that overlap, as long as no write fails.                         *)

Logged(e) == \E i \in 1..Len(file) : file[i].event = e

CleanInv ==
  faults = 0 => /\ \A i \in 1..Len(file) : file[i].readable /\ file[i].ended
                /\ \A e \in returned : Logged(e)

\* Appending a line at the end.
LEMMA AppendedLine ==
  ASSUME FileInv, NEW line, file' = Append(file, line)
  PROVE  /\ Len(file') = Len(file) + 1
         /\ file'[Len(file) + 1] = line
         /\ \A i \in 1..Len(file) : file'[i] = file[i]
<1>1. PICK S : file \in Seq(S)
  BY DEF FileInv, FileOver
<1>2. PICK T : S \subseteq T /\ line \in T
  <2>1. S \subseteq S \cup {line} /\ line \in S \cup {line}
    OBVIOUS
  <2>2. QED
    BY <2>1
<1>3. file \in Seq(T)
  BY <1>1, <1>2, SeqMonotonic
<1>4. QED
  BY <1>2, <1>3

\* While no write has failed, a write that succeeds appends a whole line.
LEMMA CleanWrite ==
  ASSUME FileInv, CountInv, CleanInv, faults = 0,
         NEW w \in Writers, WriteLine(w)
  PROVE  /\ file' = Append(file, pending[w])
         /\ pending[w].readable /\ pending[w].ended
<1>1. file = <<>> \/ file[Len(file)].ended
  <2>1. CASE Len(file) = 0
    BY <2>1 DEF FileInv, FileOver
  <2>2. CASE Len(file) # 0
    BY <2>2, DomainOfFile DEF CleanInv
  <2>3. QED
    BY <2>1, <2>2
<1>2. pending[w] = Line(pending[w].event, pending[w].context, pending[w].previous)
  BY DEF WriteLine, CountInv
<1>3. QED
  BY <1>1, <1>2, LineFields DEF WriteLine, Written

\* Reads, whole writes and crashes leave every returned event in the file.
LEMMA CleanStep ==
  FileInv /\ CountInv /\ CleanInv /\ [Next]_vars => CleanInv'
<1> SUFFICES ASSUME FileInv, CountInv, CleanInv, [Next]_vars, faults' = 0
             PROVE  CleanInv'
  BY DEF CleanInv
<1>1. ASSUME NEW w \in Writers, WriteLine(w)
      PROVE  CleanInv'
  <2>1. faults = 0
    BY <1>1 DEF WriteLine
  <2>2. /\ file' = Append(file, pending[w])
        /\ pending[w].readable /\ pending[w].ended
    BY <1>1, <2>1, CleanWrite
  <2>3. /\ Len(file') = Len(file) + 1
        /\ file'[Len(file) + 1] = pending[w]
        /\ \A i \in 1..Len(file) : file'[i] = file[i]
    BY <2>2, AppendedLine
  <2>4. Len(file) \in Nat
    BY DomainOfFile
  <2>5. \A i \in 1..Len(file') : file'[i].readable /\ file'[i].ended
    BY <2>1, <2>2, <2>3, <2>4 DEF CleanInv
  <2>6. ASSUME NEW e \in returned'
        PROVE  Logged(e)'
    <3>1. CASE e = pending[w].event
      BY <2>3, <2>4, <3>1 DEF Logged
    <3>2. CASE e # pending[w].event
      <4>1. e \in returned
        BY <1>1, <3>2 DEF WriteLine
      <4>2. PICK i \in 1..Len(file) : file[i].event = e
        BY <2>1, <4>1 DEF CleanInv, Logged
      <4>3. i \in 1..Len(file') /\ file'[i].event = e
        BY <2>3, <2>4, <4>2
      <4>4. QED
        BY <4>3 DEF Logged
    <3>3. QED
      BY <3>1, <3>2
  <2>7. QED
    BY <2>5, <2>6 DEF CleanInv
<1>2. ASSUME NEW w \in Writers, WriteFails(w)
      PROVE  FALSE
  BY <1>2, LedgerAssumption DEF WriteFails, CountInv
<1>3. CASE UNCHANGED <<file, returned, faults>>
  BY <1>3 DEF CleanInv, Logged
<1>4. QED
  BY <1>1, <1>2, <1>3 DEF Next, ReadLast, ReadRaises, Crash, vars

\* Returned events stay in the file until a write fails.
LEMMA Clean == Spec => [](FileInv /\ HistoryInv /\ CountInv /\ CleanInv)
<1>1. Init => CleanInv
  BY DEF Init, CleanInv
<1>2. QED
  BY <1>1, FileInit, FileStep, HistoryInit, HistoryStep, CountInit, CountStep,
     CleanStep, PTL DEF Spec

\* Overlapping appends and crashes alone lose nothing that append returned:
\* each such event is on exactly one line, and that line can be read.
THEOREM RacesLoseNothingHolds == Spec => []RacesLoseNothing
<1>1. FileInv /\ HistoryInv /\ CleanInv => RacesLoseNothing
  <2> SUFFICES ASSUME FileInv, HistoryInv, CleanInv, faults = 0,
                      NEW e \in returned
               PROVE  \E i \in DOMAIN file :
                        /\ file[i].event = e /\ file[i].readable
                        /\ \A j \in DOMAIN file : file[j].event = e => j = i
    BY DEF RacesLoseNothing, ReturnedEventsLogged
  <2>1. PICK i \in 1..Len(file) : file[i].event = e
    BY DEF CleanInv, Logged
  <2>2. file[i].readable
    BY <2>1 DEF CleanInv
  <2>3. \A j \in 1..Len(file) : file[j].event = e => j = i
    BY <2>1 DEF HistoryInv
  <2>4. QED
    BY <2>1, <2>2, <2>3, DomainOfFile
<1>2. QED
  BY <1>1, Clean, PTL

-----------------------------------------------------------------------------
(* One append at a time, with any number of failing writes and crashes.     *)
(* The digest a writer has read is still the last one when it writes, and   *)
(* only the last line can be damaged.                                       *)

SerialInv ==
  /\ OnlyLastDamaged
  /\ Linear
  /\ \A w \in Writers : pending[w] # NoLine =>
       /\ pending[w].previous = LastDigest(file)
       /\ LastReadable(file)
       /\ \A v \in Writers : pending[v] # NoLine => v = w

\* A write leaves all lines alone but the last, and that one if it has a
\* newline.
LEMMA OnlyTailChanges ==
  ASSUME NEW S, NEW f \in Seq(LineOver(S)), NEW line \in LineOver(S)
  PROVE  LET g == Written(f, line)
         IN  /\ \A i \in 1..(Len(f) - 1) : g[i] = f[i]
             /\ Len(g) = Len(f) + 1 =>
                  /\ \A i \in 1..Len(f) : g[i] = f[i]
                  /\ Len(f) # 0 => f[Len(f)].ended
<1>1. CASE f = <<>> \/ f[Len(f)].ended
  BY <1>1 DEF Written
<1>2. CASE ~(f = <<>> \/ f[Len(f)].ended)
  BY <1>2 DEF Written
<1>3. QED
  BY <1>1, <1>2

\* The same of a step that writes.
LEMMA TailStep ==
  ASSUME FileInv, NEW w \in Writers, WriteLine(w) \/ WriteFails(w)
  PROVE  /\ \A i \in 1..(Len(file) - 1) : file'[i] = file[i]
         /\ Len(file') = Len(file) + 1 =>
              /\ \A i \in 1..Len(file) : file'[i] = file[i]
              /\ Len(file) # 0 => file[Len(file)].ended
<1>1. PICK S : FileOver(S)
  BY DEF FileInv
<1>2. CASE file' = file
  <2>1. Len(file) \in Nat
    BY DomainOfFile
  <2>2. Len(file') # Len(file) + 1
    BY <1>2, <2>1
  <2>3. QED
    BY <1>2, <2>2
<1>3. CASE file' # file
  <2>1. PICK line \in LineOver(S) : file' = Written(file, line)
    BY <1>1, <1>3, WriterStep
  <2>2. file \in Seq(LineOver(S))
    BY <1>1 DEF FileOver
  <2>3. QED
    BY <2>1, <2>2, OnlyTailChanges
<1>4. QED
  BY <1>2, <1>3

\* The last digest is the digest of the last line.
LEMMA LastDigestOf ==
  ASSUME FileInv
  PROVE  /\ LastDigest(file) = IF Len(file) = 0 THEN NoDigest
                                                ELSE file[Len(file)].digest
         /\ LastReadable(file) /\ Len(file) # 0 => file[Len(file)].readable
<1>1. file = <<>> <=> Len(file) = 0
  BY DEF FileInv, FileOver
<1>2. QED
  BY <1>1 DEF LastDigest, LastReadable

\* The empty ledger is linear.
LEMMA SerialInit == Init => SerialInv
BY DEF Init, SerialInv, Linear, OnlyLastDamaged

\* When appends do not overlap, every step keeps the file linear and the
\* damage at its end.
LEMMA SerialStep ==
  ASSUME Serial, FileInv, SerialInv, [Next]_vars
  PROVE  SerialInv'
<1>0. Len(file) \in Nat
  BY DomainOfFile
<1>1. ASSUME NEW w \in Writers, ReadLast(w)
      PROVE  SerialInv'
  <2>1. PICK e \in Events \ issued, c \in Contexts :
           /\ file' = file /\ pending'[w] = Line(e, c, LastDigest(file))
           /\ \A v \in Writers : v # w => pending'[v] = pending[v]
    BY <1>1, ReaderDone
  <2>2. /\ \A v \in Writers : pending[v] = NoLine
        /\ LastReadable(file)
    BY <1>1 DEF ReadLast
  <2>3. pending'[w].previous = LastDigest(file')
    BY <2>1, LineFields
  <2>4. QED
    BY <2>1, <2>2, <2>3 DEF SerialInv, Linear, OnlyLastDamaged, LastReadable
<1>2. ASSUME NEW w \in Writers, WriteLine(w) \/ WriteFails(w)
      PROVE  SerialInv'
  <2> DEFINE n == Len(file)
  <2>1. /\ pending[w] # NoLine /\ pending'[w] = NoLine
        /\ \A v \in Writers : v # w => pending'[v] = pending[v]
    BY <1>2, WriterDone
  <2>2. \A v \in Writers : pending'[v] = NoLine
    BY <2>1 DEF SerialInv
  <2>3. /\ pending[w].previous = IF n = 0 THEN NoDigest ELSE file[n].digest
        /\ n # 0 => file[n].readable
    BY <2>1, LastDigestOf DEF SerialInv
  <2>4. Keeps(file, file')
    BY <1>2, FileChange
  <2>5. CASE Len(file') = n
    <3>1. Linear'
      BY <1>0, <2>4, <2>5 DEF Linear, Keeps, SerialInv
    <3>2. OnlyLastDamaged'
      BY <1>2, <2>5, TailStep DEF OnlyLastDamaged, SerialInv
    <3>3. QED
      BY <2>2, <3>1, <3>2 DEF SerialInv
  <2>6. CASE OneMore(file, file', pending[w])
    <3>1. Len(file') = n + 1 /\ file'[n + 1].previous = pending[w].previous
      BY <2>6 DEF OneMore
    <3>2. /\ \A i \in 1..n : file'[i] = file[i]
          /\ n # 0 => file[n].ended
      BY <1>2, <3>1, TailStep
    <3>3. Linear'
      BY <1>0, <2>3, <3>1, <3>2 DEF Linear, SerialInv
    <3>4. OnlyLastDamaged'
      <4> SUFFICES ASSUME NEW i \in 1..n
                   PROVE  file[i].readable /\ file[i].ended
        BY <1>0, <3>1, <3>2 DEF OnlyLastDamaged
      <4>1. CASE i = n
        BY <1>0, <2>3, <3>2, <4>1
      <4>2. CASE i # n
        BY <1>0, <4>2 DEF OnlyLastDamaged, SerialInv
      <4>3. QED
        BY <4>1, <4>2
    <3>5. QED
      BY <2>2, <3>3, <3>4 DEF SerialInv
  <2>7. QED
    BY <1>2, <2>5, <2>6, FileChange
<1>3. ASSUME Crash
      PROVE  SerialInv'
  BY <1>3 DEF Crash, SerialInv, Linear, OnlyLastDamaged
<1>4. CASE UNCHANGED vars
  BY <1>4 DEF vars, SerialInv, Linear, OnlyLastDamaged, LastReadable
<1>5. QED
  BY <1>1, <1>2, <1>3, <1>4 DEF Next, ReadRaises

\* Without overlap the serial invariant holds in every state.
LEMMA SerialHistory ==
  ASSUME Serial
  PROVE  Spec => [](FileInv /\ HistoryInv /\ CleanInv /\ SerialInv)
<1>1. FileInv /\ SerialInv /\ [Next]_vars => SerialInv'
  BY SerialStep
<1>2. Spec => [](FileInv /\ SerialInv)
  BY <1>1, FileInit, FileStep, SerialInit, PTL DEF Spec
<1>3. QED
  BY <1>2, Clean, PTL

\* When appends do not overlap, the file passes verify_chain until a write
\* fails, crashes included.
THEOREM SerialChainVerifies ==
  ASSUME Serial
  PROVE  Spec => []ChainVerifies
<1>1. FileInv /\ HistoryInv /\ CleanInv /\ SerialInv => ChainVerifies
  BY VerifyMeansLinear, DomainOfFile DEF CleanInv, SerialInv, ChainVerifies
<1>2. QED
  BY <1>1, SerialHistory, PTL

\* When appends do not overlap, only the last line is ever damaged.
THEOREM OnlyLastDamagedHolds ==
  ASSUME Serial
  PROVE  Spec => []OnlyLastDamaged
<1>1. SerialInv => OnlyLastDamaged
  BY DEF SerialInv
<1>2. QED
  BY <1>1, SerialHistory, PTL

\* When appends do not overlap, nothing is recorded behind a last line that
\* cannot be read.
THEOREM StopsAtDamageHolds ==
  ASSUME Serial
  PROVE  Spec => StopsAtDamage
<1>1. FileInv /\ SerialInv /\ [Next]_vars
        => [file # <<>> /\ ~file[Len(file)].readable => file' = file]_vars
  <2> SUFFICES ASSUME FileInv, SerialInv, [Next]_vars,
                      file # <<>>, ~file[Len(file)].readable
               PROVE  file' = file
    OBVIOUS
  <2>1. \A w \in Writers : pending[w] = NoLine
    BY DEF SerialInv, LastReadable
  <2>2. QED
    BY <2>1 DEF Next, ReadLast, ReadRaises, WriteLine, WriteFails, Crash, vars
<1>2. QED
  BY <1>1, SerialHistory, PTL DEF Spec, StopsAtDamage

\* A sequence with one more element, as a function.
LEMMA AppendAsFunction ==
  ASSUME NEW A, NEW s \in Seq(A), NEW x
  PROVE  Append(s, x) =
           [i \in 1..(Len(s) + 1) |-> IF i \in 1..Len(s) THEN s[i] ELSE x]
<1> DEFINE n == Len(s)
           f == [i \in 1..(n + 1) |-> IF i \in 1..n THEN s[i] ELSE x]
<1>1. PICK T : A \subseteq T /\ x \in T
  <2>1. A \subseteq A \cup {x} /\ x \in A \cup {x}
    OBVIOUS
  <2>2. QED
    BY <2>1
<1>2. s \in Seq(T) /\ n \in Nat
  BY <1>1, SeqMonotonic
<1>3. /\ Append(s, x) \in Seq(T)
      /\ Len(Append(s, x)) = n + 1
      /\ Append(s, x)[n + 1] = x
      /\ \A i \in 1..n : Append(s, x)[i] = s[i]
  BY <1>1, <1>2
<1>4. Append(s, x) = [i \in 1..(n + 1) |-> Append(s, x)[i]]
  <2>1. Append(s, x) \in [1..(n + 1) -> T]
    BY <1>3, LenProperties
  <2>2. QED
    BY <2>1
<1>5. \A i \in 1..(n + 1) : Append(s, x)[i] = IF i \in 1..n THEN s[i] ELSE x
  BY <1>2, <1>3
<1>6. QED
  BY <1>4, <1>5

\* The step from file to file with one more line is a step of the hash chain.
LEMMA AppendIsLog ==
  ASSUME FileInv, NEW e \in Events,
         \A i \in 1..Len(file) : file[i].event # e,
         Keeps(file, file'), NEW line, OneMore(file, file', line),
         line.event = e, line.previous = LastDigest(file),
         line.digest = Digest(e, LastDigest(file))
  PROVE  Chain!Next
<1> DEFINE n == Len(file)
           link == Chain!Link(e, Chain!LastDigest(Links))
<1>0. n \in Nat
  BY DomainOfFile
<1>1. PICK A : \A i \in 1..n : Links[i] \in A
  <2>1. \A i \in 1..n : Links[i] \in {Links[j] : j \in 1..n}
    OBVIOUS
  <2>2. QED
    BY <2>1
<1>2. Links \in Seq(A) /\ Len(Links) = n /\ DOMAIN Links = 1..n
  <2>1. Links \in [1..n -> A]
    BY <1>1 DEF Links
  <2>2. QED
    BY <1>0, <2>1
<1>3. LastDigest(file) = Chain!LastDigest(Links)
  <2>1. CASE n = 0
    <3>1. file = <<>> /\ Links = <<>>
      BY <1>2, <2>1 DEF FileInv, FileOver
    <3>2. QED
      BY <3>1 DEF LastDigest, Chain!LastDigest, NoDigest, Chain!NoDigest
  <2>2. CASE n # 0
    <3>1. file # <<>> /\ Links # <<>> /\ n \in 1..n
      BY <1>0, <1>2, <2>2
    <3>2. Links[n].digest = file[n].digest
      BY <3>1 DEF Links
    <3>3. QED
      BY <1>2, <3>1, <3>2 DEF LastDigest, Chain!LastDigest
  <2>3. QED
    BY <2>1, <2>2
<1>4. link = [event |-> e, previous |-> LastDigest(file),
              digest |-> Digest(e, LastDigest(file))]
  BY <1>3 DEF Chain!Link, Chain!Digest, Digest
<1>5. /\ Len(file') = n + 1
      /\ file'[n + 1].event = e
      /\ file'[n + 1].previous = LastDigest(file)
      /\ file'[n + 1].digest = Digest(e, LastDigest(file))
      /\ \A i \in 1..n : /\ file'[i].event = file[i].event
                         /\ file'[i].previous = file[i].previous
                         /\ file'[i].digest = file[i].digest
  BY DEF Keeps, OneMore
<1>6. Links' = Append(Links, link)
  <2>1. Links' = [i \in 1..(n + 1) |->
                    [event |-> file'[i].event, previous |-> file'[i].previous,
                     digest |-> file'[i].digest]]
    BY <1>5 DEF Links
  <2>2. Append(Links, link) = [i \in 1..(n + 1) |->
                                 IF i \in 1..n THEN Links[i] ELSE link]
    BY <1>2, AppendAsFunction
  <2>3. ASSUME NEW i \in 1..(n + 1)
        PROVE  [event |-> file'[i].event, previous |-> file'[i].previous,
                digest |-> file'[i].digest]
                 = IF i \in 1..n THEN Links[i] ELSE link
    <3>1. CASE i \in 1..n
      BY <1>5, <3>1 DEF Links
    <3>2. CASE i = n + 1
      BY <1>0, <1>4, <1>5, <3>2
    <3>3. QED
      BY <1>0, <3>1, <3>2
  <2>4. QED
    BY <2>1, <2>2, <2>3
<1>7. \A i \in DOMAIN Links : Links[i].event # e
  BY <1>2 DEF Links
<1>8. Chain!Log(e)
  BY <1>6, <1>7 DEF Chain!Log
<1>9. QED
  BY <1>8 DEF Chain!Next

\* When appends do not overlap, the ledger is a hash chain, whatever writes
\* fail.
THEOREM SerialIsHashChain ==
  ASSUME Serial
  PROVE  Spec => IsHashChain
<1>1. Init => Chain!Init
  BY DEF Init, Chain!Init, Links
<1>2. FileInv /\ HistoryInv /\ SerialInv /\ [Next]_vars => [Chain!Next]_Links
  <2> SUFFICES ASSUME FileInv, HistoryInv, SerialInv, [Next]_vars
               PROVE  Chain!Next \/ UNCHANGED Links
    OBVIOUS
  <2>1. ASSUME NEW w \in Writers, WriteLine(w) \/ WriteFails(w)
        PROVE  Chain!Next \/ UNCHANGED Links
    <3>1. Keeps(file, file')
      BY <2>1, FileChange
    <3>2. CASE Len(file') = Len(file)
      BY <3>1, <3>2 DEF Keeps, Links
    <3>3. CASE OneMore(file, file', pending[w])
      <4>1. pending[w] # NoLine
        BY <2>1, WriterDone
      <4>2. /\ pending[w].event \in Events
            /\ \A i \in 1..Len(file) : file[i].event # pending[w].event
            /\ pending[w].digest = Digest(pending[w].event, LastDigest(file))
            /\ pending[w].previous = LastDigest(file)
        <5>1. pending[w].event \in Events
          BY <4>1 DEF FileInv, FileOver, LineOver
        <5>2. QED
          BY <4>1, <5>1 DEF HistoryInv, SerialInv
      <4>3. QED
        BY <3>1, <3>3, <4>2, AppendIsLog
    <3>4. QED
      BY <2>1, <3>2, <3>3, FileChange
  <2>2. CASE UNCHANGED file
    BY <2>2 DEF Links
  <2>3. QED
    BY <2>1, <2>2 DEF Next, ReadLast, ReadRaises, Crash, vars
<1>3. QED
  BY <1>1, <1>2, SerialHistory, PTL
     DEF Spec, IsHashChain, Chain!Spec

-----------------------------------------------------------------------------
(* What verify_chain and the append-only file are good for.                 *)

\* A digest tells the event and what it is linked to.
LEMMA DigestTells ==
  \A e, p, d, q : /\ Digest(e, p) # NoDigest
                  /\ Digest(e, p) = Digest(d, q) => e = d /\ p = q
BY DEF Digest, NoDigest

\* A file that passes: every line is readable and linked to the one above it.
LEMMA IntactMeansLinked ==
  ASSUME NEW S, NEW f \in Seq(S), VerifyChain(f) = "intact"
  PROVE  \A i \in 1..Len(f) :
           /\ f[i].readable /\ f[i].digest = Digest(f[i].event, f[i].previous)
           /\ f[i].previous = IF i = 1 THEN NoDigest ELSE f[i - 1].digest
<1>1. \A i \in DOMAIN f : f[i].readable /\ LinkHolds(f, i)
  BY DEF VerifyChain
<1>2. QED
  BY <1>1 DEF LinkHolds

\* Two files that pass and end in the same digest agree from the end backwards,
\* as far as both go: the nearest place where they would not is no such place.
LEMMA AgreeFromTheEnd ==
  ASSUME NEW S, NEW f \in Seq(S), VerifyChain(f) = "intact",
         NEW T, NEW g \in Seq(T), VerifyChain(g) = "intact",
         LastDigest(f) = LastDigest(g)
  PROVE  \A k \in Nat : k < Len(f) /\ k < Len(g) =>
           f[Len(f) - k].digest = g[Len(g) - k].digest
<1> DEFINE Differ == {k \in Nat : /\ k < Len(f) /\ k < Len(g)
                                  /\ f[Len(f) - k].digest # g[Len(g) - k].digest}
<1>1. Len(f) \in Nat /\ Len(g) \in Nat
  OBVIOUS
<1>2. ASSUME Differ # {}
      PROVE  FALSE
  <2>1. PICK k \in Differ : \A j \in Differ : k <= j
    <3> HIDE DEF Differ
    <3>1. Differ \subseteq Nat
      BY DEF Differ
    <3>2. QED
      BY <1>2, <3>1, LeastNatural
  <2>2. /\ k \in Nat /\ k < Len(f) /\ k < Len(g)
        /\ f[Len(f) - k].digest # g[Len(g) - k].digest
    OBVIOUS
  <2>3. CASE k = 0
    <3>1. f # <<>> /\ g # <<>> /\ Len(f) - k = Len(f) /\ Len(g) - k = Len(g)
      BY <1>1, <2>2, <2>3
    <3>2. f[Len(f)].digest = g[Len(g)].digest
      BY <3>1 DEF LastDigest
    <3>3. QED
      BY <2>2, <3>1, <3>2
  <2>4. CASE k # 0
    <3> DEFINE i == Len(f) - k
               j == Len(g) - k
    <3>1. /\ k - 1 \in Nat /\ k - 1 < Len(f) /\ k - 1 < Len(g) /\ ~(k <= k - 1)
          /\ i \in Nat /\ i + 1 \in 1..Len(f) /\ i + 1 # 1 /\ Len(f) - (k - 1) = i + 1
          /\ j \in Nat /\ j + 1 \in 1..Len(g) /\ j + 1 # 1 /\ Len(g) - (k - 1) = j + 1
      BY <1>1, <2>2, <2>4
    <3>2. f[i].digest # g[j].digest
      BY <2>2
    <3>3. f[Len(f) - (k - 1)].digest = g[Len(g) - (k - 1)].digest
      BY <2>1, <3>1
    <3> HIDE DEF i, j
    <3>4. f[i + 1].digest = g[j + 1].digest
      BY <3>1, <3>3
    <3>5. f[i + 1].digest = Digest(f[i + 1].event, f[i].digest)
      BY <3>1, IntactMeansLinked
    <3>6. g[j + 1].digest = Digest(g[j + 1].event, g[j].digest)
      BY <3>1, IntactMeansLinked
    <3>7. Digest(f[i + 1].event, f[i].digest) = Digest(g[j + 1].event, g[j].digest)
      BY <3>4, <3>5, <3>6
    <3>8. f[i].digest = g[j].digest
      BY <3>7, DigestTells
    <3>9. QED
      BY <3>2, <3>8
  <2>5. QED
    BY <2>3, <2>4
<1>3. QED
  BY <1>2

\* A longer file cannot end in the digest of a shorter one.
LEMMA NoLonger ==
  ASSUME NEW S, NEW f \in Seq(S), VerifyChain(f) = "intact",
         NEW T, NEW g \in Seq(T), VerifyChain(g) = "intact",
         LastDigest(f) = LastDigest(g)
  PROVE  ~(Len(f) < Len(g))
<1> SUFFICES ASSUME Len(f) < Len(g)
             PROVE  FALSE
  OBVIOUS
<1> DEFINE j == Len(g) - Len(f)
<1>1. Len(f) \in Nat /\ Len(g) \in Nat /\ j \in 1..Len(g)
  OBVIOUS
<1>2. \A k \in 1..Len(g) : g[k].digest # NoDigest
  BY IntactMeansLinked, DigestTells
<1>3. CASE Len(f) = 0
  <2>1. f = <<>> /\ g # <<>> /\ Len(g) \in 1..Len(g)
    BY <1>1, <1>3
  <2>2. LastDigest(f) = NoDigest /\ LastDigest(g) = g[Len(g)].digest
    BY <2>1 DEF LastDigest
  <2>3. QED
    BY <1>2, <2>1, <2>2
<1>4. CASE Len(f) # 0
  <2>1. /\ Len(f) - 1 \in Nat /\ Len(f) - 1 < Len(f) /\ Len(f) - 1 < Len(g)
        /\ Len(f) - (Len(f) - 1) = 1 /\ Len(g) - (Len(f) - 1) = j + 1
        /\ j + 1 \in 1..Len(g) /\ j + 1 # 1 /\ 1 \in 1..Len(f)
    BY <1>1, <1>4
  <2>2. f[1].digest = g[j + 1].digest
    BY <2>1, AgreeFromTheEnd
  <2> HIDE DEF j
  <2>3. f[1].digest = Digest(f[1].event, NoDigest)
    BY <2>1, IntactMeansLinked
  <2>4. g[j + 1].digest = Digest(g[j + 1].event, g[j].digest)
    BY <1>1, <2>1, IntactMeansLinked
  <2>5. Digest(f[1].event, NoDigest) = Digest(g[j + 1].event, g[j].digest)
    BY <2>2, <2>3, <2>4
  <2>6. g[j].digest = NoDigest
    BY <2>5, DigestTells
  <2>7. QED
    BY <1>1, <1>2, <2>6
<1>5. QED
  BY <1>3, <1>4

\* Tampering with what the digests cover shows: the files that pass verify_chain
\* and end in a given digest have the same number of lines, and line by line the
\* same event (event_id, payload, event_type and correlation_id) and the same
\* link.  Whoever kept the last digest knows these, and their order.
THEOREM TamperEvident ==
  ASSUME NEW S, NEW f \in Seq(S), VerifyChain(f) = "intact",
         NEW T, NEW g \in Seq(T), VerifyChain(g) = "intact",
         LastDigest(f) = LastDigest(g)
  PROVE  /\ Len(f) = Len(g)
         /\ \A i \in 1..Len(f) : /\ f[i].event = g[i].event
                                 /\ f[i].previous = g[i].previous
                                 /\ f[i].digest = g[i].digest
<1>1. Len(f) \in Nat /\ Len(g) \in Nat
  OBVIOUS
<1>2. Len(f) = Len(g)
  <2>1. ~(Len(f) < Len(g)) /\ ~(Len(g) < Len(f))
    BY NoLonger
  <2>2. QED
    BY <1>1, <2>1
<1>3. ASSUME NEW i \in 1..Len(f)
      PROVE  f[i].digest = g[i].digest
  <2>1. /\ Len(f) - i \in Nat /\ Len(f) - i < Len(f) /\ Len(f) - i < Len(g)
        /\ Len(f) - (Len(f) - i) = i /\ Len(g) - (Len(f) - i) = i
    BY <1>1, <1>2
  <2>2. QED
    BY <2>1, AgreeFromTheEnd
<1>4. ASSUME NEW i \in 1..Len(f)
      PROVE  f[i].event = g[i].event /\ f[i].previous = g[i].previous
  <2>1. /\ f[i].digest = Digest(f[i].event, f[i].previous)
        /\ g[i].digest = Digest(g[i].event, g[i].previous)
    BY <1>2, IntactMeansLinked
  <2>2. QED
    BY <1>3, <2>1, DigestTells
<1>5. QED
  BY <1>2, <1>3, <1>4

\* The file f with other contexts in its lines.
Recontexted(f, contexts) ==
  [i \in 1..Len(f) |-> [f[i] EXCEPT !.context = contexts[i]]]

\* What does not show: any change to the contexts.  Actor, task, action and
\* timestamp are in no digest, so a file in which only they are replaced, by
\* whatever, gets the same answer from verify_chain and ends in the same digest.
THEOREM ContextEditPasses ==
  ASSUME NEW S, NEW f \in Seq(LineOver(S)),
         NEW contexts \in [1..Len(f) -> Contexts]
  PROVE  LET g == Recontexted(f, contexts)
         IN  /\ g \in Seq(LineOver(S)) /\ Len(g) = Len(f)
             /\ \A i \in 1..Len(f) : g[i].context = contexts[i]
             /\ VerifyChain(g) = VerifyChain(f)
             /\ LastDigest(g) = LastDigest(f)
<1> DEFINE n == Len(f)
           g == Recontexted(f, contexts)
<1>1. n \in Nat /\ DOMAIN f = 1..n /\ DOMAIN g = 1..n
  BY DEF Recontexted
<1>2. ASSUME NEW i \in 1..n
      PROVE  /\ g[i] \in LineOver(S) /\ g[i].context = contexts[i]
             /\ g[i].event = f[i].event /\ g[i].previous = f[i].previous
             /\ g[i].digest = f[i].digest /\ g[i].readable = f[i].readable
  <2>1. f[i] \in LineOver(S) /\ contexts[i] \in Contexts
    BY <1>1
  <2>2. g[i] = [f[i] EXCEPT !.context = contexts[i]]
    BY DEF Recontexted
  <2>3. QED
    BY <2>1, <2>2 DEF LineOver
<1>3. g \in Seq(LineOver(S)) /\ Len(g) = n
  <2>1. g \in [1..n -> LineOver(S)]
    BY <1>2 DEF Recontexted
  <2>2. QED
    BY <1>1, <2>1
<1> HIDE DEF g
<1>4. ASSUME NEW i \in 1..n
      PROVE  LinkHolds(g, i) <=> LinkHolds(f, i)
  <2>1. i # 1 => i - 1 \in 1..n
    BY <1>1
  <2>2. i # 1 => g[i - 1].digest = f[i - 1].digest
    BY <1>2, <2>1
  <2>3. QED
    BY <1>2, <2>2 DEF LinkHolds
<1>5. \A i \in 1..n : \A j \in 1..(i - 1) : j \in 1..n
  BY <1>1
<1>6. VerifyChain(g) = VerifyChain(f)
  BY <1>1, <1>2, <1>4, <1>5 DEF VerifyChain
<1>7. LastDigest(g) = LastDigest(f)
  <2>1. CASE n = 0
    <3>1. f = <<>> /\ g = <<>>
      BY <1>3, <2>1
    <3>2. QED
      BY <3>1
  <2>2. CASE n # 0
    <3>1. f # <<>> /\ g # <<>> /\ n \in 1..n
      BY <1>1, <1>3, <2>2
    <3>2. QED
      BY <1>2, <1>3, <3>1 DEF LastDigest
  <2>3. QED
    BY <2>1, <2>2
<1>8. QED
  BY <1>2, <1>3, <1>6, <1>7 DEF g

\* What does not show: lines cut off the end of a file that passes.
THEOREM TruncationPasses ==
  ASSUME NEW S, NEW f \in Seq(S), VerifyChain(f) = "intact", NEW n \in 0..Len(f)
  PROVE  VerifyChain(SubSeq(f, 1, n)) = "intact"
<1> DEFINE front == SubSeq(f, 1, n)
<1>1. Len(f) \in Nat /\ n \in Nat /\ n <= Len(f)
  OBVIOUS
<1>2. DOMAIN front = 1..n /\ \A i \in 1..n : front[i] = f[i]
  BY <1>1
<1>3. \A i \in DOMAIN f : f[i].readable /\ LinkHolds(f, i)
  BY DEF VerifyChain
<1> HIDE DEF front
<1>4. ASSUME NEW i \in DOMAIN front
      PROVE  front[i].readable /\ LinkHolds(front, i)
  <2>1. /\ i \in 1..n /\ i \in DOMAIN f /\ front[i] = f[i]
        /\ i # 1 => i - 1 \in 1..n /\ front[i - 1] = f[i - 1]
    BY <1>1, <1>2
  <2>2. QED
    BY <1>3, <2>1 DEF LinkHolds
<1>5. QED
  BY <1>4 DEF VerifyChain, front

\* A step of the audit file that only appends: no line goes, or changes its event,
\* its context or its digests, and one that changes at all is the last and becomes
\* unreadable.
Appended ==
  /\ Keeps(file, file')
  /\ Len(file') \in {Len(file), Len(file) + 1}
  /\ \A i \in 1..(Len(file) - 1) : file'[i] = file[i]

\* Every step of every writer appends, or leaves the file alone.
LEMMA StepAppends == FileInv /\ [Next]_vars => Appended
<1> SUFFICES ASSUME FileInv, [Next]_vars
             PROVE  Appended
  OBVIOUS
<1>1. ASSUME NEW w \in Writers, WriteLine(w) \/ WriteFails(w)
      PROVE  Appended
  BY <1>1, FileChange, TailStep DEF Appended, OneMore
<1>2. CASE UNCHANGED file
  BY <1>2 DEF Appended, Keeps
<1>3. QED
  BY <1>1, <1>2 DEF Next, ReadLast, ReadRaises, Crash, vars

\* The file is append-only, however appends overlap, fail or die on the way.
THEOREM AppendOnly == Spec => [][Appended]_vars
<1>1. FileInv /\ [Next]_vars => [Appended]_vars
  BY StepAppends
<1>2. QED
  BY <1>1, History, PTL DEF Spec

\* A file that verify_chain has refused, as broken or unreadable, is never
\* accepted again: no later append, whoever makes it, covers up a fork or damage.
THEOREM AlarmStays ==
  Spec => [][VerifyChain(file) # "intact" => VerifyChain(file') # "intact"]_vars
<1>1. FileInv /\ [Next]_vars
        => [VerifyChain(file) # "intact" => VerifyChain(file') # "intact"]_vars
  <2> SUFFICES ASSUME FileInv, [Next]_vars, VerifyChain(file') = "intact"
               PROVE  VerifyChain(file) = "intact"
    OBVIOUS
  <2>1. Appended /\ FileInv'
    BY StepAppends, FileStep
  <2>2. /\ Len(file) \in Nat /\ DOMAIN file = 1..Len(file)
        /\ Len(file') \in Nat /\ DOMAIN file' = 1..Len(file')
    BY <2>1, DomainOfFile DEF FileInv, FileOver
  <2>3. 1..Len(file) \subseteq 1..Len(file')
    <3>1. Len(file') = Len(file) \/ Len(file') = Len(file) + 1
      BY <2>1 DEF Appended
    <3>2. \A m, n \in Nat : n = m \/ n = m + 1 => 1..m \subseteq 1..n
      OBVIOUS
    <3>3. QED
      BY <2>2, <3>1, <3>2
  <2>4. \A i \in 1..Len(file') : file'[i].readable /\ LinkHolds(file', i)
    BY <2>2 DEF VerifyChain
  <2>5. \A i \in 1..Len(file) : file'[i] = file[i]
    BY <2>1, <2>3, <2>4 DEF Appended, Keeps
  <2>6. ASSUME NEW i \in DOMAIN file
        PROVE  file[i].readable /\ LinkHolds(file, i)
    <3>1. /\ i \in 1..Len(file) /\ i \in 1..Len(file')
          /\ i # 1 => i - 1 \in 1..Len(file)
      BY <2>2, <2>3
    <3>2. file'[i].readable /\ LinkHolds(file', i)
      BY <2>4, <3>1
    <3>3. QED
      BY <2>5, <3>1, <3>2 DEF LinkHolds
  <2>7. QED
    BY <2>6 DEF VerifyChain
<1>2. QED
  BY <1>1, History, PTL DEF Spec
================================================================================
