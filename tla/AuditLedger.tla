------------------------------ MODULE AuditLedger ------------------------------
(***************************************************************************)
(* aep.audit.ledger.AuditLedger: an audit file of JSON lines, each holding *)
(* the digest of the line before it.  append reads the last digest of the  *)
(* file and, in a later step, opens the file in append mode and writes a   *)
(* line.  The API and the engine each have a ledger object of their own on *)
(* the same file, and requests run in threads, so appends interleave;      *)
(* Serial restricts the model to one append at a time.                     *)
(*                                                                         *)
(* A line is the event it records (its fresh event_id with the payload,    *)
(* type and correlation id), the context of the event (its actor, task,    *)
(* action and timestamp), the digest it is linked to, its own digest,      *)
(* whether json.loads accepts it and whether it ends in a newline.  The    *)
(* digest covers the event and the link, and nothing of the context.  A    *)
(* failing write (a full disk) or a process that dies while writing leaves *)
(* a part of a line, and the next write goes on in the same line.          *)
(***************************************************************************)
EXTENDS Sequences, Naturals

CONSTANTS
  Writers,     \* the threads that append
  Events,      \* the event ids they may draw
  Contexts,    \* who did what for which task, and when
  Serial,      \* is there only one append at a time?
  MaxFaults,   \* how many writes may fail (bound)
  NoLine       \* what a thread outside append is about to write

ASSUME LedgerAssumption ==
  /\ Serial \in BOOLEAN
  /\ MaxFaults \in Nat

VARIABLES
  file,        \* the audit file
  pending,     \* the line each writer is about to write
  issued,      \* the event ids drawn so far: uuid4 never repeats one
  returned,    \* the events whose append has returned to its caller
  faults       \* how many writes have failed

vars == <<file, pending, issued, returned, faults>>

\* sha256 over what append and verify_chain put into it: event_id, previous,
\* payload, event_type and correlation_id.
Digest(event, previous) == <<event, previous>>
NoDigest == <<>>

Line(event, context, previous) ==
  [event |-> event, context |-> context,
   previous |-> previous, digest |-> Digest(event, previous),
   readable |-> TRUE, ended |-> TRUE]

\* A line that lacked its newline, after more text went into it: json.loads
\* refuses it ("Extra data").
Continued(old, line) == [old EXCEPT !.readable = FALSE, !.ended = line.ended]

\* Mutant of Written: the file is opened for writing, not for appending.
WrittenOver(f, line) == <<line>>

\* Mutant of Written: a last line without a newline is replaced.
WrittenOverTail(f, line) ==
  IF f = <<>> \/ f[Len(f)].ended
  THEN Append(f, line)
  ELSE [f EXCEPT ![Len(f)] = line]

\* Text goes to the end of the file.
Written(f, line) ==
  IF f = <<>> \/ f[Len(f)].ended
  THEN Append(f, line)
  ELSE [f EXCEPT ![Len(f)] = Continued(f[Len(f)], line)]

\* Mutant of LastDigest: the first line is taken for the last.
FirstDigest(f) == IF f = <<>> THEN NoDigest ELSE f[1].digest

\* _last_digest, when it returns.
LastDigest(f) == IF f = <<>> THEN NoDigest ELSE f[Len(f)].digest

\* Mutant of LastReadable: an unreadable last line is tolerated.
AlwaysReadable(f) == TRUE

\* json.loads accepts the last line, or there is none.
LastReadable(f) == f # <<>> => f[Len(f)].readable

-----------------------------------------------------------------------------
Init ==
  /\ file = <<>>
  /\ pending = [w \in Writers |-> NoLine]
  /\ issued = {}
  /\ returned = {}
  /\ faults = 0

\* Mutant of ReadLast: the id is drawn again and again from the same place.
ReadLastSameId(w) ==
  /\ pending[w] = NoLine
  /\ Serial => \A v \in Writers : pending[v] = NoLine
  /\ LastReadable(file)
  /\ \E e \in Events \ issued, c \in Contexts :
       pending' = [pending EXCEPT ![w] = Line(e, c, LastDigest(file))]
  /\ UNCHANGED <<file, issued, returned, faults>>

\* append up to the write: read the last digest, draw an id, build the line.
ReadLast(w) ==
  /\ pending[w] = NoLine
  /\ Serial => \A v \in Writers : pending[v] = NoLine
  /\ LastReadable(file)
  /\ \E e \in Events \ issued, c \in Contexts :
       /\ issued' = issued \cup {e}
       /\ pending' = [pending EXCEPT ![w] = Line(e, c, LastDigest(file))]
  /\ UNCHANGED <<file, returned, faults>>

\* json.loads raises on the last line and append with it.
ReadRaises(w) ==
  /\ pending[w] = NoLine
  /\ ~LastReadable(file)
  /\ UNCHANGED vars

\* The line is written, and append returns.
WriteLine(w) ==
  /\ pending[w] # NoLine
  /\ file' = Written(file, pending[w])
  /\ returned' = returned \cup {pending[w].event}
  /\ pending' = [pending EXCEPT ![w] = NoLine]
  /\ UNCHANGED <<issued, faults>>

\* What a failing write leaves: a torn line, or all of it but the newline.
Partial(line) ==
  {[line EXCEPT !.ended = FALSE, !.readable = complete] : complete \in BOOLEAN}

\* The write fails part of the way, or at its very start; append raises.
WriteFails(w) ==
  /\ pending[w] # NoLine
  /\ faults < MaxFaults
  /\ faults' = faults + 1
  /\ file' \in {file} \cup {Written(file, p) : p \in Partial(pending[w])}
  /\ pending' = [pending EXCEPT ![w] = NoLine]
  /\ UNCHANGED <<issued, returned>>

\* The process ends; the next one finds the file as it is.
Crash ==
  /\ \E w \in Writers : pending[w] # NoLine
  /\ pending' = [w \in Writers |-> NoLine]
  /\ UNCHANGED <<file, issued, returned, faults>>

Next ==
  \/ \E w \in Writers : ReadLast(w) \/ ReadRaises(w) \/ WriteLine(w) \/ WriteFails(w)
  \/ Crash

Spec == Init /\ [][Next]_vars

-----------------------------------------------------------------------------
(* verify_chain.                                                            *)

\* Mutant of LinkHolds: verify_chain recomputes digests but forgets the links.
DigestHolds(f, i) == f[i].digest = Digest(f[i].event, f[i].previous)

\* The checks verify_chain makes on line i, given that json.loads accepts it.
LinkHolds(f, i) ==
  /\ f[i].previous = IF i = 1 THEN NoDigest ELSE f[i - 1].digest
  /\ f[i].digest = Digest(f[i].event, f[i].previous)

\* It reads the lines in order and stops at the first that fails: with an
\* exception where that line is unreadable, and with False otherwise.
VerifyChain(f) ==
  LET passes(i) == f[i].readable /\ LinkHolds(f, i)
  IN  IF \A i \in DOMAIN f : passes(i) THEN "intact"
      ELSE IF \E i \in DOMAIN f :
                ~f[i].readable /\ \A j \in 1..(i - 1) : passes(j)
      THEN "raises"
      ELSE "broken"

-----------------------------------------------------------------------------
(* Properties.                                                              *)

\* Digests occur in the file, in pending lines, and nowhere else.
Digests == {NoDigest} \cup {file[i].digest : i \in DOMAIN file}

\* The shape of the file and of the writers' state.
TypeOK ==
  /\ \A i \in DOMAIN file :
       /\ file[i].event \in issued /\ file[i].context \in Contexts
       /\ file[i].digest = Digest(file[i].event, file[i].previous)
       /\ file[i].readable \in BOOLEAN /\ file[i].ended \in BOOLEAN
  /\ \A w \in Writers :
       pending[w] # NoLine =>
         \E e \in issued, c \in Contexts, p \in Digests : pending[w] = Line(e, c, p)
  /\ returned \subseteq issued /\ issued \subseteq Events
  /\ faults \in 0..MaxFaults

\* docs/architecture.md: "append-only hash chain".  As long as no write has
\* failed, the file passes verify_chain.  Overlapping appends break it.
ChainVerifies == faults = 0 => VerifyChain(file) = "intact"

\* Every line, damaged or not, is linked to the start or to a line above it,
\* whatever the writers and the disk do: history is never cyclic or dangling.
Rooted ==
  \A i \in DOMAIN file :
    \/ file[i].previous = NoDigest
    \/ \E j \in 1..(i - 1) : file[i].previous = file[j].digest

\* verify_chain tells overlapping appends: as long as every line is readable,
\* it accepts the file exactly if no two lines are linked to the same one.
ForksDetected ==
  (\A i \in DOMAIN file : file[i].readable) =>
    (VerifyChain(file) = "intact"
       <=> \A i, j \in DOMAIN file :
             file[i].previous = file[j].previous => i = j)

\* docs/architecture.md: "Immutable audit recording".  An append that returned
\* has its event in the file, on one line that can be read.  An append behind
\* a write that failed breaks it.
ReturnedEventsLogged ==
  \A e \in returned :
    \E i \in DOMAIN file :
      /\ file[i].event = e /\ file[i].readable
      /\ \A j \in DOMAIN file : file[j].event = e => j = i

\* Overlapping appends and crashes alone lose nothing that append returned.
RacesLoseNothing == faults = 0 => ReturnedEventsLogged

\* Damage stays at the end of the file: no line is written behind a damaged
\* one when appends do not overlap.
OnlyLastDamaged ==
  \A i \in 1..(Len(file) - 1) : file[i].readable /\ file[i].ended

\* After a torn line the ledger stops: with an unreadable last line the file
\* never changes again, so nothing is ever recorded behind the damage.
StopsAtDamage ==
  [][file # <<>> /\ ~file[Len(file)].readable => file' = file]_vars

\* The file, read as a chain of links: what the digests cover.
Links ==
  [i \in 1..Len(file) |->
     [event |-> file[i].event, previous |-> file[i].previous,
      digest |-> file[i].digest]]

Chain == INSTANCE HashChain WITH chain <- Links

\* One append at a time: the ledger is a hash chain.  A line counts here even
\* if damage has made it unreadable.
IsHashChain == Chain!Spec
================================================================================
