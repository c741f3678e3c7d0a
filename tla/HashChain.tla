------------------------------- MODULE HashChain -------------------------------
(***************************************************************************)
(* What an audit ledger promises: a log that only grows, one event at a    *)
(* time, each event linked to the one before it by that one's digest, and  *)
(* no event logged twice.  An event is what its digest covers.             *)
(***************************************************************************)
EXTENDS Sequences, Naturals

CONSTANT Events

VARIABLE chain

\* sha256 over the event and the digest it is linked to: injective, and never
\* the empty string that the first event is linked to.
Digest(event, previous) == <<event, previous>>
NoDigest == <<>>

Link(event, previous) ==
  [event |-> event, previous |-> previous, digest |-> Digest(event, previous)]

\* The digest the next event is linked to.
LastDigest(c) == IF c = <<>> THEN NoDigest ELSE c[Len(c)].digest

Init == chain = <<>>

Log(e) ==
  /\ \A i \in DOMAIN chain : chain[i].event # e
  /\ chain' = Append(chain, Link(e, LastDigest(chain)))

Next == \E e \in Events : Log(e)

Spec == Init /\ [][Next]_chain
================================================================================
