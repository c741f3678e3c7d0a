----------------------------- MODULE PackingLoader -----------------------------
(***************************************************************************)
(* aep.research.data.pipeline._document_batches and make_dataloader: rows  *)
(* of RowCapacity tokens packed from documents.  A document is reduced to  *)
(* its shard and its number of tokens, the BOS token included; a piece is  *)
(* the part of a document that a row takes, always from the BOS on.        *)
(***************************************************************************)
EXTENDS Integers, Sequences, SequencesExt

CONSTANTS
  Corpus,        \* the documents of each shard: their lengths in tokens
  RowCapacity,   \* seq_len + 1
  BufferSize,    \* buffer_size
  BatchDocs      \* tokenizer_batch_size

ASSUME LoaderAssumption ==
  /\ DOMAIN Corpus \subseteq Nat
  /\ \A s \in DOMAIN Corpus : Corpus[s] \in Seq(Nat \ {0}) /\ Corpus[s] # <<>>
  /\ RowCapacity \in Nat \ {0} /\ BufferSize \in Nat \ {0} /\ BatchDocs \in Nat \ {0}

VARIABLES
  loader,   \* the files listed, the place in them, and the documents buffered:
            \* doc documents of shard `at' have been read
  row,      \* the pieces in row_buffer
  pos       \* how many tokens they are

loaderVars == <<loader, row, pos>>

NoLoader == [files |-> {}, at |-> 0, doc |-> 0, buffer |-> <<>>]

\* A generator over these files, which are sorted, begins.
NewLoader(files) ==
  [files |-> files, at |-> Min(files), doc |-> 0, buffer |-> <<>>]

\* The file after this one, and after the last one the first again.
NextFile(files, at) ==
  LET later == {f \in files : f > at}
  IN  Min(IF later = {} THEN files ELSE later)

LoaderInit == loader = NoLoader /\ row = <<>> /\ pos = 0

\* The documents of the next batch: at most BatchDocs of one file.
NextDocs ==
  LET s == loader.at
      end == Min({loader.doc + BatchDocs, Len(Corpus[s])})
  IN  [i \in 1..(end - loader.doc) |->
         [shard |-> s, len |-> Corpus[s][loader.doc + i]]]

\* refill: the files are read round and round, without end.
Refill ==
  /\ pos < RowCapacity /\ Len(loader.buffer) < BufferSize
  /\ LET read == loader.doc + Len(NextDocs)
         more == read < Len(Corpus[loader.at])
     IN  loader' = [loader EXCEPT !.buffer = @ \o NextDocs,
                                  !.doc = IF more THEN read ELSE 0,
                                  !.at = IF more THEN @ ELSE NextFile(loader.files, @)]
  /\ UNCHANGED <<row, pos>>

Fitting(buffer, room) == {i \in DOMAIN buffer : buffer[i].len <= room}

\* Mutant of BestFit: the first document that fits.
FirstFit(buffer, room) == Min(Fitting(buffer, room))

\* The first of the longest documents that fit.
BestFit(buffer, room) ==
  LET longest == Max({buffer[i].len : i \in Fitting(buffer, room)})
  IN  Min({i \in DOMAIN buffer : buffer[i].len = longest})

\* The first of the shortest documents.
Shortest(buffer) ==
  LET least == Min({buffer[i].len : i \in DOMAIN buffer})
  IN  Min({i \in DOMAIN buffer : buffer[i].len = least})

\* Document i leaves the buffer, its first tokens for the row.  A piece also
\* keeps the room it found and the lengths that were left in the buffer.
Place(i, taken) ==
  LET doc  == loader.buffer[i]
      rest == RemoveAt(loader.buffer, i)
  IN  /\ row' = Append(row, [shard |-> doc.shard, len |-> doc.len, taken |-> taken,
                             room |-> RowCapacity - pos,
                             left |-> {rest[j].len : j \in DOMAIN rest}])
      /\ loader' = [loader EXCEPT !.buffer = rest]
      /\ pos' = pos + taken

\* The row takes a whole document, or if none fits, is filled up from one.
PackDocument ==
  /\ pos < RowCapacity /\ Len(loader.buffer) >= BufferSize
  /\ LET buffer == loader.buffer
         room == RowCapacity - pos
     IN  IF Fitting(buffer, room) # {}
         THEN LET i == BestFit(buffer, room) IN Place(i, buffer[i].len)
         ELSE Place(Shortest(buffer), room)

-----------------------------------------------------------------------------
(* Properties.                                                              *)

Documents == [shard : DOMAIN Corpus, len : Nat \ {0}]
Pieces == [shard : DOMAIN Corpus, len : Nat \ {0}, taken : Nat \ {0},
           room : 1..RowCapacity, left : SUBSET (Nat \ {0})]

\* What the loader holds: documents of its files, never more than one batch
\* beyond the buffer's size, and a place in a file it has not read to its end.
LoaderTypeOK ==
  /\ loader \in [files : SUBSET DOMAIN Corpus, at : Nat, doc : Nat, buffer : Seq(Documents)]
  /\ loader.files # {} => loader.at \in loader.files /\ loader.doc < Len(Corpus[loader.at])
  /\ \A i \in DOMAIN loader.buffer : loader.buffer[i].shard \in loader.files
  /\ Len(loader.buffer) < BufferSize + BatchDocs
  /\ row \in Seq(Pieces) /\ pos \in 0..RowCapacity

\* A row never overflows, and only its last piece is cropped, to fill it.
RowFull ==
  /\ pos <= RowCapacity
  /\ \A i \in DOMAIN row :
       row[i].taken # row[i].len => i = Len(row) /\ pos = RowCapacity

\* As few tokens as possible are thrown away: a document is cropped only when
\* none fits, and is the shortest; and one that fits is passed over only for
\* a longer one.
RowThrifty ==
  \A i \in DOMAIN row : \A other \in row[i].left :
    IF row[i].taken < row[i].len
    THEN other > row[i].room /\ other >= row[i].len
    ELSE other > row[i].room \/ other <= row[i].len

\* "100% utilisation": rows are exactly full and waste little, however few of
\* the buffered documents fit.
RowsPacked == RowFull /\ RowThrifty
================================================================================
