------------------------------ MODULE OrderBook ------------------------------
(***************************************************************************)
(* The local Level-2 book (rt-kraken-futures/src/orderbook.rs) and the     *)
(* book feed that maintains it (rt-kraken-futures/src/ws.rs): one snapshot *)
(* per subscription, then deltas with consecutive sequence numbers. Of a   *)
(* level only its price matters here: a side of the book is the set of the *)
(* prices that have a quantity.                                            *)
(***************************************************************************)
EXTENDS Integers, Sequences, FiniteSets, FiniteSetsExt

CONSTANTS
    Prices,      \* price ticks
    None,        \* no sequence number
    MaxSeq,      \* bound on the changes of the venue's book
    MaxFaults,   \* bound on the faults
    FaultKinds   \* which faults the instance explores

ASSUME ConstantsAssumption ==
    /\ Prices \subseteq Int
    /\ None \notin Int
    /\ MaxSeq \in Nat
    /\ MaxFaults \in Nat
    /\ FaultKinds \subseteq {"lostDelta", "lostSnapshot", "disconnect", "glitch"}

VARIABLES
    state,    \* BookState
    book,     \* bids and asks
    lastSeq,  \* last_seq
    up,       \* the socket is connected and subscribed
    chan,     \* messages on their way
    hist,     \* the venue's book after each change, by sequence number
    faults    \* faults so far

localVars == <<state, book, lastSeq>>

vars == <<localVars, up, chan, hist, faults>>

BookState == {"Uninitialised", "Synced", "OutOfSync"}

Books == [bids : SUBSET Prices, asks : SUBSET Prices]

EmptyBook == [bids |-> {}, asks |-> {}]

Seqs == 1 .. MaxSeq + 1

Messages ==
    [kind : {"snapshot"}, seq : Seqs, book : Books]
        \cup [kind : {"delta"}, seq : Seqs, side : {"bids", "asks"},
              price : Prices, present : BOOLEAN]

-----------------------------------------------------------------------------

\* sanity_check: the best bid is not below the best ask
Crossed(b) ==
    /\ b.bids # {}
    /\ b.asks # {}
    /\ Max(b.bids) >= Min(b.asks)

\* One level set or removed; the other side is left alone.
WithLevel(b, side, price, present) ==
    [b EXCEPT ![side] = IF present THEN @ \cup {price} ELSE @ \ {price}]

\* apply_snapshot. A crossed snapshot is reported, but the book has become
\* Synced before the check.
ApplySnapshot(m) ==
    /\ state' = "Synced"
    /\ book' = m.book
    /\ lastSeq' = m.seq

\* Mutant: the state is not reset.
InvalidateContents ==
    /\ state' = state
    /\ book' = EmptyBook
    /\ lastSeq' = None

Invalidate ==
    /\ state' = "OutOfSync"
    /\ book' = EmptyBook
    /\ lastSeq' = None

\* A delta that continues the sequence; one that crosses the book makes it
\* out-of-sync.
ApplyDelta(m) ==
    /\ book' = WithLevel(book, m.side, m.price, m.present)
    /\ lastSeq' = m.seq
    /\ state' = IF Crossed(book') THEN "OutOfSync" ELSE "Synced"

NextInSequence(m) == m.seq = lastSeq + 1

-----------------------------------------------------------------------------
(* The socket.                                                             *)

HandleSnapshot ==
    /\ chan # <<>>
    /\ Head(chan).kind = "snapshot"
    /\ ApplySnapshot(Head(chan))
    /\ chan' = Tail(chan)
    /\ UNCHANGED <<up, hist, faults>>

\* Mutant: the sequence number is not compared.
HandleAnyDelta ==
    /\ chan # <<>>
    /\ Head(chan).kind = "delta"
    /\ state = "Synced"
    /\ ApplyDelta(Head(chan))
    /\ chan' = Tail(chan)
    /\ UNCHANGED <<up, hist, faults>>

HandleDelta ==
    /\ chan # <<>>
    /\ Head(chan).kind = "delta"
    /\ state = "Synced"
    /\ NextInSequence(Head(chan))
    /\ ApplyDelta(Head(chan))
    /\ chan' = Tail(chan)
    /\ UNCHANGED <<up, hist, faults>>

\* A book that is not Synced answers a delta with an error, which the event
\* loop only logs.
RefuseDelta ==
    /\ chan # <<>>
    /\ Head(chan).kind = "delta"
    /\ state # "Synced"
    /\ chan' = Tail(chan)
    /\ UNCHANGED <<localVars, up, hist, faults>>

\* Mutant: the gap is logged like any other error.
GapNotFatal ==
    /\ chan # <<>>
    /\ Head(chan).kind = "delta"
    /\ state = "Synced"
    /\ ~NextInSequence(Head(chan))
    /\ state' = "OutOfSync"
    /\ chan' = Tail(chan)
    /\ UNCHANGED <<book, lastSeq, up, hist, faults>>

\* A gap ends the connection, and that invalidates the book.
SequenceGap ==
    /\ chan # <<>>
    /\ Head(chan).kind = "delta"
    /\ state = "Synced"
    /\ ~NextInSequence(Head(chan))
    /\ Invalidate
    /\ up' = FALSE
    /\ chan' = <<>>
    /\ UNCHANGED <<hist, faults>>

\* run: connect and subscribe; the venue answers with a snapshot.
Connect ==
    /\ ~up
    /\ up' = TRUE
    /\ chan' = <<[kind |-> "snapshot", seq |-> Len(hist),
                  book |-> hist[Len(hist)]]>>
    /\ UNCHANGED <<localVars, hist, faults>>

-----------------------------------------------------------------------------
(* The venue, and faults.                                                  *)

Fault(kind) ==
    /\ kind \in FaultKinds
    /\ faults < MaxFaults
    /\ faults' = faults + 1

\* The venue's book changes by one level and is published. It crosses only in a
\* glitch.
VenueChange(side, price) ==
    LET old     == hist[Len(hist)]
        present == price \notin old[side]
        new     == WithLevel(old, side, price, present)
    IN /\ Len(hist) <= MaxSeq
       /\ IF Crossed(new) THEN Fault("glitch") ELSE UNCHANGED faults
       /\ hist' = Append(hist, new)
       /\ chan' = IF up
                  THEN Append(chan, [kind |-> "delta", seq |-> Len(hist) + 1,
                                     side |-> side, price |-> price,
                                     present |-> present])
                  ELSE chan
       /\ UNCHANGED <<localVars, up>>

\* A message that cannot be parsed is logged and dropped.
DropMessage ==
    /\ chan # <<>>
    /\ Fault(IF Head(chan).kind = "delta" THEN "lostDelta" ELSE "lostSnapshot")
    /\ chan' = Tail(chan)
    /\ UNCHANGED <<localVars, up, hist>>

ConnectionLost ==
    /\ up
    /\ Fault("disconnect")
    /\ Invalidate
    /\ up' = FALSE
    /\ chan' = <<>>
    /\ UNCHANGED hist

-----------------------------------------------------------------------------

Init ==
    /\ state = "Uninitialised"
    /\ book = EmptyBook
    /\ lastSeq = None
    /\ up = FALSE
    /\ chan = <<>>
    /\ hist = <<EmptyBook>>
    /\ faults = 0

HandleMessage == HandleSnapshot \/ HandleDelta \/ RefuseDelta \/ SequenceGap

Next ==
    \/ HandleMessage
    \/ Connect
    \/ \E side \in {"bids", "asks"}, price \in Prices : VenueChange(side, price)
    \/ DropMessage
    \/ ConnectionLost

Spec == Init /\ [][Next]_vars

\* The socket task handles what arrives and reconnects after its backoff.
FairSpec == Spec /\ WF_vars(HandleMessage) /\ WF_vars(Connect)

-----------------------------------------------------------------------------
(* Properties.                                                             *)

\* The fields have their types, and a Synced book has a sequence number:
\* apply_delta unwraps it ("Synced implies last_seq is set").
TypeOK ==
    /\ state \in BookState
    /\ book \in Books
    /\ lastSeq \in Seqs \cup {None}
    /\ state = "Synced" => lastSeq # None
    /\ up \in BOOLEAN
    /\ chan \in Seq(Messages)
    /\ hist \in Seq(Books) /\ Len(hist) \in Seqs
    /\ faults \in 0 .. MaxFaults

\* A book that can be read is exactly the venue's book at its sequence number,
\* whatever was dropped, cut off or resubscribed on the way (apply_delta,
\* invalidate): it may lag behind, it is never a mixture.
SyncedIsExact == state = "Synced" => book = hist[lastSeq]

\* Every message on its way speaks of a book the venue had: a snapshot carries
\* it, a delta leads to it from the one before (what the venue's feed promises
\* to apply_snapshot and apply_delta). With it SyncedIsExact is inductive.
Truthful(m, books) ==
    /\ m.seq \in DOMAIN books
    /\ m.kind = "snapshot" => m.book = books[m.seq]
    /\ m.kind = "delta" =>
          /\ m.seq - 1 \in DOMAIN books
          /\ books[m.seq] =
                WithLevel(books[m.seq - 1], m.side, m.price, m.present)

ExactInv ==
    /\ TypeOK
    /\ SyncedIsExact
    /\ \A i \in DOMAIN chan : Truthful(chan[i], hist)
    /\ state = "Synced" => lastSeq \in DOMAIN hist

\* The next message shows that one was missed.
Gap ==
    /\ state = "Synced"
    /\ chan # <<>>
    /\ Head(chan).kind = "delta"
    /\ ~NextInSequence(Head(chan))

\* After a gap or a lost connection there is a new subscription and the book
\* becomes readable again (ws.rs, run).
Resynchronises == (~up \/ Gap) ~> (up /\ state = "Synced" /\ ~Gap)
=============================================================================
