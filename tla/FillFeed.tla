------------------------------- MODULE FillFeed -------------------------------
(***************************************************************************)
(* How fills travel from the venue to the fill reconciler: the private     *)
(* WebSocket feed (rt-kraken-futures/src/ws.rs), the bounded ring it feeds *)
(* (rt-kraken-futures/src/private_state.rs, FillsRing) and the watermark   *)
(* the reconciler keeps in memory (rt-daemon/src/fill_reconciler.rs).      *)
(* Applying one fill takes three transactions, and the daemon may stop     *)
(* between any two of them; what they do to the tables is the matter of    *)
(* OrderLifecycle and Position.                                            *)
(*                                                                         *)
(* A fill is named by its sequence number. The feed may batch fills into a *)
(* message; apply_fills treats them one by one, so one per message does.   *)
(***************************************************************************)
EXTENDS Integers, Sequences, SequencesExt

CONSTANTS
    MaxFills,      \* bound on the fills of the account
    Capacity,      \* FILLS_RING_CAPACITY
    SnapshotSize,  \* how many of the latest fills a snapshot carries
    Foreign,       \* fills of orders the daemon has no row for
    MaxFaults,     \* bound on the faults
    FaultKinds     \* which faults the instance explores

ASSUME ConstantsAssumption ==
    /\ MaxFills \in Nat
    /\ Capacity \in Nat \ {0}
    /\ SnapshotSize \in Nat
    /\ Foreign \subseteq 1 .. MaxFills
    /\ MaxFaults \in Nat
    /\ FaultKinds \subseteq {"disconnect", "challenge", "drop", "duplicate",
                        "crash", "db"}

VARIABLES
    \* venue and connection
    executed,  \* fills of the account so far
    conn,      \* state of the WebSocket task
    wire,      \* messages sent on the connection and not yet handled
    \* FillsRing
    ring,      \* fills
    highest,   \* highest_seq
    synced,    \* is_synced
    \* fill reconciler
    batch,     \* fills copied out of the ring and not yet dealt with
    stage,     \* the next statement for the first of them
    mark,      \* last_applied_seq
    \* database
    applied,   \* applied_fills
    \* bookkeeping of the model
    faults,    \* faults so far
    ordN,      \* how often a fill was added to its order row
    posN,      \* how often a fill was added to the position
    torn,      \* how often it was interrupted after that, before its record
    lost,      \* fills in dropped messages, beyond a snapshot, or out of the ring
    deaf       \* this connection has no subscription, or its snapshot was dropped

wsVars   == <<executed, conn, wire>>
ringVars == <<ring, highest, synced>>
workVars == <<stage, ordN, posN, torn>>
recVars  == <<batch, mark, applied, workVars>>
lossVars == <<lost, deaf>>

vars == <<wsVars, ringVars, recVars, faults, lossVars>>

Fills == 1 .. MaxFills

\* "public" is a connection that only carries the public feeds.
Conn == {"down", "challenged", "live", "public", "lost"}

Stage == {"check", "order", "position", "record"}

Message == [snapshot : BOOLEAN, fills : Seq(Fills)]

LastN(s, n) == SubSeq(s, IF Len(s) > n THEN Len(s) - n + 1 ELSE 1, Len(s))

\* What the ring holds of the fills it is given, and what falls out at the front.
Kept(s) == LastN(s, Capacity)

PushedOut(s) == Range(s) \ Range(Kept(s))

-----------------------------------------------------------------------------
(* The WebSocket task. Subscribing to the private feeds takes a signed     *)
(* challenge; the venue answers the subscription with a snapshot.          *)

Connect ==
    /\ conn = "down"
    /\ conn' = "challenged"
    /\ UNCHANGED <<executed, wire, ringVars, recVars, faults, lossVars>>

SubscribePrivate ==
    /\ conn = "challenged"
    /\ conn' = "live"
    /\ wire' = <<[snapshot |-> TRUE,
                  fills |-> LastN([i \in 1 .. executed |-> i], SnapshotSize)]>>
    /\ lost' = lost \cup 1 .. (executed - SnapshotSize)
    /\ UNCHANGED <<executed, ringVars, recVars, faults, deaf>>

\* A fill happens; only a live subscription hears of it.
Execute ==
    /\ executed < MaxFills
    /\ executed' = executed + 1
    /\ wire' = IF conn = "live"
               THEN Append(wire, [snapshot |-> FALSE, fills |-> <<executed'>>])
               ELSE wire
    /\ UNCHANGED <<conn, ringVars, recVars, faults, lossVars>>

NextIsSnapshot == conn = "live" /\ wire # <<>> /\ Head(wire).snapshot

NextIsFill == conn = "live" /\ wire # <<>> /\ ~Head(wire).snapshot

\* Mutant: the snapshot does not mark the ring as synced.
SnapshotNotSynced ==
    /\ NextIsSnapshot
    /\ wire' = Tail(wire)
    /\ ring' = Kept(Head(wire).fills)
    /\ lost' = lost \cup PushedOut(Head(wire).fills)
    /\ highest' = IF Head(wire).fills = <<>> THEN 0 ELSE Last(Head(wire).fills)
    /\ UNCHANGED <<executed, conn, synced, recVars, faults, deaf>>

\* apply_snapshot: the ring is cleared and refilled, the oldest fills falling
\* out when there are too many.
ApplySnapshot ==
    /\ NextIsSnapshot
    /\ wire' = Tail(wire)
    /\ ring' = Kept(Head(wire).fills)
    /\ lost' = lost \cup PushedOut(Head(wire).fills)
    /\ highest' = IF Head(wire).fills = <<>> THEN 0 ELSE Last(Head(wire).fills)
    /\ synced' = TRUE
    /\ UNCHANGED <<executed, conn, recVars, faults, deaf>>

\* Mutant: duplicates are not told apart.
AppendDuplicate(f) ==
    /\ highest' = f
    /\ ring' = Kept(Append(ring, f))
    /\ lost' = lost \cup PushedOut(Append(ring, f))

\* Mutant: the oldest fill is not popped from a full ring.
AppendUnbounded(f) ==
    IF f <= highest
    THEN UNCHANGED <<ring, highest, lost>>
    ELSE highest' = f /\ ring' = Append(ring, f) /\ UNCHANGED lost

\* apply_fills: duplicates are skipped, a gap is only logged, the oldest fill
\* falls out of a full ring.
AppendFill(f) ==
    IF f <= highest
    THEN UNCHANGED <<ring, highest, lost>>
    ELSE /\ highest' = f
         /\ ring' = Kept(Append(ring, f))
         /\ lost' = lost \cup PushedOut(Append(ring, f))

ApplyFills ==
    /\ NextIsFill
    /\ wire' = Tail(wire)
    /\ AppendFill(Head(Head(wire).fills))
    /\ UNCHANGED <<executed, conn, synced, recVars, faults, deaf>>

\* invalidate_all, before the backoff and the next attempt
InvalidateAll ==
    /\ conn = "lost"
    /\ conn' = "down"
    /\ wire' = <<>>
    /\ ring' = <<>>
    /\ highest' = 0
    /\ synced' = FALSE
    /\ deaf' = FALSE
    /\ UNCHANGED <<executed, recVars, faults, lost>>

-----------------------------------------------------------------------------
(* The fill reconciler.                                                    *)

\* The fills of the ring above the watermark. The ring is in sequence order, so
\* what the filter keeps of it is its end, from the first such fill on.
NewFills ==
    LET first == CHOOSE i \in DOMAIN ring :
                    \A j \in DOMAIN ring : ring[j] > mark <=> j >= i
    IN SubSeq(ring, first, Len(ring))

\* The new fills are copied out of the ring under its lock.
TakeBatch ==
    /\ batch = <<>>
    /\ synced
    /\ highest > mark
    /\ batch' = NewFills
    /\ UNCHANGED <<wsVars, ringVars, mark, applied, workVars, faults, lossVars>>

\* The first fill of the batch is dealt with: the watermark moves to it.
Advance ==
    /\ mark' = IF Head(batch) > mark THEN Head(batch) ELSE mark
    /\ batch' = Tail(batch)
    /\ stage' = "check"

\* Mutant: applied_fills is not consulted.
AssumeNotApplied ==
    /\ batch # <<>>
    /\ stage = "check"
    /\ stage' = "order"
    /\ UNCHANGED <<batch, mark, wsVars, ringVars, applied, ordN, posN, torn, faults,
                   lossVars>>

\* has_fill_been_applied: "Already processed in a previous run; advance".
HasFillBeenApplied ==
    /\ batch # <<>>
    /\ stage = "check"
    /\ IF Head(batch) \in applied
       THEN Advance
       ELSE stage' = "order" /\ UNCHANGED <<batch, mark>>
    /\ UNCHANGED <<wsVars, ringVars, applied, ordN, posN, torn, faults, lossVars>>

\* apply_fill_to_order, the orphan-catcher included; a fill of an order nobody
\* knows is recorded without having been applied.
ApplyFillToOrder ==
    /\ stage = "order"
    /\ IF Head(batch) \in Foreign
       THEN stage' = "record" /\ UNCHANGED ordN
       ELSE /\ stage' = "position"
            /\ ordN' = [ordN EXCEPT ![Head(batch)] = @ + 1]
    /\ UNCHANGED <<wsVars, ringVars, batch, mark, applied, posN, torn, faults,
                   lossVars>>

ApplyFillToPosition ==
    /\ stage = "position"
    /\ stage' = "record"
    /\ posN' = [posN EXCEPT ![Head(batch)] = @ + 1]
    /\ UNCHANGED <<wsVars, ringVars, batch, mark, applied, ordN, torn, faults,
                   lossVars>>

\* record_fill_applied
RecordFillApplied ==
    /\ stage = "record"
    /\ applied' = applied \cup {Head(batch)}
    /\ Advance
    /\ UNCHANGED <<wsVars, ringVars, ordN, posN, torn, faults, lossVars>>

-----------------------------------------------------------------------------
(* Faults.                                                                 *)

Fault(kind) ==
    /\ kind \in FaultKinds
    /\ faults < MaxFaults
    /\ faults' = faults + 1

\* The first fill of the batch has reached its order row and is not recorded.
InHand(f) == stage \in {"position", "record"} /\ f = Head(batch)

\* reconcile_once ends before its batch does.
Interrupted ==
    /\ batch' = <<>>
    /\ stage' = "check"
    /\ torn' = [f \in Fills |-> IF InHand(f) THEN torn[f] + 1 ELSE torn[f]]
    /\ UNCHANGED <<applied, ordN, posN>>

\* run_once returns an error: the stream ended, a ping failed, the book feed
\* has a gap, the subscription could not be signed.
ConnectionLost ==
    /\ conn \in {"challenged", "live", "public"}
    /\ Fault("disconnect")
    /\ conn' = "lost"
    /\ wire' = <<>>
    /\ UNCHANGED <<executed, ringVars, recVars, lossVars>>

\* The challenge is answered by an error event, by something that does not
\* parse, or not at all, or the subscription is refused: that is logged, and the
\* connection goes on with the public feeds alone.
ChallengeFails ==
    /\ conn = "challenged"
    /\ Fault("challenge")
    /\ conn' = "public"
    /\ deaf' = TRUE
    /\ UNCHANGED <<executed, wire, ringVars, recVars, lost>>

\* A message that does not deserialise is logged and dropped.
DropMessage ==
    /\ conn = "live"
    /\ wire # <<>>
    /\ Fault("drop")
    /\ wire' = Tail(wire)
    /\ lost' = lost \cup {f \in Range(Head(wire).fills) : f > highest}
    /\ deaf' = (deaf \/ Head(wire).snapshot)
    /\ UNCHANGED <<executed, conn, ringVars, recVars>>

\* The venue sends a fill again that was in the snapshot or already sent.
Redeliver(f) ==
    /\ conn = "live"
    /\ f <= executed
    /\ Fault("duplicate")
    /\ wire' = Append(wire, [snapshot |-> FALSE, fills |-> <<f>>])
    /\ UNCHANGED <<executed, conn, ringVars, recVars, lossVars>>

\* Mutant: the watermark moves on past a fill that could not be applied.
ApplyFailsForward ==
    /\ batch # <<>>
    /\ Fault("db")
    /\ Interrupted
    /\ mark' = Head(batch)
    /\ UNCHANGED <<wsVars, ringVars, lossVars>>

\* A statement fails: reconcile_once returns, the watermark stays.
ApplyFails ==
    /\ batch # <<>>
    /\ Fault("db")
    /\ Interrupted
    /\ UNCHANGED <<wsVars, ringVars, mark, lossVars>>

\* The daemon restarts with an empty ring and the watermark at zero.
Crash ==
    /\ Fault("crash")
    /\ conn' = "down"
    /\ wire' = <<>>
    /\ ring' = <<>>
    /\ highest' = 0
    /\ synced' = FALSE
    /\ Interrupted
    /\ mark' = 0
    /\ deaf' = FALSE
    /\ UNCHANGED <<executed, lost>>

-----------------------------------------------------------------------------

Init ==
    /\ executed = 0
    /\ conn = "down"
    /\ wire = <<>>
    /\ ring = <<>>
    /\ highest = 0
    /\ synced = FALSE
    /\ batch = <<>>
    /\ mark = 0
    /\ applied = {}
    /\ faults = 0
    /\ stage = "check"
    /\ ordN = [f \in Fills |-> 0]
    /\ posN = [f \in Fills |-> 0]
    /\ torn = [f \in Fills |-> 0]
    /\ lost = {}
    /\ deaf = FALSE

SocketStep ==
    \/ Connect
    \/ SubscribePrivate
    \/ ApplySnapshot
    \/ ApplyFills
    \/ InvalidateAll

ReconcilerStep ==
    \/ TakeBatch
    \/ HasFillBeenApplied
    \/ ApplyFillToOrder
    \/ ApplyFillToPosition
    \/ RecordFillApplied

Next ==
    \/ SocketStep
    \/ ReconcilerStep
    \/ Execute
    \/ ConnectionLost
    \/ ChallengeFails
    \/ DropMessage
    \/ \E f \in Fills : Redeliver(f)
    \/ ApplyFails
    \/ Crash

Spec == Init /\ [][Next]_vars

\* The WebSocket task reconnects for ever with a bounded backoff and handles
\* what arrives; the reconciler is driven by a timer. Fills need not happen.
FairSpec == Spec /\ WF_vars(SocketStep) /\ WF_vars(ReconcilerStep)

-----------------------------------------------------------------------------
(* Properties.                                                             *)

\* Between the check and the record there is a fill to work on.
WorkOK ==
    /\ stage \in Stage
    /\ stage # "check" => batch # <<>>
    /\ ordN \in [Fills -> Nat]
    /\ posN \in [Fills -> Nat]
    /\ torn \in [Fills -> Nat]

\* Ring, wire, batch and watermark hold sequence numbers of the account, and
\* the ring never outgrows its capacity.
TypeOK ==
    /\ executed \in 0 .. MaxFills
    /\ conn \in Conn
    /\ wire \in Seq(Message)
    /\ ring \in Seq(Fills) /\ Len(ring) <= Capacity
    /\ highest \in 0 .. executed
    /\ synced \in BOOLEAN
    /\ batch \in Seq(Fills)
    /\ mark \in 0 .. executed
    /\ applied \subseteq 1 .. executed
    /\ faults \in 0 .. MaxFaults
    /\ WorkOK
    /\ lost \subseteq Fills
    /\ deaf \in BOOLEAN

Ascending(s) == \A i, j \in DOMAIN s : i < j => s[i] < s[j]

\* Across snapshots, live fills, duplicates, drops and reconnects the ring
\* stays in sequence order with highest_seq its newest fill, and the batch cut
\* from it starts above the watermark: reconcile_once relies on the one for
\* "no new fills" and on the other for applying "in seq order".
RingInOrder ==
    /\ Ascending(ring)
    /\ highest = IF ring = <<>> THEN 0 ELSE Last(ring)
    /\ Ascending(batch)
    /\ \A i \in DOMAIN batch : batch[i] > mark

\* However often the venue replays a fill (snapshots after reconnects and
\* restarts, duplicates), it is added to its order row once, and once more only
\* for each time the daemon stopped or a statement failed between that
\* transaction and record_fill_applied; to the position never more often.
AppliedAtMostOnce ==
    \A f \in Fills : ordN[f] <= 1 + torn[f] /\ posN[f] <= ordN[f]

\* The watermark passes a fill that was not applied only if the daemon never
\* had the chance to take it: its message did not parse, the snapshot did not
\* reach back to it, or it fell out of the full ring. Failed statements,
\* duplicates, reconnects and restarts skip nothing: "stop at the first error
\* so we can retry next tick without skipping a fill"
\* (rt-daemon/src/fill_reconciler.rs).
NoFillSkipped == \A f \in 1 .. mark : f \in applied \cup lost

\* The fills in the first n messages on the wire
Carried(n) == UNION {Range(wire[j].fills) : j \in 1 .. n}

\* Where a fill that happened can be while a connection is up.
Known(f, n) == f <= highest \/ f \in lost \/ f \in Carried(n)

\* Before a subscription, and until its snapshot is handled, the ring is empty.
RingEmpty == ring = <<>> /\ highest = 0

\* A snapshot comes first and is in order, all else is one fill a message; when
\* a fill is handled, every earlier one has been handled before or is lost.
MessageOK(i) ==
    /\ IF wire[i].snapshot
       THEN i = 1 /\ RingEmpty /\ Ascending(wire[i].fills)
       ELSE Len(wire[i].fills) = 1
    /\ \A f \in Range(wire[i].fills) :
          f <= executed /\ \A g \in 1 .. f : Known(g, i)

\* What the wire carries, and that while it is up it carries all that is new.
WireInv ==
    /\ conn \in {"down", "challenged", "public"} => RingEmpty
    /\ conn # "live" => wire = <<>>
    /\ \A i \in DOMAIN wire : MessageOK(i)
    /\ conn = "live" => \A g \in 1 .. executed : Known(g, Len(wire))

\* What the ring and the batch cut from it miss is lost or applied.
CoverInv ==
    /\ \A g \in 1 .. highest : g \in Range(ring) \cup lost
    /\ \A i \in DOMAIN ring : ring[i] <= executed
    /\ \A i \in DOMAIN batch : batch[i] <= executed
    /\ \A i \in DOMAIN batch : \A g \in 1 .. batch[i] :
          g \in applied \cup lost \/ \E j \in 1 .. i : g = batch[j]

\* The inductive invariant under NoFillSkipped
FeedInv ==
    /\ TypeOK
    /\ RingInOrder
    /\ WireInv
    /\ CoverInv
    /\ NoFillSkipped

\* The inductive invariant under AppliedAtMostOnce: a fill between the check and
\* its record is not a recorded one, and of its additions to the order row all
\* were interrupted but the recorded one or the one in hand.
CountInv ==
    /\ stage # "check" => Head(batch) \notin applied
    /\ \A f \in Fills :
          /\ ordN[f] <= torn[f] + IF f \in applied \/ InHand(f) THEN 1 ELSE 0
          /\ posN[f] <= ordN[f]
          /\ stage = "position" /\ f = Head(batch) => posN[f] < ordN[f]

\* Every fill is recorded in the end, whatever connections, subscriptions and
\* statements fail on the way, unless it is lost or the daemon ends up on a
\* connection that has no private subscription or has missed its snapshot, and
\* that connection never breaks: FillsRing is synced by a snapshot only, and
\* nothing but a reconnect asks for another.
EveryFillApplied ==
    \A f \in Fills :
        <>[]deaf \/ ((f <= executed) ~> (f \in applied \cup lost))
=============================================================================
