---------------------------- MODULE Conversation ----------------------------
(***************************************************************************)
(* The ways a conversation is shortened: summarised when the context runs  *)
(* out, snipped by the user, trimmed between turns, cut when it is forked. *)
(* A provider refuses a conversation with a tool row whose call is missing *)
(* or a call without its row, so each of them chooses where to cut.        *)
(*                                                                         *)
(* A message carries its role and the ids of the calls it makes; the row   *)
(* that answers a call has the call's id.  Positions count from one: where *)
(* the code says index i of the first message kept, the model says that i  *)
(* messages are dropped.                                                   *)
(***************************************************************************)
EXTENDS Naturals, Integers, Sequences, FiniteSets, SequencesExt, FiniteSetsExt

CONSTANTS
    KeepRecent,      \* KEEP_RECENT_MESSAGES
    RecentMessages,  \* MAX_RECENT_HISTORY_MESSAGES
    PinnedUsers      \* MAX_PINNED_USER_MESSAGES

ASSUME ConversationAssumption ==
    /\ KeepRecent \in Nat \ {0}
    /\ RecentMessages \in Nat \ {0, 1}
    /\ PinnedUsers \in Nat

Message(id, role, calls) == [id |-> id, role |-> role, calls |-> calls]
Drop(h, n) == SubSeq(h, n + 1, Len(h))
Take(h, n) == SubSeq(h, 1, n)
IsTool(m) == m.role = "tool"

(* The messages of h at the positions in S, in their order. *)
Kept(h, S) ==
    LET kept[n \in 0..Len(h)] ==
            IF n = 0 THEN <<>>
            ELSE IF n \in S THEN Append(kept[n - 1], h[n]) ELSE kept[n - 1]
    IN kept[Len(h)]

(* Both halves of isPrefixConsistent, for a whole conversation. *)
NoOrphan(h) ==
    \A i \in DOMAIN h : IsTool(h[i]) =>
        \E j \in 1..(i - 1) : h[i].id \in h[j].calls
NoDangling(h) ==
    \A i \in DOMAIN h : \A c \in h[i].calls :
        \E j \in (i + 1)..Len(h) : IsTool(h[j]) /\ h[j].id = c
Consistent(h) == NoOrphan(h) /\ NoDangling(h)

-----------------------------------------------------------------------------
(* Compaction                                                              *)

(* The rows directly after message i. *)
RowsAfter(h, i) ==
    {j \in (i + 1)..Len(h) : \A k \in (i + 1)..j : IsTool(h[k])}

(* isSafeSplitBoundary: what is kept may start after n dropped messages. *)
SafeBoundary(h, n) ==
    /\ n \in 0..(Len(h) - 1)
    /\ ~IsTool(h[n + 1])
    /\ h[n + 1].calls \subseteq {h[j].id : j \in RowsAfter(h, n + 1)}

SplitPointAnywhere(h) == Max({0, Len(h) - KeepRecent})

(* computeSafeSplitPoint: forward from the wanted place, then backward. *)
SplitPoint(h) ==
    LET initial == Len(h) - KeepRecent
        forward == {n \in initial..Len(h) : SafeBoundary(h, n)}
        backward == {n \in 1..Len(h) : SafeBoundary(h, n)}
    IN IF initial <= 0 THEN 0
       ELSE IF forward # {} THEN Min(forward)
       ELSE IF backward # {} THEN Max(backward)
       ELSE Len(h)

(* extendTailToTokenBudget: messages have any size, so the tail may reach  *)
(* back to any earlier safe boundary but the very first.                   *)
ExtendedSplits(h) ==
    {SplitPoint(h)} \union {n \in 1..(SplitPoint(h) - 1) : SafeBoundary(h, n)}

(* maybeCompact: the conversations one summary request may leave. *)
Compacted(h, summaryId) ==
    IF Len(h) < 2 * KeepRecent THEN {}
    ELSE {<<Message(summaryId, "system", {})>> \o Drop(h, n) :
             n \in ExtendedSplits(h) \ {0}}

-----------------------------------------------------------------------------
(* Snip, trim and fork                                                     *)

(* applySnip; slice(-0) is the whole array. *)
Snipped(h, keep, boundaryId) ==
    IF Len(h) <= keep THEN h
    ELSE <<Message(boundaryId, "system", {})>>
            \o (IF keep = 0 THEN h ELSE Drop(h, Len(h) - keep))

(* trimHistoryForNextTurn: the recent window without the rows at its head, *)
(* the last user messages before it, and no row whose call was left out.   *)
Trimmed(h) ==
    LET recent == {i \in DOMAIN h : i > Len(h) - RecentMessages}
        window == {i \in recent : \E j \in recent : j <= i /\ ~IsTool(h[j])}
        users == {i \in DOMAIN h : h[i].role = "user"}
        pinned == {i \in users : Cardinality({j \in users : j > i}) < PinnedUsers}
        kept == window \union pinned
        issued == UNION {h[i].calls : i \in kept}
        final == {i \in kept : IsTool(h[i]) => h[i].id \in issued}
    IN IF Len(h) <= RecentMessages THEN h ELSE Kept(h, final)

ForkCutBack(h, requested) ==
    Max({n \in 0..Min({requested, Len(h)}) : Consistent(Take(h, n))})

(* computeForkCutPoint.  Past the rows at the cut there is no row left for *)
(* a pending call, so the code's growing loop ends after its first pass.   *)
ForkCut(h, requested) ==
    LET wanted == Min({requested, Len(h)})
        grown == Min({n \in wanted..Len(h) : n = Len(h) \/ ~IsTool(h[n + 1])})
    IN Max({n \in 0..grown : Consistent(Take(h, n))})
=============================================================================
