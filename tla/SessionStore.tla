---------------------------- MODULE SessionStore ----------------------------
(***************************************************************************)
(* A session on disk: the envelope history.json, rewritten whole through a *)
(* rename, and the ledger parts.jsonl, to which a turn's new messages are  *)
(* appended.  A load prefers the ledger.  The process may die between any  *)
(* two file operations and in the middle of an append; it resumes from     *)
(* what a load returns.                                                    *)
(*                                                                         *)
(* The live conversation is the one Conversation shortens: a turn appends  *)
(* to it and may summarise, snip and trim it.  A line of the ledger is a   *)
(* message, a meta record or junk.  Titles and outcomes are left out.      *)
(***************************************************************************)
EXTENDS Conversation

CONSTANTS
    SnipKeeps,   \* the counts given to /snip
    MaxRounds,   \* bound: turns
    MaxFaults,   \* bound: file operations that throw
    MaxCrashes   \* bound: crashes

ASSUME SessionAssumption ==
    /\ SnipKeeps \subseteq Nat
    /\ MaxRounds \in Nat /\ MaxFaults \in Nat /\ MaxCrashes \in Nat

VARIABLES
    history,   \* the live conversation; of a dead process, what it was
    envelope,  \* the messages of history.json, or NoEnvelope
    ledger,    \* parts.jsonl: its lines, and is the last one unterminated?
    pc,        \* where the process stands in a save
    turns, faults, crashes,
    acked,     \* history: what the last finished save, or load, held
    lived,     \* history: the conversations there have been
    spoiled,   \* history: why the ledger cannot be relied on
    broken     \* history: what has split a call from its row

storeVars == <<history, envelope, ledger, pc, turns, faults, crashes, acked, lived,
               spoiled, broken>>
disk == <<envelope, ledger>>

Envelope(h) == [exists |-> TRUE, messages |-> h]
NoEnvelope == [exists |-> FALSE, messages |-> <<>>]

Meta == Message(<<0, 0>>, "meta", {})
Junk == Message(<<0, 0>>, "junk", {})
IsMessage(line) == line \notin {Meta, Junk}

-----------------------------------------------------------------------------
(* The ledger                                                              *)

(* Faulty variant: a line that does not parse is skipped, wherever it is. *)
ReadThrough(l) == Kept(l.lines, {i \in DOMAIN l.lines : IsMessage(l.lines[i])})

(* readParts: the messages before the first line that does not parse. *)
Read(l) ==
    Kept(l.lines, {i \in DOMAIN l.lines :
                      IsMessage(l.lines[i]) /\ \A j \in 1..i : l.lines[j] # Junk})

(* appendLinesSync: the file is opened for appending, so the first line    *)
(* goes on where an unterminated one stopped.                              *)
Appended(l, new) ==
    IF new = <<>> THEN l
    ELSE [lines |-> IF l.open THEN Front(l.lines) \o <<Junk>> \o Tail(new)
                    ELSE l.lines \o new,
          open |-> FALSE]

(* An append cut short: some lines, and a piece of the next one or all of  *)
(* it but its newline.                                                     *)
TornAt(l, new, k, piece) ==
    [lines |-> Appended(l, Append(Take(new, k - 1), piece)).lines, open |-> TRUE]
PartlyAppended(l, new) ==
    UNION {{Appended(l, Take(new, k)), TornAt(l, new, k, new[k]), TornAt(l, new, k, Junk)} :
              k \in DOMAIN new}

(* appendDelta, appendDeltaFrom: the messages the ledger lacks, and a meta. *)
ExtendsByCount(h, persisted) == Len(persisted) <= Len(h)
Extends(h, persisted) == IsPrefix(persisted, h)
Delta(h) == Append(Drop(h, Len(Read(ledger))), Meta)
Rewritten(h) == [lines |-> <<Meta>> \o h, open |-> FALSE]

(* loadSessionEnvelope: what the next process will see. *)
Load ==
    IF Read(ledger) # <<>> THEN Read(ledger) ELSE envelope.messages

-----------------------------------------------------------------------------
(* Turns                                                                   *)

(* Rows of a turn: the user's, the model's with its calls, their results,  *)
(* the answer.  Each message has an id of its own.                         *)
Id(n) == <<turns + 1, n>>
User == Message(Id(1), "user", {})
Round(calls) ==
    IF calls = 0 THEN <<>>
    ELSE <<Message(Id(2), "assistant", {Id(k + 2) : k \in 1..calls})>>
            \o [k \in 1..calls |-> Message(Id(k + 2), "tool", {})]
Answer == Message(Id(5), "assistant", {})

(* The conversation before the model is called: as it is, or summarised. *)
Shortened(h, summary) == {h} \union Compacted(h, Id(summary))

(* What a turn on h leaves: a round of calls is answered, or stays as an   *)
(* abort leaves it.                                                        *)
Completed(h) ==
    {Append(after, Answer) : after \in
        UNION {Shortened(h \o Round(calls), 7) : calls \in 0..2}}
Aborted(h) == {h \o Take(Round(calls), k) : calls \in 1..2, k \in 1..2}
                  \ {h \o Round(calls) : calls \in 1..2}

(* saveSessionIncremental: append when the ledger is a prefix. *)
NextSave(h) ==
    IF envelope.exists /\ Extends(h, Read(ledger))
    THEN "append" ELSE "envelope"

Idle == pc = "idle"
Becomes(h, causes) ==
    /\ history' = h
    /\ lived' = lived \union {h}
    /\ broken' = causes
    /\ UNCHANGED <<disk, faults, crashes, acked, spoiled>>

(* One turn of the REPL; a snip that was queued comes first.  The save is  *)
(* incremental, or full after an interrupt.                                *)
Turn ==
    /\ Idle
    /\ turns < MaxRounds
    /\ turns' = turns + 1
    /\ \E start \in {Append(history, User)} \union
                    {Snipped(Append(history, User), k, Id(8)) : k \in SnipKeeps} :
       \E ready \in Shortened(start, 6) :
       \E h \in Completed(ready) \union Aborted(ready) :
          /\ Becomes(Trimmed(h),
                broken \union (IF NoOrphan(start) THEN {} ELSE {"snip"})
                       \union (IF h \in Aborted(ready) THEN {"abort"} ELSE {}))
          /\ pc' \in {NextSave(Trimmed(h)), "envelope"}

(* /clear *)
Clear ==
    /\ Idle
    /\ turns < MaxRounds
    /\ turns' = turns + 1
    /\ Becomes(<<>>, broken)
    /\ pc' = "envelope"

-----------------------------------------------------------------------------
(* Saves                                                                   *)

Saved ==
    /\ pc' = "idle"
    /\ acked' = history
    /\ UNCHANGED <<history, turns, crashes, lived, broken>>

Fault(next) ==
    /\ faults < MaxFaults
    /\ faults' = faults + 1
    /\ pc' = next
    /\ UNCHANGED <<history, turns, crashes, lived, broken>>

SpoiledByAppend ==
    IF ledger.open THEN spoiled \union {"glued"} ELSE spoiled \ {"behind"}

(* appendDeltaFrom of the incremental save; an error leads to a full one. *)
AppendDelta ==
    /\ pc = "append"
    /\ UNCHANGED envelope
    /\ \/ /\ Saved
          /\ ledger' = Appended(ledger, Delta(history))
          /\ spoiled' = SpoiledByAppend
          /\ UNCHANGED faults
       \/ Fault("envelope") /\ UNCHANGED <<ledger, acked, spoiled>>

(* saveSession: the rename that publishes the envelope, or an error before *)
(* it, which the caller reports.                                           *)
WriteEnvelope ==
    /\ pc = "envelope"
    /\ UNCHANGED <<ledger, acked, spoiled>>
    /\ \/ /\ envelope' = Envelope(history)
          /\ pc' = "mirror"
          /\ UNCHANGED <<history, turns, faults, crashes, lived, broken>>
       \/ Fault("idle") /\ UNCHANGED envelope

(* saveSession's appendDelta; its error is swallowed. *)
MirrorLedger ==
    /\ pc = "mirror"
    /\ UNCHANGED envelope
    /\ \/ /\ Saved
          /\ UNCHANGED faults
          /\ IF Extends(history, Read(ledger))
             THEN /\ ledger' = Appended(ledger, Delta(history))
                  /\ spoiled' = SpoiledByAppend
             ELSE /\ ledger' = Rewritten(history)
                  /\ spoiled' = {}
       \/ /\ Fault("idle")
          /\ acked' = history
          /\ spoiled' = spoiled \union {"behind"}
          /\ UNCHANGED ledger

-----------------------------------------------------------------------------
(* Crash and restart                                                       *)

SpoiledByTear ==
    IF ledger.open THEN {"glued"}
    ELSE IF Read(ledger) = <<>> /\ acked # <<>> THEN {"first"} ELSE {}

(* Between two operations, or inside an append. *)
Crash ==
    /\ pc # "down"
    /\ crashes < MaxCrashes
    /\ crashes' = crashes + 1
    /\ pc' = "down"
    /\ \/ UNCHANGED <<ledger, spoiled, broken>>
       \/ /\ \/ pc = "append"
             \/ pc = "mirror" /\ Extends(history, Read(ledger))
          /\ ledger' \in PartlyAppended(ledger, Delta(history))
          /\ spoiled' = spoiled \union SpoiledByTear
          /\ broken' = broken \union {"crash"}
    /\ UNCHANGED <<history, envelope, turns, faults, acked, lived>>

Restart ==
    /\ pc = "down"
    /\ pc' = "idle"
    /\ history' = Load
    /\ acked' = Load
    /\ spoiled' = spoiled \ {"first"}
    /\ UNCHANGED <<disk, turns, faults, crashes, lived, broken>>

(* A new session, or an older one, which has an envelope and no ledger. *)
OldSession == <<Message(<<0, 1>>, "user", {}), Message(<<0, 5>>, "assistant", {})>>

StoreInit ==
    /\ envelope \in {NoEnvelope, Envelope(OldSession)}
    /\ history = envelope.messages /\ acked = history /\ lived = {<<>>, history}
    /\ ledger = [lines |-> <<>>, open |-> FALSE]
    /\ pc = "idle"
    /\ turns = 0 /\ faults = 0 /\ crashes = 0
    /\ spoiled = {} /\ broken = {}

StoreNext ==
    \/ Turn \/ Clear
    \/ AppendDelta \/ WriteEnvelope \/ MirrorLedger
    \/ Crash \/ Restart

StoreSpec == StoreInit /\ [][StoreNext]_storeVars

-----------------------------------------------------------------------------
(* Properties                                                              *)

(* A crash costs at most the save under way: what a load returns is what   *)
(* the last finished save held, or more of what was being saved.  Three    *)
(* events are excepted: until the ledger is rewritten, an append to an     *)
(* unterminated line and a ledger that could not follow the envelope; and  *)
(* the very first append to the ledger of a session that only its envelope *)
(* holds, when it is cut short.                                            *)
CrashLosesAtMostOneSave ==
    \/ spoiled # {} \/ Load = acked
    \/ /\ pc # "idle"
       /\ \/ Load = history
          \/ IsPrefix(acked, Load) /\ IsPrefix(Load, history)

(* No save, fault or crash makes a conversation up: what a load returns is *)
(* the beginning of one there has been.                                    *)
LoadsWhatWas == \E h \in lived : IsPrefix(Load, h)

(* Summaries and trims keep calls and rows together.  Only a snip, which   *)
(* takes the last messages whatever they are, leaves a row without its     *)
(* call; only it, an abort or a crash inside an append leaves a call       *)
(* without its row.                                                        *)
ShorteningIsSafe ==
    /\ "snip" \notin broken => NoOrphan(history)
    /\ broken = {} => NoDangling(history)

(* A fork of what a load returns is a conversation a provider accepts, and *)
(* of one that is whole it keeps every message that was asked for.         *)
ForkKeepsWhatIsAsked ==
    \A requested \in 0..Len(Load) :
        LET cut == ForkCut(Load, requested) IN
            /\ Consistent(Take(Load, cut))
            /\ Consistent(Load) => cut >= requested

-----------------------------------------------------------------------------
(* Statements of documents and tests that the code does not keep; the      *)
(* README tells how each one fails                                         *)

(* sessionParts.ts: a torn last line is skipped, so a finished save can be *)
(* loaded.                                                                 *)
FinishedSaveLoads == Idle => Load = acked
=============================================================================
