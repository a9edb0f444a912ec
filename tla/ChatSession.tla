---------------------------- MODULE ChatSession ----------------------------
(***************************************************************************)
(* LlmSession (sapient-ffi): threads of the host app take turns and reset  *)
(* the conversation.  A turn copies the history, generates under the       *)
(* engine's lock, and commits both of its messages when it has a reply.    *)
(***************************************************************************)
EXTENDS Naturals, Sequences, SequencesExt

CONSTANTS
    Turns,          \* the turns the host makes, each once
    RESETS,         \* bound on the number of resets
    NoTurn

ASSUME SessionAssumption == NoTurn \notin Turns /\ RESETS \in Nat

VARIABLES
    history,        \* messages: <<"system">>, <<"user", t>>, <<"assistant", t>>
    turnPc,         \* turn -> idle, asked, generating, replied, committed, failed
    snapshot,       \* turn -> the messages it is generated from
    engine,         \* the turn that holds the engine's lock
    resetting,      \* a reset has cleared the history and waits for the engine
    resets,         \* history variable: resets so far
    begun           \* turn -> resets before its snapshot

csVars == <<history, turnPc, snapshot, engine, resetting, resets, begun>>

Seeded == <<<<"system">>>>

CsInit ==
    /\ history = Seeded
    /\ turnPc = [t \in Turns |-> "idle"]
    /\ snapshot = [t \in Turns |-> <<>>]
    /\ engine = NoTurn
    /\ resetting = FALSE /\ resets = 0
    /\ begun = [t \in Turns |-> 0]

SetTurn(t, pc) == turnPc' = [turnPc EXCEPT ![t] = pc]

\* messages_with: the history and the new message; nothing is written.
AskTurn(t) ==
    /\ turnPc[t] = "idle"
    /\ snapshot' = [snapshot EXCEPT ![t] = Append(history, <<"user", t>>)]
    /\ begun' = [begun EXCEPT ![t] = resets]
    /\ SetTurn(t, "asked")
    /\ UNCHANGED <<history, engine, resetting, resets>>

LockEngine(t) ==
    /\ turnPc[t] = "asked" /\ engine = NoTurn
    /\ engine' = t
    /\ SetTurn(t, "generating")
    /\ UNCHANGED <<history, snapshot, resetting, resets, begun>>

\* chat has its reply; chat_stream has the whole reply, or text that ends with an error.
Replied(t) ==
    /\ turnPc[t] = "generating"
    /\ engine' = NoTurn
    /\ SetTurn(t, "replied")
    /\ UNCHANGED <<history, snapshot, resetting, resets, begun>>

\* The listener cancels: the part it has seen is the reply, the engine stops at its next token.
CancelTurn(t) ==
    /\ turnPc[t] = "generating"
    /\ SetTurn(t, "replied")
    /\ UNCHANGED <<history, snapshot, engine, resetting, resets, begun>>

EngineStops(t) ==
    /\ engine = t /\ turnPc[t] # "generating"
    /\ engine' = NoTurn
    /\ UNCHANGED <<history, turnPc, snapshot, resetting, resets, begun>>

\* chat returns Err.
ChatFails(t) ==
    /\ turnPc[t] = "generating"
    /\ engine' = NoTurn
    /\ SetTurn(t, "failed")
    /\ UNCHANGED <<history, snapshot, resetting, resets, begun>>

\* Mutant: the turn commits the messages it was generated from.
CommitTurn_ReplaysSnapshot(t) ==
    /\ turnPc[t] = "replied"
    /\ history' = Append(snapshot[t], <<"assistant", t>>)
    /\ SetTurn(t, "committed")
    /\ UNCHANGED <<snapshot, engine, resetting, resets, begun>>

\* commit_turn: both messages under one lock.
CommitTurn(t) ==
    /\ turnPc[t] = "replied"
    /\ history' = history \o <<<<"user", t>>, <<"assistant", t>>>>
    /\ SetTurn(t, "committed")
    /\ UNCHANGED <<snapshot, engine, resetting, resets, begun>>

\* reset seeds the history, then waits for the engine to clear its cache.
ResetHistory ==
    /\ resets < RESETS /\ ~resetting
    /\ history' = Seeded
    /\ resets' = resets + 1 /\ resetting' = TRUE
    /\ UNCHANGED <<turnPc, snapshot, engine, begun>>

ResetEngine ==
    /\ resetting /\ engine = NoTurn
    /\ resetting' = FALSE
    /\ UNCHANGED <<history, turnPc, snapshot, engine, resets, begun>>

CsNext ==
    \/ \E t \in Turns : AskTurn(t) \/ LockEngine(t) \/ Replied(t) \/ CancelTurn(t) \/ EngineStops(t)
                         \/ ChatFails(t) \/ CommitTurn(t)
    \/ ResetHistory \/ ResetEngine

CsSpec == CsInit /\ [][CsNext]_csVars

-----------------------------------------------------------------------------

\* The turns whose messages the history holds.
InHistory == {t \in Turns : \E i \in DOMAIN history : history[i] = <<"user", t>>}

\* Whatever turns and resets overlap, the history is the system prompt and then whole turns, each
\* once and each with its own reply; it has every turn that was asked after the last reset and
\* has been committed, and no turn that failed or is still in flight.
HistoryOfWholeTurns ==
    /\ Head(history) = <<"system">>
    /\ Len(history) = 1 + 2 * Cardinality(InHistory)
    /\ \A t \in InHistory : \E i \in DOMAIN history :
          history[i] = <<"user", t>> /\ i < Len(history) /\ history[i + 1] = <<"assistant", t>>
    /\ InHistory \subseteq {t \in Turns : turnPc[t] = "committed"}
    /\ {t \in Turns : turnPc[t] = "committed" /\ begun[t] = resets} \subseteq InHistory
=============================================================================
