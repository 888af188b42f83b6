--------------------------- MODULE BitemporalRows ---------------------------
(***************************************************************************)
(* The append-only tables valuations and yield_curves, as the upsert_many  *)
(* of their repositories writes them.                                      *)
(*                                                                         *)
(* A session is one execute_run transaction.  It walks its batch chunk by  *)
(* chunk, in order: select the current rows of the chunk, then close those *)
(* that changed and insert the changed and the new ones.  A chunk is one   *)
(* key here.  Postgres runs it READ COMMITTED: a select sees what is       *)
(* committed at that moment, a write waits for another session's           *)
(* uncommitted write of the same key, and now() is the moment the          *)
(* transaction began.  The partial unique index allows one row of a key    *)
(* with superseded_at NULL.                                                *)
(*                                                                         *)
(* A catch-up has one session at a time; commands an operator runs by hand *)
(* take no lock and add sessions.                                          *)
(***************************************************************************)
EXTENDS Integers, Sequences, FiniteSets

CONSTANTS NumKeys, Value, Session,
          MaxClock  \* bound on transactions, each of which begins at its own time

ASSUME KeysAssumption == NumKeys \in Nat \ {0}
ASSUME ClockAssumption == MaxClock \in Nat

Key == 1 .. NumKeys
Null == 0
Time == 1 .. MaxClock

VARIABLES
    rows,      \* rows[k]: the versions of key k, in the order of their insertion
    clock,     \* the time
    now,       \* now[s]: when the transaction of s began; Null without one
    fetched,   \* fetched[s][k]: the value s has to write
    at,        \* at[s]: the chunk s has come to
    selected,  \* selected[s][k]: the version its select returned, 0 for none; -1 before
    pending,   \* pending[s]: keys whose version s has closed and inserted
    overlapped \* two sessions have been open at the same time

vars == <<rows, clock, now, fetched, at, selected, pending, overlapped>>

NotSelected == -1
NoBatch == <<>>
RowVersion == [value : Value, loaded : Time, superseded : Time \cup {Null}]

TypeOK ==
    /\ rows \in [Key -> Seq(RowVersion)]
    /\ clock \in 0 .. MaxClock
    /\ now \in [Session -> Time \cup {Null}]
    /\ fetched \in [Session -> [Key -> Value] \cup {NoBatch}]
    /\ at \in [Session -> 1 .. NumKeys + 1]
    /\ selected \in [Session -> [Key -> Nat \cup {NotSelected}]]
    /\ pending \in [Session -> SUBSET Key]
    /\ overlapped \in BOOLEAN

NothingSelected == [k \in Key |-> NotSelected]

Init ==
    /\ rows = [k \in Key |-> <<>>]
    /\ clock = 0
    /\ now = [s \in Session |-> Null]
    /\ fetched = [s \in Session |-> NoBatch]
    /\ at = [s \in Session |-> 1]
    /\ selected = [s \in Session |-> NothingSelected]
    /\ pending = [s \in Session |-> {}]
    /\ overlapped = FALSE

Current(k) == {n \in DOMAIN rows[k] : rows[k][n].superseded = Null}

(* The source answers with values for every key; the session begins.       *)
Begin(s) ==
    /\ now[s] = Null
    /\ clock < MaxClock
    /\ clock' = clock + 1
    /\ now' = [now EXCEPT ![s] = clock + 1]
    /\ \E f \in [Key -> Value] : fetched' = [fetched EXCEPT ![s] = f]
    /\ overlapped' = (overlapped \/ \E t \in Session : now[t] # Null)
    /\ UNCHANGED <<rows, at, selected, pending>>

(* The index leaves at most one current row to find.                       *)
Select(s) ==
    LET k == at[s]
        found == IF Current(k) = {} THEN 0 ELSE CHOOSE n \in Current(k) : TRUE
    IN  /\ now[s] # Null /\ k \in Key
        /\ selected[s][k] = NotSelected
        /\ selected' = [selected EXCEPT ![s][k] = found]
        /\ UNCHANGED <<rows, clock, now, fetched, at, pending, overlapped>>

Selected(s) == now[s] # Null /\ at[s] \in Key /\ selected[s][at[s]] # NotSelected

Unchanged(s) ==
    LET k == at[s] IN
    selected[s][k] # 0 /\ rows[k][selected[s][k]].value = fetched[s][k]

NextChunk(s) == at' = [at EXCEPT ![s] = @ + 1]

KeepsRow(s) ==
    /\ Selected(s) /\ Unchanged(s)
    /\ NextChunk(s)
    /\ UNCHANGED <<rows, clock, now, fetched, selected, pending, overlapped>>

(* Another session's write of the key is not committed yet.                *)
Waits(s) == \E t \in Session \ {s} : at[s] \in pending[t]

(* Mutant: the unique index on the current rows is gone.                   *)
Collides_Never(s) == FALSE

(* The key has a current row that this session has not closed.             *)
Collides(s) == Current(at[s]) \ {selected[s][at[s]]} # {}

(* UPDATE ... superseded_at, and INSERT: nobody sees them before commit.   *)
Restates(s) ==
    /\ Selected(s) /\ ~Unchanged(s)
    /\ ~Waits(s) /\ ~Collides(s)
    /\ pending' = [pending EXCEPT ![s] = @ \cup {at[s]}]
    /\ NextChunk(s)
    /\ UNCHANGED <<rows, clock, now, fetched, selected, overlapped>>

Ends(s) ==
    /\ now' = [now EXCEPT ![s] = Null]
    /\ fetched' = [fetched EXCEPT ![s] = NoBatch]
    /\ at' = [at EXCEPT ![s] = 1]
    /\ selected' = [selected EXCEPT ![s] = NothingSelected]
    /\ pending' = [pending EXCEPT ![s] = {}]

Closed_Restamped(k, s) ==  \* mutant: the UPDATE stamps every version of the key
    [n \in DOMAIN rows[k] |-> [rows[k][n] EXCEPT !.superseded = now[s]]]

(* The UPDATE names the version by its id, whatever has become of it.      *)
Closed(k, s) ==
    [n \in DOMAIN rows[k] |->
        IF n = selected[s][k] THEN [rows[k][n] EXCEPT !.superseded = now[s]] ELSE rows[k][n]]

NewVersion_Backdated(k, s) ==  \* mutant: stamped with the time before the run
    [value |-> fetched[s][k], loaded |-> now[s] - 1, superseded |-> Null]

NewVersion(k, s) == [value |-> fetched[s][k], loaded |-> now[s], superseded |-> Null]

Commit(s) ==
    /\ now[s] # Null /\ at[s] = NumKeys + 1
    /\ rows' = [k \in Key |-> IF k \in pending[s]
                              THEN Append(Closed(k, s), NewVersion(k, s))
                              ELSE rows[k]]
    /\ Ends(s)
    /\ UNCHANGED <<clock, overlapped>>

(* A unique violation, a deadlock Postgres breaks, any other error, a crash. *)
Rollback(s) ==
    /\ now[s] # Null
    /\ Ends(s)
    /\ UNCHANGED <<rows, clock, overlapped>>

Next ==
    \E s \in Session :
        Begin(s) \/ Select(s) \/ KeepsRow(s) \/ Restates(s) \/ Commit(s) \/ Rollback(s)

Spec == Init /\ [][Next]_vars

(***************************************************************************)
(* Properties.                                                             *)
(***************************************************************************)

(* Whatever runs overlap, a key with versions has exactly one current one: *)
(* the index turns the loser of a race into a failed run.                  *)
OneCurrentVersion ==
    \A k \in Key : rows[k] # <<>> => Cardinality(Current(k)) = 1

(* What keeps it so: a key a session has closed is no other session's, and *)
(* no version of it is current but the one the session will supersede.     *)
WritesApart ==
    /\ \A s \in Session : now[s] # Null => fetched[s] \in [Key -> Value]
    /\ \A s \in Session, k \in Key :
          /\ selected[s][k] # NotSelected => selected[s][k] \in 0 .. Len(rows[k])
          /\ k \in pending[s] =>
                now[s] # Null /\ selected[s][k] # NotSelected /\ Current(k) \subseteq {selected[s][k]}
    /\ \A s, t \in Session : s # t => pending[s] \cap pending[t] = {}

(* Append-only: a version keeps its value and load time for good, and once *)
(* superseded keeps that stamp, whatever sessions overlap.                 *)
Survives(old, new) ==
    /\ new.value = old.value /\ new.loaded = old.loaded
    /\ old.superseded # Null => new.superseded = old.superseded

NothingForgotten ==
    [][\A k \in Key : \A n \in DOMAIN rows[k] :
          n \in DOMAIN rows'[k] /\ Survives(rows[k][n], rows'[k][n])]_vars

(* "what did we believe on date X" has one answer: from the first load on, *)
(* each moment lies in the life of exactly one version, as long as no two  *)
(* sessions have overlapped.  (Of two that do, the one that began first    *)
(* may supersede the other's row, and ends its life before its loaded_at.) *)
Believed(k, t) ==
    {n \in DOMAIN rows[k] : /\ rows[k][n].loaded <= t
                            /\ rows[k][n].superseded = Null \/ t < rows[k][n].superseded}

BeliefAnswerable ==
    ~overlapped =>
        \A k \in Key, t \in 1 .. clock :
            (\E n \in DOMAIN rows[k] : rows[k][n].loaded <= t)
            => Cardinality(Believed(k, t)) = 1

(* While no two sessions have overlapped, each version of a key begins     *)
(* when the one before ends, and all began before an open session did.     *)
LivesChained ==
    /\ \A s, t \in Session : now[s] # Null /\ now[t] # Null => s = t
    /\ \A k \in Key : \A n \in DOMAIN rows[k] :
          /\ rows[k][n].superseded = IF n = Len(rows[k]) THEN Null ELSE rows[k][n + 1].loaded
          /\ \A m \in DOMAIN rows[k] : m < n => rows[k][m].loaded < rows[k][n].loaded
          /\ rows[k][n].loaded <= clock
          /\ \A s \in Session : now[s] # Null => rows[k][n].loaded < now[s]

IInv ==
    /\ TypeOK
    /\ \A k \in Key : rows[k] # <<>> => \E n \in DOMAIN rows[k] : Current(k) = {n}
    /\ WritesApart
    /\ \A s \in Session : now[s] <= clock
    /\ ~overlapped => LivesChained
=============================================================================
