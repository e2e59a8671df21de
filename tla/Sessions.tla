------------------------------ MODULE Sessions ------------------------------
(* The session of one client in FilesSessionEngine                          *)
(* (vibora/sessions/files.py, sessions/base.py): requests that reach any    *)
(* worker process load it (vibora/request/request.pyx), change it, and      *)
(* flush it after the endpoint (vibora/server.py).  The coroutines of the   *)
(* engine never suspend, so inside one worker a load or a save is a step;   *)
(* the processes share nothing but the files.                               *)
EXTENDS Integers, Sequences, FiniteSets

CONSTANTS
    Requests,   \* each one makes one change, and names the uuid it may draw
    Workers,
    None,
    MaxDeaths   \* bound on the workers that are killed

ASSUME NoneAssumption == None \notin Requests \cup Seq(SUBSET Requests)

VARIABLES
    jar,        \* the cookie of the client, None or a uuid
    store,      \* [uuid -> the content of its file, or None]
    state,      \* where each request is
    where,      \* the worker of each request
    cookie,     \* what each request was sent with
    session,    \* request._session: values, pending_flush, uuid
    seen,       \* history: the requests whose answers preceded the request
    cleared,    \* history: the requests that called clear()
    spoiled,    \* history: files with two writers at once, or a killed one
    deaths

vars == <<jar, store, state, where, cookie, session, seen, cleared, spoiled, deaths>>
client == <<jar, where, cookie, seen>>
faults == <<spoiled, deaths>>

NoSession == [values |-> {}, pending_flush |-> FALSE, uuid |-> None]

Init ==
    /\ jar = None
    /\ store = [id \in Requests |-> None]
    /\ state = [r \in Requests |-> "new"]
    /\ where \in [Requests -> Workers]
    /\ cookie = [r \in Requests |-> None]
    /\ session = [r \in Requests |-> NoSession]
    /\ seen = [r \in Requests |-> {}]
    /\ cleared = {} /\ spoiled = {} /\ deaths = 0

To(r, s) == state' = [state EXCEPT ![r] = s]

(* dumps(): of another length for each number of values; and what loads()   *)
(* makes of a file, which fails unless it is one dump.                      *)
Dumps(values) == [i \in 1 .. Cardinality(values) + 1 |-> values]
Loadable(content) == content # <<>> /\ content = Dumps(Head(content))

Saving(id) == {r \in Requests : state[r] = "saving" /\ session[r].uuid = id}

(* No other request of the worker is inside its save.                       *)
Free(r) == \A q \in Requests \ {r} : state[q] = "saving" => where[q] # where[r]

-----------------------------------------------------------------------------
Send(r) ==
    /\ state[r] = "new"
    /\ To(r, "sent")
    /\ cookie' = [cookie EXCEPT ![r] = jar]
    /\ seen' = [seen EXCEPT ![r] = {q \in Requests : state[q] \in {"done", "failed"}}]
    /\ UNCHANGED <<jar, where, store, session, cleared, faults>>

(* Mutant: the values of a known session are not loaded. *)
LoadFresh(r) ==
    /\ state[r] = "sent" /\ Free(r)
    /\ To(r, "loaded")
    /\ session' = [session EXCEPT
          ![r].uuid = IF cookie[r] = None THEN r ELSE cookie[r]]
    /\ UNCHANGED <<client, store, cleared, faults>>

(* load(): json fails on a file that is empty or mixed, and nobody catches  *)
(* it; a missing cookie or file makes a new session.                        *)
Load(r) ==
    /\ state[r] = "sent" /\ Free(r)
    /\ LET id == cookie[r]
           known == id # None /\ store[id] # None
       IN IF known /\ ~Loadable(store[id])
          THEN To(r, "failed") /\ UNCHANGED session
          ELSE /\ To(r, "loaded")
               /\ session' = [session EXCEPT
                     ![r].values = IF known THEN Head(store[id]) ELSE {},
                     ![r].uuid = IF known THEN id ELSE r]
    /\ UNCHANGED <<client, store, cleared, faults>>

SetItem(r) ==
    /\ state[r] = "loaded" /\ Free(r) /\ r \notin session[r].values
    /\ session' = [session EXCEPT ![r].values = @ \cup {r}, ![r].pending_flush = TRUE]
    /\ UNCHANGED <<client, store, state, cleared, faults>>

Clear(r) ==
    /\ state[r] = "loaded" /\ Free(r) /\ session[r].values # {}
    /\ session' = [session EXCEPT ![r].values = {}, ![r].pending_flush = TRUE]
    /\ cleared' = cleared \cup {r}
    /\ UNCHANGED <<client, store, state, faults>>

(* The endpoint raises: its AFTER_ENDPOINT hooks are not called. *)
Raise(r) ==
    /\ state[r] = "loaded" /\ Free(r)
    /\ To(r, "failed")
    /\ UNCHANGED <<client, store, session, cleared, faults>>

(* Mutant: the file is not truncated. *)
OpenToUpdate(r) ==
    /\ state[r] = "loaded" /\ Free(r)
    /\ IF session[r].pending_flush
       THEN LET id == session[r].uuid
            IN /\ To(r, "saving")
               /\ store' = [store EXCEPT ![id] = IF @ = None THEN <<>> ELSE @]
               /\ spoiled' = IF Saving(id) = {} THEN spoiled ELSE spoiled \cup {id}
       ELSE To(r, "done") /\ UNCHANGED <<store, spoiled>>
    /\ UNCHANGED <<client, session, cleared, deaths>>

(* flush_session, then save(): open(..., 'w') truncates the file. *)
Flush(r) ==
    /\ state[r] = "loaded" /\ Free(r)
    /\ IF session[r].pending_flush
       THEN LET id == session[r].uuid
            IN /\ To(r, "saving")
               /\ store' = [store EXCEPT ![id] = <<>>]
               /\ spoiled' = IF Saving(id) = {} THEN spoiled ELSE spoiled \cup {id}
       ELSE To(r, "done") /\ UNCHANGED <<store, spoiled>>
    /\ UNCHANGED <<client, session, cleared, deaths>>

(* The buffer goes to the file at its start, over what another worker wrote *)
(* since; and the response gets its cookie.                                 *)
Write(r) ==
    /\ state[r] = "saving"
    /\ LET id == session[r].uuid
           dump == Dumps(session[r].values)
       IN store' = [store EXCEPT ![id] =
                       dump \o SubSeq(@, Len(dump) + 1, Len(@))]
    /\ To(r, "saved")
    /\ UNCHANGED <<client, session, cleared, faults>>

Answer(r) ==
    /\ state[r] = "saved"
    /\ To(r, "done")
    /\ jar' = session[r].uuid
    /\ UNCHANGED <<store, where, cookie, session, seen, cleared, faults>>

(* A worker is terminated, inside a save or not. *)
Die(w) ==
    /\ deaths < MaxDeaths
    /\ LET held == {r \in Requests : where[r] = w /\ state[r] \in {"sent", "loaded", "saving"}}
       IN /\ held # {}
          /\ state' = [r \in Requests |-> IF r \in held THEN "failed" ELSE state[r]]
          /\ spoiled' = spoiled \cup {session[r].uuid : r \in {q \in held : state[q] = "saving"}}
    /\ deaths' = deaths + 1
    /\ UNCHANGED <<client, store, session, cleared>>

Next ==
    \/ \E r \in Requests :
          \/ Send(r) \/ Load(r) \/ SetItem(r) \/ Clear(r) \/ Raise(r)
          \/ Flush(r) \/ Write(r) \/ Answer(r)
    \/ \E w \in Workers : Die(w)

Spec == Init /\ [][Next]_vars

-----------------------------------------------------------------------------
(* Every variable has its type: a file is a sequence of what was dumped.   *)
Values == {v \in SUBSET Requests : IsFiniteSet(v)}
Files == Seq(Values) \cup {None}
SessionValues == [values : Values, pending_flush : BOOLEAN, uuid : Requests \cup {None}]

TypeOK ==
    /\ jar \in Requests \cup {None}
    /\ store \in [Requests -> Files]
    /\ state \in [Requests -> {"new", "sent", "loaded", "saving", "saved", "done", "failed"}]
    /\ where \in [Requests -> Workers]
    /\ cookie \in [Requests -> Requests \cup {None}]
    /\ session \in [Requests -> SessionValues]
    /\ seen \in [Requests -> SUBSET Requests]
    /\ cleared \subseteq Requests /\ spoiled \subseteq Requests /\ deaths \in Nat

(* A file nobody is writing is one whole dump, so that every request of the *)
(* session can load it, unless two workers wrote it at once or one was      *)
(* killed while it wrote (sessions/files.py:22-41): then it may be mixed or *)
(* empty for good, and every request of the client fails.                   *)
FileWhole ==
    \A id \in Requests :
        store[id] # None /\ Saving(id) = {} /\ id \notin spoiled => Loadable(store[id])

(* What an answered request stored is in the session its client goes on     *)
(* with, unless a request that was neither sent after its answer nor        *)
(* answered before it was sent stored the session too, or one cleared it:   *)
(* load, endpoint and flush are not one step (files.py:18-41,               *)
(* request.pyx:157-164).                                                    *)
Stored(q) == state[q] \in {"saving", "saved", "done"} /\ session[q].pending_flush

Kept ==
    \A r \in Requests :
        /\ state[r] = "done" /\ r \in session[r].values
        /\ Saving(jar) = {} /\ jar \notin spoiled
        => \/ Loadable(store[jar]) /\ r \in Head(store[jar])
           \/ \E q \in Requests \ {r} :
                 Stored(q) /\ (q \in cleared \/ (r \notin seen[q] /\ q \notin seen[r]))

=============================================================================
