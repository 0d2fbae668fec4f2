-------------------------- MODULE ConnectionCache --------------------------
(***************************************************************************)
(* The durable cache of validated PMS connections                          *)
(* (internal/connectioncache/cache.go), at the key of one account and      *)
(* machine.  Put reads the file, changes it and replaces it by a rename,   *)
(* under a mutex of the process; a crash in between leaves the file as it  *)
(* was.  Temporary files that a crash leaves behind are never read.        *)
(***************************************************************************)
EXTENDS Selections

CONSTANTS Users,          \* goroutines that use the store
          Connections,    \* plexauth.Connection
          MaxCandidates,
          NoConnection,   \* the zero Connection
          Nobody          \* nobody holds the mutex

ASSUME ConnectionCacheAssumption ==
  /\ MaxCandidates \in Nat \ {0}
  /\ NoConnection \notin Connections
  /\ Nobody \notin Users

VARIABLES
  file,     \* Connections and Histories of the file, at the key
  mutex,    \* who holds Store.mu across steps
  loaded    \* loaded[u]: what u's Put has read

storeVars == <<file, mutex, loaded>>

NoEntry == [current |-> NoConnection, history |-> <<>>]

StoreTypeOK ==
  /\ file.current \in Connections \cup {NoConnection}
  /\ Len(file.history) <= MaxCandidates
  /\ \A i \in DOMAIN file.history : file.history[i] \in Connections
  /\ mutex \in Users \cup {Nobody}
  /\ DOMAIN loaded = Users

\* The file is absent, or was written before there were histories.
StoreInit ==
  /\ file \in {NoEntry} \cup {[current |-> c, history |-> <<>>] : c \in Connections}
  /\ mutex = Nobody
  /\ loaded = [u \in Users |-> NoEntry]

AtOtherURIs == [c \in Connections |-> {d \in Connections : d.uri # c.uri}]

PrependUnique(c, cs) == <<c>> \o Among(cs, AtOtherURIs[c])

\* Mutation: nothing is forgotten.
Uncut(cs) == cs

Newest(cs) == SubSeq(cs, 1, IF Len(cs) < MaxCandidates THEN Len(cs) ELSE MaxCandidates)

\* The current connection in front of the history.
WithCurrent(f) ==
  IF f.current = NoConnection THEN f.history ELSE PrependUnique(f.current, f.history)

CandidatesOf(f) == Newest(WithCurrent(f))

\* Mutation: the history forgets what was current.
AfterPutOfHistory(f, c) ==
  [current |-> c, history |-> Newest(PrependUnique(c, f.history))]

AfterPut(f, c) == [current |-> c, history |-> Newest(PrependUnique(c, WithCurrent(f)))]

----------------------------------------------------------------------------

\* Mutation: no mutex.
NotLocked == TRUE

Free == mutex = Nobody

\* Candidates, which holds the mutex while it reads; an unreadable file is an
\* error, and its caller goes on without candidates.
Candidates(cs) ==
  /\ Free
  /\ cs \in {CandidatesOf(file), <<>>}
  /\ UNCHANGED storeVars

PutLoad(u) ==
  /\ Free
  /\ mutex' = u
  /\ loaded' = [loaded EXCEPT ![u] = file]
  /\ UNCHANGED file

\* The rename.
PutSave(u, c) ==
  /\ file' = AfterPut(loaded[u], c)
  /\ mutex' = Nobody
  /\ loaded' = [loaded EXCEPT ![u] = NoEntry]

\* Reading the old file, or writing the new one, failed.
PutFails(u) ==
  /\ mutex' = Nobody
  /\ loaded' = [loaded EXCEPT ![u] = NoEntry]
  /\ UNCHANGED file

StoreCrash ==
  /\ mutex' = Nobody
  /\ loaded' = [u \in Users |-> NoEntry]
  /\ UNCHANGED file
=============================================================================
