--------------------------- MODULE ConventionsIndex ---------------------------
(***************************************************************************)
(* The jobs that index a repository's conventions                          *)
(* (index_repo_conventions_task, backend/app/parser/conventions.py): clone *)
(* the repository, cut its documents into chunks, delete the repository's  *)
(* chunks in Chroma and add the new ones, batch by batch.                  *)
(*                                                                         *)
(* A worker process keeps the Chroma client it made first: of the server,  *)
(* or, when the server did not answer, of its local directory, which all   *)
(* workers of the host share under a file lock.  Writes to the server take *)
(* no lock.  Chroma is external: add leaves ids alone that it has already. *)
(***************************************************************************)
EXTENDS Naturals, FiniteSets

CONSTANTS
  Workers,     \* worker processes of one host
  Chunks,      \* Chunks[v]: how many chunks version v of the repository has
  MaxRequests, \* bound: index tasks published
  MaxRetries,  \* max_retries of the task, 2 in the code
  MaxCrashes   \* bound: worker crashes

Versions == DOMAIN Chunks

ASSUME ChunksAssumption ==
  /\ Chunks \in [Versions -> Nat]
  /\ IsFiniteSet(Versions) /\ Versions # {} /\ Versions = 0 .. (Cardinality(Versions) - 1)
ASSUME IndexBounds == MaxRequests \in Nat /\ MaxRetries \in Nat /\ MaxCrashes \in Nat

VARIABLES
  head,       \* the version a clone gets
  requests,   \* index tasks published so far
  queue,      \* queue[n]: tasks that were retried n times
  crashes,    \* crashes so far
  client,     \* client[w]: the Chroma client that w has cached
  pc,         \* pc[w]: the next step of w's task
  tries,      \* tries[w]: retries of w's task
  clone,      \* clone[w]: the version w works on
  added,      \* added[w]: chunks w has added
  lock,       \* holder of ./chroma_data/chroma_write.lock, or NoWorker
  index,      \* index[c][i]: the version of chunk i in store c, or NoChunk
  disturbed   \* history: stores where a write failed or two writers met, since
              \* a writer that was alone last emptied it

jobVars == <<pc, tries, clone, added>>
vars == <<head, requests, queue, crashes, client, jobVars, lock, index, disturbed>>

Stores   == {"server", "local"}
Ids      == UNION {1 .. Chunks[v] : v \in Versions}
NoChunk  == Cardinality(Versions)
NoWorker == "nobody"
Writing  == {"delete", "add"}
Steps    == {"idle", "clone", "connect", "begin", "retry", "ack"} \cup Writing

ASSUME WorkersAssumption == NoWorker \notin Workers

TypeOK ==
  /\ head \in Versions
  /\ requests \in 0 .. MaxRequests
  /\ queue \in [0 .. MaxRetries -> Nat]
  /\ crashes \in 0 .. MaxCrashes
  /\ client \in [Workers -> Stores \cup {"none"}]
  /\ pc \in [Workers -> Steps]
  /\ tries \in [Workers -> 0 .. MaxRetries]
  /\ clone \in [Workers -> Versions]
  /\ added \in [Workers -> Ids \cup {0}]
  /\ lock \in Workers \cup {NoWorker}
  /\ index \in [Stores -> [Ids -> Versions \cup {NoChunk}]]
  /\ disturbed \subseteq Stores

Init ==
  /\ head = 0
  /\ requests = 0
  /\ queue = [n \in 0 .. MaxRetries |-> 0]
  /\ crashes = 0
  /\ client = [w \in Workers |-> "none"]
  /\ pc = [w \in Workers |-> "idle"]
  /\ tries = [w \in Workers |-> 0]
  /\ clone = [w \in Workers |-> 0]
  /\ added = [w \in Workers |-> 0]
  /\ lock = NoWorker
  /\ index = [c \in Stores |-> [i \in Ids |-> NoChunk]]
  /\ disturbed = {}

-----------------------------------------------------------------------------
Goto(w, step) == pc' = [pc EXCEPT ![w] = step]
Enqueue(n) == queue' = [queue EXCEPT ![n] = @ + 1]
Store(w) == index[client[w]]
Writers(c) == {w \in Workers : pc[w] \in Writing /\ client[w] = c}
Disturb(w) == disturbed' = disturbed \cup {client[w]}

\* The locals of a task that is over.
Forget(w) == tries' = [tries EXCEPT ![w] = 0] /\ added' = [added EXCEPT ![w] = 0]

\* Mutant of Unlock: the lock is kept.
KeepLock(w) == UNCHANGED lock

\* The with block of the lock is left, whoever holds it.
Unlock(w) == lock' = IF lock = w THEN NoWorker ELSE lock

-----------------------------------------------------------------------------
(* The environment                                                         *)

Push ==
  /\ head + 1 \in Versions
  /\ head' = head + 1
  /\ UNCHANGED <<requests, queue, crashes, client, jobVars, lock, index, disturbed>>

\* An installation handler publishes the task.
Request ==
  /\ requests < MaxRequests
  /\ requests' = requests + 1
  /\ Enqueue(0)
  /\ UNCHANGED <<head, crashes, client, jobVars, lock, index, disturbed>>

Take(w, n) ==
  /\ pc[w] = "idle"
  /\ queue[n] > 0
  /\ queue' = [queue EXCEPT ![n] = @ - 1]
  /\ tries' = [tries EXCEPT ![w] = n]
  /\ Goto(w, "clone")
  /\ UNCHANGED <<head, requests, crashes, client, clone, added, lock, index, disturbed>>

\* The process is lost: its task is delivered again, its lock and its client go.
Crash(w) ==
  /\ crashes < MaxCrashes
  /\ pc[w] # "idle"
  /\ crashes' = crashes + 1
  /\ Enqueue(tries[w])
  /\ Goto(w, "idle")
  /\ client' = [client EXCEPT ![w] = "none"]
  /\ Unlock(w)
  /\ IF pc[w] \in Writing THEN Disturb(w) ELSE UNCHANGED disturbed
  /\ Forget(w)
  /\ UNCHANGED <<head, requests, clone, index>>

-----------------------------------------------------------------------------
(* clone_and_index_repo and index_repo_conventions                         *)

\* The clone and the chunks made of it; a repository without documents is left as
\* it was.
Clone(w) ==
  /\ pc[w] = "clone"
  /\ clone' = [clone EXCEPT ![w] = head]
  /\ added' = [added EXCEPT ![w] = 0]
  /\ Goto(w, IF Chunks[head] = 0 THEN "ack" ELSE "connect")
  /\ UNCHANGED <<head, requests, queue, crashes, client, tries, lock, index, disturbed>>

\* _get_chroma_client: the cached client, or the server's, or the local one.
Connect(w) ==
  /\ pc[w] = "connect"
  /\ \E c \in Stores :
       /\ client[w] \in {"none", c}
       /\ client' = [client EXCEPT ![w] = c]
  /\ Goto(w, "begin")
  /\ UNCHANGED <<head, requests, queue, crashes, tries, clone, added, lock, index, disturbed>>

\* Mutant of Begin: the lock is there, but nobody waits for it.
BeginAtOnce(w) ==
  /\ pc[w] = "begin"
  /\ IF client[w] = "local"
     THEN lock' = w /\ UNCHANGED disturbed
     ELSE UNCHANGED lock /\ IF Writers("server") = {} THEN UNCHANGED disturbed ELSE Disturb(w)
  /\ Goto(w, "delete")
  /\ UNCHANGED <<head, requests, queue, crashes, client, tries, clone, added, index>>

\* _execute_chroma_writes starts, under the file lock when the store is local.
Begin(w) ==
  /\ pc[w] = "begin"
  /\ IF client[w] = "local"
     THEN lock = NoWorker /\ lock' = w /\ UNCHANGED disturbed
     ELSE UNCHANGED lock /\ IF Writers("server") = {} THEN UNCHANGED disturbed ELSE Disturb(w)
  /\ Goto(w, "delete")
  /\ UNCHANGED <<head, requests, queue, crashes, client, tries, clone, added, index>>

Delete(w) ==
  /\ pc[w] = "delete"
  /\ index' = [index EXCEPT ![client[w]] = [i \in Ids |-> NoChunk]]
  /\ disturbed' = IF Writers(client[w]) = {w} THEN disturbed \ {client[w]} ELSE disturbed
  /\ Goto(w, "add")
  /\ UNCHANGED <<head, requests, queue, crashes, client, tries, clone, added, lock>>

\* A delete that raises is logged, and the chunks are added all the same.
DeleteFails(w) ==
  /\ pc[w] = "delete"
  /\ Disturb(w)
  /\ Goto(w, "add")
  /\ UNCHANGED <<head, requests, queue, crashes, client, tries, clone, added, lock, index>>

\* Mutant of Add: after its last batch the writer keeps the lock.
AddAndHold(w) ==
  LET i == added[w] + 1 IN
  /\ pc[w] = "add"
  /\ added' = [added EXCEPT ![w] = i]
  /\ index' = [index EXCEPT ![client[w]][i] = IF @ = NoChunk THEN clone[w] ELSE @]
  /\ IF i = Chunks[clone[w]] THEN Goto(w, "ack") ELSE UNCHANGED pc
  /\ UNCHANGED <<head, requests, queue, crashes, client, tries, clone, lock, disturbed>>

\* One batch; with the last one the task is done.
Add(w) ==
  LET i == added[w] + 1 IN
  /\ pc[w] = "add"
  /\ added' = [added EXCEPT ![w] = i]
  /\ index' = [index EXCEPT ![client[w]][i] = IF @ = NoChunk THEN clone[w] ELSE @]
  /\ IF i = Chunks[clone[w]] THEN Goto(w, "ack") /\ Unlock(w) ELSE UNCHANGED <<pc, lock>>
  /\ UNCHANGED <<head, requests, queue, crashes, client, tries, clone, disturbed>>

\* Any step but the delete may raise.
Raise(w) ==
  /\ pc[w] \in {"clone", "connect", "begin", "add"}
  /\ IF pc[w] = "add" THEN Disturb(w) ELSE UNCHANGED disturbed
  /\ Unlock(w)
  /\ Goto(w, "retry")
  /\ UNCHANGED <<head, requests, queue, crashes, client, tries, clone, added, index>>

Retry(w) ==
  /\ pc[w] = "retry"
  /\ IF tries[w] < MaxRetries
     THEN Enqueue(tries[w] + 1)
     ELSE UNCHANGED queue
  /\ Goto(w, "ack")
  /\ UNCHANGED <<head, requests, crashes, client, tries, clone, added, lock, index, disturbed>>

Ack(w) ==
  /\ pc[w] = "ack"
  /\ Goto(w, "idle")
  /\ Forget(w)
  /\ UNCHANGED <<head, requests, queue, crashes, client, clone, lock, index, disturbed>>

Work(w) ==
  \/ Clone(w) \/ Connect(w) \/ Begin(w)
  \/ Delete(w) \/ DeleteFails(w) \/ Add(w)
  \/ Retry(w) \/ Ack(w)

Deliver == \E w \in Workers, n \in 0 .. MaxRetries : Take(w, n)

Next ==
  \/ Push \/ Request \/ Deliver
  \/ \E w \in Workers : Crash(w) \/ Work(w) \/ Raise(w)

\* Tasks go on, and need not fail.  The file lock has no timeout; its waiters poll for it, so that one
\* gets it when nobody else holds it any more.
Fairness ==
  /\ WF_vars(Deliver)
  /\ \A w \in Workers : WF_vars(Work(w))

Spec     == Init /\ [][Next]_vars
FairSpec == Spec /\ Fairness

-----------------------------------------------------------------------------
(* Properties                                                              *)

Held(c) == {i \in Ids : index[c][i] # NoChunk}

\* Between writes a store holds the chunks of exactly one version, all of them, or
\* nothing, unless a write of it failed midway or two writers of the server met, and
\* the next job that is alone heals it.  Of the local store the lock keeps them apart.
IndexIsOneSnapshot ==
  \A c \in Stores \ disturbed :
    Writers(c) = {} =>
      \/ Held(c) = {}
      \/ \E v \in Versions : Held(c) = 1 .. Chunks[v] /\ \A i \in Held(c) : index[c][i] = v

\* The file lock is held by the one worker that writes to the local store, and is
\* free once it is done, failed or lost (the with block around the writes).
LockHasWriter ==
  \A w \in Workers : lock = w <=> (pc[w] \in Writing /\ client[w] = "local")

\* Every index task comes to an end, done or out of retries, although they wait for
\* each other's lock.
IndexingEnds ==
  <>[](/\ \A n \in 0 .. MaxRetries : queue[n] = 0
       /\ \A w \in Workers : pc[w] = "idle")
=============================================================================
