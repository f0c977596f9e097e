------------------------ MODULE ConventionsIndex_proofs ------------------------
(***************************************************************************)
(* Theorems about ConventionsIndex, for any workers, versions and bounds:  *)
(* the file lock has its writer, and a store that nothing disturbed holds  *)
(* one version.                                                            *)
(***************************************************************************)
EXTENDS ConventionsIndex, FiniteSetTheorems, TLAPS

\* What a task has by its step: chunks to add, and a client for its writes.
StepInv ==
  \A w \in Workers :
    /\ pc[w] \in {"connect", "begin", "delete"} => added[w] = 0 /\ Chunks[clone[w]] > 0
    /\ pc[w] = "add" => added[w] < Chunks[clone[w]]
    /\ pc[w] \in {"begin", "delete", "add"} => client[w] \in Stores

\* A store has the first n chunks of version v.
Filled(store, n, v) == \A i \in Ids : store[i] = IF i <= n THEN v ELSE NoChunk

\* A store that is not disturbed has at most one writer, and what that has added; without
\* one it is empty or complete.
StoreInv ==
  \A c \in Stores \ disturbed :
    /\ \A w, u \in Writers(c) : w = u
    /\ Writers(c) = {} => \E v \in Versions : Filled(index[c], 0, v) \/ Filled(index[c], Chunks[v], v)
    /\ \A w \in Writers(c) : pc[w] = "add" => Filled(index[c], added[w], clone[w])

IInv == TypeOK /\ StepInv /\ LockHasWriter /\ StoreInv

-----------------------------------------------------------------------------
(* Constants *)

LEMMA ConstantFacts ==
  /\ 0 \in Versions /\ Versions \subseteq Nat /\ NoChunk \in Nat /\ NoChunk \notin Versions
  /\ \A v \in Versions : Chunks[v] \in Nat /\ 1 .. Chunks[v] \subseteq Ids
  /\ Ids \subseteq Nat /\ 0 \notin Ids
<1>1. NoChunk \in Nat
  BY ChunksAssumption, FS_CardinalityType DEF NoChunk
<1>2. Versions = 0 .. (NoChunk - 1) /\ Versions # {}
  BY ChunksAssumption DEF NoChunk
<1>3. \A v \in Versions : Chunks[v] \in Nat
  BY ChunksAssumption
<1>4. \A v \in Versions : 1 .. Chunks[v] \subseteq Ids
  BY DEF Ids
<1>5. \A i \in Ids : i \in Nat /\ i # 0
  BY <1>3 DEF Ids
<1> QED
  BY <1>1, <1>2, <1>3, <1>4, <1>5

\* The stores are two different names.
LEMMA StoreFacts == "server" \in Stores /\ "local" \in Stores /\ "none" \notin Stores
BY DEF Stores

LEMMA EnqueueType ==
  ASSUME queue \in [0 .. MaxRetries -> Nat], NEW n \in 0 .. MaxRetries, Enqueue(n)
  PROVE  queue' \in [0 .. MaxRetries -> Nat]
BY DEF Enqueue

\* What a writer does not touch stays as it is.
LEMMA SameStores ==
  ASSUME StoreInv, index' = index, disturbed' = disturbed,
         \A w \in Workers : pc'[w] \in Writing <=> pc[w] \in Writing,
         \A w \in Workers : pc[w] \in Writing =>
            /\ pc'[w] = pc[w] /\ client'[w] = client[w]
            /\ added'[w] = added[w] /\ clone'[w] = clone[w]
  PROVE  StoreInv'
<1>1. \A c : Writers(c)' = Writers(c)
  BY DEF Writers
<1>2. \A c : \A w \in Writers(c) :
        w \in Workers /\ pc'[w] = pc[w] /\ added'[w] = added[w] /\ clone'[w] = clone[w]
  BY DEF Writers
<1> SUFFICES ASSUME NEW c \in Stores \ disturbed
             PROVE  /\ \A w, u \in Writers(c) : w = u
                    /\ Writers(c) = {} => \E v \in Versions : Filled(index[c], 0, v) \/ Filled(index[c], Chunks[v], v)
                    /\ \A w \in Writers(c) : pc'[w] = "add" => Filled(index[c], added'[w], clone'[w])
  BY <1>1 DEF StoreInv, Filled
<1> QED
  BY <1>2 DEF StoreInv

-----------------------------------------------------------------------------
(* Steps that leave the stores alone *)

LEMMA PushStep ==
  ASSUME IInv, Push
  PROVE  IInv'
<1>1. TypeOK /\ StepInv /\ LockHasWriter /\ StoreInv
  BY DEF IInv
<1>2. TypeOK'
  BY <1>1, IndexBounds, ConstantFacts, StoreFacts DEF TypeOK, Push, jobVars, Steps, Writing
<1>3. StepInv'
  BY <1>1, ConstantFacts, StoreFacts DEF TypeOK, StepInv, Push, jobVars
<1>4. LockHasWriter'
  BY <1>1, WorkersAssumption DEF TypeOK, LockHasWriter, Push, jobVars, Writing
<1>5. StoreInv'
  BY <1>1, SameStores DEF TypeOK, Push, jobVars, Writing
<1> QED
  BY <1>2, <1>3, <1>4, <1>5 DEF IInv

LEMMA RequestStep ==
  ASSUME IInv, Request
  PROVE  IInv'
<1>1. TypeOK /\ StepInv /\ LockHasWriter /\ StoreInv
  BY DEF IInv
<1>2. TypeOK'
  BY <1>1, IndexBounds, ConstantFacts, StoreFacts DEF TypeOK, Request, Enqueue, jobVars, Steps, Writing
<1>3. StepInv'
  BY <1>1, ConstantFacts, StoreFacts DEF TypeOK, StepInv, Request, Enqueue, jobVars
<1>4. LockHasWriter'
  BY <1>1, WorkersAssumption DEF TypeOK, LockHasWriter, Request, Enqueue, jobVars, Writing
<1>5. StoreInv'
  BY <1>1, SameStores DEF TypeOK, Request, Enqueue, jobVars, Writing
<1> QED
  BY <1>2, <1>3, <1>4, <1>5 DEF IInv

LEMMA TakeStep ==
  ASSUME IInv, NEW w \in Workers, NEW n \in 0 .. MaxRetries, Take(w, n)
  PROVE  IInv'
<1>1. TypeOK /\ StepInv /\ LockHasWriter /\ StoreInv
  BY DEF IInv
<1>2. TypeOK'
  BY <1>1, IndexBounds, ConstantFacts, StoreFacts DEF TypeOK, Take, Goto, Steps, Writing
<1>3. StepInv'
  BY <1>1, ConstantFacts, StoreFacts DEF TypeOK, StepInv, Take, Goto
<1>4. LockHasWriter'
  BY <1>1, WorkersAssumption DEF TypeOK, LockHasWriter, Take, Goto, Writing
<1>5. StoreInv'
  BY <1>1, SameStores DEF TypeOK, Take, Goto, Writing
<1> QED
  BY <1>2, <1>3, <1>4, <1>5 DEF IInv

LEMMA CloneStep ==
  ASSUME IInv, NEW w \in Workers, Clone(w)
  PROVE  IInv'
<1>1. TypeOK /\ StepInv /\ LockHasWriter /\ StoreInv
  BY DEF IInv
<1>2. TypeOK'
  BY <1>1, IndexBounds, ConstantFacts, StoreFacts DEF TypeOK, Clone, Goto, Steps, Writing
<1>3. StepInv'
  BY <1>1, ConstantFacts, StoreFacts DEF TypeOK, StepInv, Clone, Goto
<1>4. LockHasWriter'
  BY <1>1, WorkersAssumption DEF TypeOK, LockHasWriter, Clone, Goto, Writing
<1>5. StoreInv'
  BY <1>1, SameStores DEF TypeOK, Clone, Goto, Writing
<1> QED
  BY <1>2, <1>3, <1>4, <1>5 DEF IInv

LEMMA RetryStep ==
  ASSUME IInv, NEW w \in Workers, Retry(w)
  PROVE  IInv'
<1>1. TypeOK /\ StepInv /\ LockHasWriter /\ StoreInv
  BY DEF IInv
<1>2. TypeOK'
  <2>1. queue' \in [0 .. MaxRetries -> Nat]
    <3>1. queue \in [0 .. MaxRetries -> Nat] /\ tries[w] \in 0 .. MaxRetries
      BY <1>1 DEF TypeOK
    <3>2. queue' = queue \/ (tries[w] + 1 \in 0 .. MaxRetries /\ Enqueue(tries[w] + 1))
      BY <3>1, IndexBounds DEF Retry
    <3> QED
      BY <3>1, <3>2, EnqueueType
  <2>2. pc' \in [Workers -> Steps]
    BY <1>1 DEF TypeOK, Retry, Goto, Steps
  <2> QED
    BY <1>1, <2>1, <2>2 DEF TypeOK, Retry
<1>3. StepInv'
  BY <1>1, ConstantFacts, StoreFacts DEF TypeOK, StepInv, Retry, Goto, Enqueue
<1>4. LockHasWriter'
  BY <1>1, WorkersAssumption DEF TypeOK, LockHasWriter, Retry, Goto, Enqueue, Writing
<1>5. StoreInv'
  BY <1>1, SameStores DEF TypeOK, Retry, Goto, Enqueue, Writing
<1> QED
  BY <1>2, <1>3, <1>4, <1>5 DEF IInv

LEMMA ConnectStep ==
  ASSUME IInv, NEW w \in Workers, Connect(w)
  PROVE  IInv'
<1>1. TypeOK /\ StepInv /\ LockHasWriter /\ StoreInv
  BY DEF IInv
<1>2. TypeOK'
  BY <1>1, IndexBounds, ConstantFacts, StoreFacts DEF TypeOK, Connect, Goto, Steps, Writing
<1>3. StepInv'
  BY <1>1, ConstantFacts, StoreFacts DEF TypeOK, StepInv, Connect, Goto
<1>4. LockHasWriter'
  BY <1>1, WorkersAssumption DEF TypeOK, LockHasWriter, Connect, Goto, Writing
<1>5. StoreInv'
  BY <1>1, SameStores DEF TypeOK, Connect, Goto, Writing
<1> QED
  BY <1>2, <1>3, <1>4, <1>5 DEF IInv

LEMMA AckStep ==
  ASSUME IInv, NEW w \in Workers, Ack(w)
  PROVE  IInv'
<1>1. TypeOK /\ StepInv /\ LockHasWriter /\ StoreInv
  BY DEF IInv
<1>2. TypeOK'
  BY <1>1, IndexBounds, ConstantFacts, StoreFacts DEF TypeOK, Ack, Goto, Forget, Steps, Writing
<1>3. StepInv'
  BY <1>1, ConstantFacts, StoreFacts DEF TypeOK, StepInv, Ack, Goto, Forget
<1>4. LockHasWriter'
  BY <1>1, WorkersAssumption DEF TypeOK, LockHasWriter, Ack, Goto, Forget, Writing
<1>5. StoreInv'
  BY <1>1, SameStores DEF TypeOK, Ack, Goto, Forget, Writing
<1> QED
  BY <1>2, <1>3, <1>4, <1>5 DEF IInv

-----------------------------------------------------------------------------
(* Writes *)

\* The others and their stores when only w goes on.
LEMMA OtherStores ==
  ASSUME TypeOK, StoreInv, NEW w \in Workers, pc[w] \in Writing,
         \A u \in Workers \ {w} :
            /\ pc'[u] = pc[u] /\ client'[u] = client[u]
            /\ added'[u] = added[u] /\ clone'[u] = clone[u],
         client'[w] = client[w] \/ pc'[w] \notin Writing,
         NEW c \in Stores, c # client[w], c \notin disturbed, index'[c] = index[c]
  PROVE  /\ \A x, u \in Writers(c)' : x = u
         /\ Writers(c)' = {} => \E v \in Versions : Filled(index'[c], 0, v) \/ Filled(index'[c], Chunks[v], v)
         /\ \A u \in Writers(c)' : pc'[u] = "add" => Filled(index'[c], added'[u], clone'[u])
<1>1. w \notin Writers(c) /\ w \notin Writers(c)'
  BY DEF Writers
<1>2. Writers(c)' = Writers(c)
  BY <1>1 DEF Writers
<1>3. \A u \in Writers(c) : u \in Workers \ {w}
  BY <1>1 DEF Writers
<1> QED
  BY <1>2, <1>3 DEF StoreInv

\* What is true of the other stores, and of the writer's own, is true of all.
LEMMA StoreByStore ==
  ASSUME \A c \in Stores \ disturbed' :
           /\ \A x, u \in Writers(c)' : x = u
           /\ Writers(c)' = {} => \E v \in Versions : Filled(index'[c], 0, v) \/ Filled(index'[c], Chunks[v], v)
           /\ \A u \in Writers(c)' : pc'[u] = "add" => Filled(index'[c], added'[u], clone'[u])
  PROVE  StoreInv'
BY DEF StoreInv, Filled

\* A writer that fails, or is lost, leaves its store disturbed.
LEMMA DisturbedStore ==
  ASSUME TypeOK, StoreInv, NEW w \in Workers, pc[w] \in Writing,
         index' = index, disturbed' = disturbed \cup {client[w]},
         \A u \in Workers \ {w} :
            /\ pc'[u] = pc[u] /\ client'[u] = client[u]
            /\ added'[u] = added[u] /\ clone'[u] = clone[u],
         client'[w] = client[w] \/ pc'[w] \notin Writing
  PROVE  StoreInv'
<1> SUFFICES ASSUME NEW c \in Stores \ disturbed'
             PROVE  /\ \A x, u \in Writers(c)' : x = u
                    /\ Writers(c)' = {} => \E v \in Versions : Filled(index'[c], 0, v) \/ Filled(index'[c], Chunks[v], v)
                    /\ \A u \in Writers(c)' : pc'[u] = "add" => Filled(index'[c], added'[u], clone'[u])
  BY StoreByStore
<1>1. c # client[w] /\ c \notin disturbed /\ index'[c] = index[c] /\ c \in Stores
  OBVIOUS
<1> QED
  BY <1>1, OtherStores

LEMMA BeginStep ==
  ASSUME IInv, NEW w \in Workers, Begin(w)
  PROVE  IInv'
<1>1. TypeOK /\ StepInv /\ LockHasWriter /\ StoreInv
  BY DEF IInv
<1>2. /\ pc[w] = "begin" /\ client[w] \in Stores /\ pc' = [pc EXCEPT ![w] = "delete"]
      /\ UNCHANGED <<client, added, clone, index>>
      /\ client[w] = "local" => lock = NoWorker /\ lock' = w /\ disturbed' = disturbed
      /\ client[w] = "server" =>
           /\ lock' = lock
           /\ disturbed' = IF Writers("server") = {} THEN disturbed ELSE disturbed \cup {"server"}
  BY <1>1 DEF StepInv, Begin, Goto, Disturb, Stores
<1>3. TypeOK'
  <2>1. pc' \in [Workers -> Steps] /\ lock' \in Workers \cup {NoWorker} /\ disturbed' \subseteq Stores
    BY <1>1, <1>2 DEF TypeOK, Steps, Writing, Stores
  <2> QED
    BY <1>1, <2>1 DEF TypeOK, Begin
<1>4. StepInv'
  BY <1>1, <1>2 DEF TypeOK, StepInv
<1>5. LockHasWriter'
  <2>1. CASE client[w] = "local"
    BY <1>1, <1>2, <2>1, WorkersAssumption DEF TypeOK, LockHasWriter, Writing
  <2>2. CASE client[w] = "server"
    BY <1>1, <1>2, <2>2, WorkersAssumption DEF TypeOK, LockHasWriter, Writing
  <2> QED
    BY <1>2, <2>1, <2>2 DEF Stores
<1>6. StoreInv'
  <2> SUFFICES ASSUME NEW c \in Stores \ disturbed'
               PROVE  /\ \A x, u \in Writers(c)' : x = u
                      /\ Writers(c)' = {} => \E v \in Versions : Filled(index'[c], 0, v) \/ Filled(index'[c], Chunks[v], v)
                      /\ \A u \in Writers(c)' : pc'[u] = "add" => Filled(index'[c], added'[u], clone'[u])
    BY StoreByStore
  <2>1. c \in Stores /\ c \notin disturbed
    BY <1>2 DEF Stores
  <2>2. Writers(c)' = IF c = client[w] THEN Writers(c) \cup {w} ELSE Writers(c)
    BY <1>1, <1>2 DEF TypeOK, Writers, Writing
  <2>3. CASE c = client[w]
    <3>1. Writers(c) = {}
      <4>1. CASE c = "local"
        <5>1. \A u \in Workers : ~(pc[u] \in Writing /\ client[u] = "local")
          BY <1>1, <1>2, <2>3, <4>1, WorkersAssumption DEF LockHasWriter
        <5> QED
          BY <4>1, <5>1 DEF Writers
      <4>2. CASE c = "server"
        BY <1>2, <2>3, <4>2
      <4> QED
        BY <4>1, <4>2 DEF Stores
    <3>2. Writers(c)' = {w} /\ pc'[w] = "delete"
      BY <1>1, <1>2, <2>2, <2>3, <3>1 DEF TypeOK
    <3> QED
      BY <3>2
  <2>4. CASE c # client[w]
    <3>1. w \notin Writers(c) /\ Writers(c)' = Writers(c)
      BY <2>2, <2>4 DEF Writers
    <3>2. \A u \in Writers(c) : u \in Workers /\ pc'[u] = pc[u]
      BY <1>1, <1>2, <3>1 DEF TypeOK, Writers
    <3> QED
      BY <1>1, <1>2, <2>1, <3>1, <3>2 DEF StoreInv
  <2> QED
    BY <2>3, <2>4
<1> QED
  BY <1>3, <1>4, <1>5, <1>6 DEF IInv

LEMMA DeleteStep ==
  ASSUME IInv, NEW w \in Workers, Delete(w)
  PROVE  IInv'
<1>1. TypeOK /\ StepInv /\ LockHasWriter /\ StoreInv
  BY DEF IInv
<1>2. /\ pc[w] = "delete" /\ client[w] \in Stores /\ pc' = [pc EXCEPT ![w] = "add"]
      /\ UNCHANGED <<client, added, clone, lock>> /\ added[w] = 0
      /\ index' = [index EXCEPT ![client[w]] = [i \in Ids |-> NoChunk]]
      /\ disturbed' = IF Writers(client[w]) = {w} THEN disturbed \ {client[w]} ELSE disturbed
  BY <1>1 DEF StepInv, Delete, Goto
<1>3. TypeOK'
  <2>1. pc' \in [Workers -> Steps] /\ disturbed' \subseteq Stores
    BY <1>1, <1>2 DEF TypeOK, Steps, Writing
  <2>2. index' \in [Stores -> [Ids -> Versions \cup {NoChunk}]]
    BY <1>1, <1>2 DEF TypeOK
  <2> QED
    BY <1>1, <2>1, <2>2 DEF TypeOK, Delete
<1>4. StepInv'
  BY <1>1, <1>2 DEF TypeOK, StepInv
<1>5. LockHasWriter'
  BY <1>1, <1>2 DEF TypeOK, LockHasWriter, Writing
<1>6. \A c : Writers(c)' = Writers(c)
  BY <1>1, <1>2 DEF TypeOK, Writers, Writing
<1>7. w \in Writers(client[w])
  BY <1>2 DEF Writers, Writing
<1>8. StoreInv'
  <2> SUFFICES ASSUME NEW c \in Stores \ disturbed'
               PROVE  /\ \A x, u \in Writers(c)' : x = u
                      /\ Writers(c)' = {} => \E v \in Versions : Filled(index'[c], 0, v) \/ Filled(index'[c], Chunks[v], v)
                      /\ \A u \in Writers(c)' : pc'[u] = "add" => Filled(index'[c], added'[u], clone'[u])
    BY StoreByStore
  <2>1. CASE c = client[w]
    <3>1. Writers(c)' = {w}
      BY <1>1, <1>2, <1>6, <1>7, <2>1 DEF StoreInv
    <3>2. index'[c] = [i \in Ids |-> NoChunk]
      BY <1>1, <1>2, <2>1 DEF TypeOK
    <3>3. Filled(index'[c], added'[w], clone'[w])
      BY <1>2, <3>2, ConstantFacts DEF Filled
    <3> QED
      BY <3>1, <3>3
  <2>2. CASE c # client[w]
    <3>1. c \in Stores /\ c \notin disturbed /\ index'[c] = index[c]
      BY <1>1, <1>2, <2>2 DEF TypeOK
    <3>2. \A u \in Workers \ {w} : pc'[u] = pc[u]
      BY <1>1, <1>2 DEF TypeOK
    <3> QED
      BY <1>1, <1>2, <2>2, <3>1, <3>2, OtherStores DEF Writing
  <2> QED
    BY <2>1, <2>2
<1> QED
  BY <1>3, <1>4, <1>5, <1>8 DEF IInv

LEMMA DeleteFailsStep ==
  ASSUME IInv, NEW w \in Workers, DeleteFails(w)
  PROVE  IInv'
<1>1. TypeOK /\ StepInv /\ LockHasWriter /\ StoreInv
  BY DEF IInv
<1>2. /\ pc[w] = "delete" /\ client[w] \in Stores /\ pc' = [pc EXCEPT ![w] = "add"]
      /\ UNCHANGED <<client, added, clone, lock, index>> /\ added[w] = 0
      /\ disturbed' = disturbed \cup {client[w]}
  BY <1>1 DEF StepInv, DeleteFails, Goto, Disturb
<1>3. TypeOK'
  <2>1. pc' \in [Workers -> Steps] /\ disturbed' \subseteq Stores
    BY <1>1, <1>2 DEF TypeOK, Steps, Writing
  <2> QED
    BY <1>1, <2>1 DEF TypeOK, DeleteFails
<1>4. StepInv'
  BY <1>1, <1>2 DEF TypeOK, StepInv
<1>5. LockHasWriter'
  BY <1>1, <1>2 DEF TypeOK, LockHasWriter, Writing
<1>6. \A u \in Workers \ {w} : pc'[u] = pc[u]
  BY <1>1, <1>2 DEF TypeOK
<1>7. StoreInv'
  BY <1>1, <1>2, <1>6, DisturbedStore DEF Writing
<1> QED
  BY <1>3, <1>4, <1>5, <1>7 DEF IInv

LEMMA AddStep ==
  ASSUME IInv, NEW w \in Workers, Add(w)
  PROVE  IInv'
<1> DEFINE i == added[w] + 1
           all == Chunks[clone[w]]
<1>1. TypeOK /\ StepInv /\ LockHasWriter /\ StoreInv
  BY DEF IInv
<1>2. /\ pc[w] = "add" /\ client[w] \in Stores /\ added' = [added EXCEPT ![w] = i]
      /\ index' = [index EXCEPT ![client[w]][i] = IF @ = NoChunk THEN clone[w] ELSE @]
      /\ i = all => pc' = [pc EXCEPT ![w] = "ack"] /\ lock' = IF lock = w THEN NoWorker ELSE lock
      /\ i # all => pc' = pc /\ lock' = lock
      /\ UNCHANGED <<client, clone, disturbed>>
  BY <1>1 DEF StepInv, Add, Goto, Unlock
<1>3. /\ clone[w] \in Versions /\ all \in Nat /\ added[w] \in Nat /\ added[w] < all
      /\ i \in 1 .. all /\ i \in Ids
  <2>1. clone[w] \in Versions /\ added[w] \in Nat
    BY <1>1, ConstantFacts DEF TypeOK
  <2>2. all \in Nat /\ added[w] < all
    BY <1>1, <1>2, <2>1, ConstantFacts DEF StepInv
  <2>3. i \in 1 .. all
    BY <2>1, <2>2
  <2> QED
    BY <2>1, <2>2, <2>3, ConstantFacts
<1>4. /\ index \in [Stores -> [Ids -> Versions \cup {NoChunk}]]
      /\ added \in [Workers -> Ids \cup {0}] /\ pc \in [Workers -> Steps]
      /\ lock \in Workers \cup {NoWorker}
  BY <1>1 DEF TypeOK
<1> HIDE DEF i, all
<1>5. TypeOK'
  <2>1. index' \in [Stores -> [Ids -> Versions \cup {NoChunk}]]
    BY <1>2, <1>3, <1>4
  <2>2. added' \in [Workers -> Ids \cup {0}]
    BY <1>2, <1>3, <1>4
  <2>3. pc' \in [Workers -> Steps] /\ lock' \in Workers \cup {NoWorker}
    BY <1>2, <1>4 DEF Steps
  <2> QED
    BY <1>1, <2>1, <2>2, <2>3 DEF TypeOK, Add
<1>6. StepInv'
  <2> SUFFICES ASSUME NEW u \in Workers
               PROVE  /\ pc'[u] \in {"connect", "begin", "delete"} => added'[u] = 0 /\ Chunks[clone'[u]] > 0
                      /\ pc'[u] = "add" => added'[u] < Chunks[clone'[u]]
                      /\ pc'[u] \in {"begin", "delete", "add"} => client'[u] \in Stores
    BY DEF StepInv
  <2>1. CASE u # w
    BY <1>1, <1>2, <1>4, <2>1 DEF StepInv
  <2>2. CASE u = w
    <3>1. added'[w] = i
      BY <1>2, <1>4
    <3>2. CASE i = all
      BY <1>2, <1>4, <2>2, <3>2
    <3>3. CASE i # all
      <4>1. pc'[w] = "add" /\ i < all
        BY <1>2, <1>3, <3>3
      <4> QED
        BY <1>2, <2>2, <3>1, <4>1 DEF all
    <3> QED
      BY <3>2, <3>3
  <2> QED
    BY <2>1, <2>2
<1>7. LockHasWriter'
  <2>1. CASE i = all
    BY <1>1, <1>2, <1>4, <2>1, WorkersAssumption DEF LockHasWriter, Writing
  <2>2. CASE i # all
    BY <1>1, <1>2, <2>2 DEF LockHasWriter
  <2> QED
    BY <2>1, <2>2
<1>8. w \in Writers(client[w])
  BY <1>2 DEF Writers, Writing
<1>9. \A u \in Workers \ {w} : pc'[u] = pc[u] /\ added'[u] = added[u]
  BY <1>2, <1>4
<1>10. ASSUME client[w] \notin disturbed
       PROVE  /\ Writers(client[w]) = {w}
              /\ Filled(index'[client[w]], i, clone[w])
  <2>1. Writers(client[w]) = {w} /\ Filled(index[client[w]], added[w], clone[w])
    BY <1>1, <1>2, <1>8, <1>10 DEF StoreInv
  <2>2. index[client[w]][i] = NoChunk
    <3>1. ~(i <= added[w])
      BY <1>3 DEF i
    <3> QED
      BY <1>3, <2>1, <3>1 DEF Filled
  <2>3. index'[client[w]] = [index[client[w]] EXCEPT ![i] = clone[w]]
    BY <1>2, <1>3, <1>4, <2>2
  <2>4. \A j \in Ids : index'[client[w]][j] = IF j = i THEN clone[w] ELSE index[client[w]][j]
    BY <1>2, <1>3, <1>4, <2>3
  <2>5. \A j \in Ids : (j <= i) <=> (j <= added[w] \/ j = i)
    BY <1>3, ConstantFacts DEF i
  <2>6. Filled(index'[client[w]], i, clone[w])
    BY <2>1, <2>4, <2>5 DEF Filled
  <2> QED
    BY <2>1, <2>6
<1>11. StoreInv'
  <2> SUFFICES ASSUME NEW c \in Stores \ disturbed'
               PROVE  /\ \A x, u \in Writers(c)' : x = u
                      /\ Writers(c)' = {} => \E v \in Versions : Filled(index'[c], 0, v) \/ Filled(index'[c], Chunks[v], v)
                      /\ \A u \in Writers(c)' : pc'[u] = "add" => Filled(index'[c], added'[u], clone'[u])
    BY StoreByStore
  <2>1. CASE c = client[w] /\ i = all
    <3>1. pc'[w] = "ack"
      BY <1>2, <1>4, <2>1
    <3>2. Writers(c)' = {}
      BY <1>2, <1>9, <1>10, <2>1, <3>1 DEF Writers, Writing
    <3>3. Filled(index'[c], Chunks[clone[w]], clone[w])
      BY <1>2, <1>10, <2>1 DEF all
    <3> QED
      BY <1>3, <3>2, <3>3
  <2>2. CASE c = client[w] /\ i # all
    <3>1. Writers(c)' = {w}
      BY <1>2, <1>10, <2>2 DEF Writers
    <3>2. added'[w] = i /\ clone'[w] = clone[w]
      BY <1>2, <1>4
    <3> QED
      BY <1>2, <1>10, <2>2, <3>1, <3>2
  <2>3. CASE c # client[w]
    <3>1. c \in Stores /\ c \notin disturbed /\ index'[c] = index[c]
      BY <1>2, <1>4, <2>3
    <3> QED
      BY <1>1, <1>2, <1>9, <2>3, <3>1, OtherStores DEF Writing
  <2> QED
    BY <2>1, <2>2, <2>3
<1> QED
  BY <1>5, <1>6, <1>7, <1>11 DEF IInv

LEMMA RaiseStep ==
  ASSUME IInv, NEW w \in Workers, Raise(w)
  PROVE  IInv'
<1>1. TypeOK /\ StepInv /\ LockHasWriter /\ StoreInv
  BY DEF IInv
<1>2. /\ pc[w] \in {"clone", "connect", "begin", "add"} /\ pc' = [pc EXCEPT ![w] = "retry"]
      /\ UNCHANGED <<client, added, clone, index>>
      /\ lock' = IF lock = w THEN NoWorker ELSE lock
      /\ pc[w] = "add" => disturbed' = disturbed \cup {client[w]} /\ client[w] \in Stores
      /\ pc[w] # "add" => disturbed' = disturbed
  BY <1>1 DEF StepInv, Raise, Goto, Unlock, Disturb
<1>3. TypeOK'
  <2>1. pc' \in [Workers -> Steps] /\ lock' \in Workers \cup {NoWorker} /\ disturbed' \subseteq Stores
    BY <1>1, <1>2 DEF TypeOK, Steps
  <2> QED
    BY <1>1, <2>1 DEF TypeOK, Raise
<1>4. StepInv'
  BY <1>1, <1>2 DEF TypeOK, StepInv
<1>5. LockHasWriter'
  BY <1>1, <1>2, WorkersAssumption DEF TypeOK, LockHasWriter, Writing
<1>6. \A u \in Workers \ {w} : pc'[u] = pc[u]
  BY <1>1, <1>2 DEF TypeOK
<1>7. pc'[w] = "retry"
  BY <1>1, <1>2 DEF TypeOK
<1>8. StoreInv'
  <2>1. CASE pc[w] = "add"
    BY <1>1, <1>2, <1>6, <2>1, DisturbedStore DEF Writing
  <2>2. CASE pc[w] # "add"
    BY <1>1, <1>2, <1>6, <1>7, <2>2, SameStores DEF Writing
  <2> QED
    BY <2>1, <2>2
<1> QED
  BY <1>3, <1>4, <1>5, <1>8 DEF IInv

LEMMA CrashStep ==
  ASSUME IInv, NEW w \in Workers, Crash(w)
  PROVE  IInv'
<1>1. TypeOK /\ StepInv /\ LockHasWriter /\ StoreInv
  BY DEF IInv
<1>2. /\ pc' = [pc EXCEPT ![w] = "idle"] /\ client' = [client EXCEPT ![w] = "none"]
      /\ tries' = [tries EXCEPT ![w] = 0] /\ added' = [added EXCEPT ![w] = 0]
      /\ UNCHANGED <<clone, index>>
      /\ lock' = IF lock = w THEN NoWorker ELSE lock
      /\ pc[w] \in Writing => disturbed' = disturbed \cup {client[w]} /\ client[w] \in Stores
      /\ pc[w] \notin Writing => disturbed' = disturbed
  BY <1>1 DEF StepInv, Crash, Goto, Unlock, Disturb, Forget, Writing
<1>3. TypeOK'
  <2>1. pc' \in [Workers -> Steps] /\ lock' \in Workers \cup {NoWorker} /\ disturbed' \subseteq Stores
    BY <1>1, <1>2 DEF TypeOK, Steps
  <2>2. client' \in [Workers -> Stores \cup {"none"}] /\ added' \in [Workers -> Ids \cup {0}]
    BY <1>1, <1>2 DEF TypeOK
  <2>3. queue' \in [0 .. MaxRetries -> Nat] /\ tries' \in [Workers -> 0 .. MaxRetries]
    BY <1>1, <1>2, IndexBounds, EnqueueType DEF TypeOK, Crash
  <2>4. crashes' \in 0 .. MaxCrashes /\ UNCHANGED <<head, requests>>
    BY <1>1, IndexBounds DEF TypeOK, Crash
  <2> QED
    BY <1>1, <1>2, <2>1, <2>2, <2>3, <2>4 DEF TypeOK
<1>4. StepInv'
  BY <1>1, <1>2 DEF TypeOK, StepInv
<1>5. LockHasWriter'
  BY <1>1, <1>2, WorkersAssumption DEF TypeOK, LockHasWriter, Writing
<1>6. \A u \in Workers \ {w} : pc'[u] = pc[u] /\ client'[u] = client[u] /\ added'[u] = added[u]
  BY <1>1, <1>2 DEF TypeOK
<1>7. pc'[w] \notin Writing
  BY <1>1, <1>2 DEF TypeOK, Writing
<1>8. StoreInv'
  <2>1. CASE pc[w] \in Writing
    BY <1>1, <1>2, <1>6, <1>7, <2>1, DisturbedStore
  <2>2. CASE pc[w] \notin Writing
    BY <1>1, <1>2, <1>6, <1>7, <2>2, SameStores
  <2> QED
    BY <2>1, <2>2
<1> QED
  BY <1>3, <1>4, <1>5, <1>8 DEF IInv

-----------------------------------------------------------------------------
(* Theorems *)

LEMMA InitIInv == Init => IInv
<1> SUFFICES ASSUME Init PROVE IInv
  OBVIOUS
<1>1. TypeOK
  BY ConstantFacts, IndexBounds DEF Init, TypeOK, Steps, Stores
<1>2. StepInv
  BY DEF Init, StepInv
<1>3. LockHasWriter
  BY WorkersAssumption DEF Init, LockHasWriter, Writing
<1>4. StoreInv
  <2>1. \A c \in Stores : Writers(c) = {}
    BY DEF Init, Writers, Writing
  <2>2. \A c \in Stores : Filled(index[c], 0, 0)
    BY ConstantFacts DEF Init, Filled
  <2> QED
    BY <2>1, <2>2, ConstantFacts DEF StoreInv
<1> QED
  BY <1>1, <1>2, <1>3, <1>4 DEF IInv

LEMMA NextIInv == IInv /\ [Next]_vars => IInv'
<1> SUFFICES ASSUME IInv, [Next]_vars PROVE IInv'
  OBVIOUS
<1>1. CASE Push
  BY <1>1, PushStep
<1>2. CASE Request
  BY <1>2, RequestStep
<1>3. CASE Deliver
  BY <1>3, TakeStep DEF Deliver
<1>4. ASSUME NEW w \in Workers, Crash(w) \/ Work(w) \/ Raise(w)
      PROVE  IInv'
  BY <1>4, CrashStep, RaiseStep, CloneStep, ConnectStep, BeginStep, DeleteStep, DeleteFailsStep,
     AddStep, RetryStep, AckStep DEF Work
<1>5. CASE UNCHANGED vars
  <2>1. UNCHANGED <<head, requests, queue, crashes, client, pc, tries, clone, added, lock, index, disturbed>>
    BY <1>5 DEF vars, jobVars
  <2>2. TypeOK' /\ StepInv' /\ LockHasWriter'
    BY <2>1 DEF IInv, TypeOK, StepInv, LockHasWriter
  <2>3. StoreInv'
    BY <2>1, SameStores DEF IInv
  <2> QED
    BY <2>2, <2>3 DEF IInv
<1> QED
  BY <1>1, <1>2, <1>3, <1>4, <1>5 DEF Next

\* A task that writes has its client and its chunks, the local store's writer has the
\* lock, and a store that is not disturbed holds what its one writer has added.
THEOREM ConventionsInvariance == Spec => []IInv
BY InitIInv, NextIInv, PTL DEF Spec

\* Every chunk that is added has its place, and a task is retried no more than the
\* task's max_retries.
THEOREM ConventionsTypeCorrect == Spec => []TypeOK
<1>1. IInv => TypeOK
  BY DEF IInv
<1> QED
  BY <1>1, ConventionsInvariance, PTL

\* The with block of _execute_chroma_writes: the file lock is held by the one worker
\* that writes to the local store, and by nobody else.
THEOREM WriterHasLock == Spec => []LockHasWriter
<1>1. IInv => LockHasWriter
  BY DEF IInv
<1> QED
  BY <1>1, ConventionsInvariance, PTL

\* A store in which no write failed and no two writers met since it was last emptied by
\* a writer alone holds all chunks of one version between writes, or nothing.
THEOREM StoreIsOneSnapshot == Spec => []IndexIsOneSnapshot
<1>1. IInv => IndexIsOneSnapshot
  <2> SUFFICES ASSUME IInv, NEW c \in Stores \ disturbed, Writers(c) = {}
               PROVE  \/ Held(c) = {}
                      \/ \E v \in Versions : Held(c) = 1 .. Chunks[v] /\ \A i \in Held(c) : index[c][i] = v
    BY DEF IndexIsOneSnapshot
  <2>1. PICK v \in Versions : Filled(index[c], 0, v) \/ Filled(index[c], Chunks[v], v)
    BY DEF IInv, StoreInv
  <2>2. CASE Filled(index[c], 0, v)
    <3>1. \A i \in Ids : ~(i <= 0)
      BY ConstantFacts
    <3>2. Held(c) = {}
      BY <2>2, <3>1 DEF Filled, Held
    <3> QED
      BY <3>2
  <2>3. CASE Filled(index[c], Chunks[v], v)
    <3>1. v # NoChunk /\ Chunks[v] \in Nat /\ 1 .. Chunks[v] \subseteq Ids
      BY ConstantFacts
    <3>2. \A i \in Ids : i <= Chunks[v] <=> i \in 1 .. Chunks[v]
      BY <3>1, ConstantFacts
    <3>3. Held(c) = 1 .. Chunks[v]
      BY <2>3, <3>1, <3>2 DEF Filled, Held
    <3>4. \A i \in Held(c) : index[c][i] = v
      BY <2>3, <3>1, <3>2, <3>3 DEF Filled
    <3> QED
      BY <3>3, <3>4
  <2> QED
    BY <2>1, <2>2, <2>3
<1> QED
  BY <1>1, ConventionsInvariance, PTL
===============================================================================
