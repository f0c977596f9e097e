------------------------- MODULE Installations_proofs -------------------------
(***************************************************************************)
(* Theorems about Installations, for any repositories, names, handlers and *)
(* numbers of events: what the table has of a repository whose event was   *)
(* answered, however the transactions and GitHub's changes interleave.     *)
(***************************************************************************)
EXTENDS Installations, TLAPS

\* What a transaction has in hand, of a payload that it has gone through in part.
Begun(t) ==
  /\ t.kind = "none" => t = NoTxn
  /\ t.kind # "none" => t.number # 0
  /\ t.todo \subseteq t.repos /\ t.inserts \subseteq t.repos \ t.todo
  /\ t.kind = "removed" => t.inserts = {}
  /\ \A i \in t.updates : Touches(t, i)

HandlerInv ==
  \A h \in Handlers : Begun(handler[h]) /\ \A i \in handler[h].updates : Known(i)

\* A repository that was gone through has its task, and a row or one to be inserted.
AddedInv ==
  \A h \in Handlers : handler[h].kind \in Adding =>
    \A r \in handler[h].repos \ handler[h].todo :
      ListedBy(h, r) \in indexing /\ (Known(r.id) \/ r \in handler[h].inserts)

\* x is the last event about i, if it has its number.
IsLatest(x, i) == x.number = latest[i].number => x.kind = latest[i].kind /\ Touches(x, i)

\* Events are told apart by their numbers, and none has a number that is still to come.
NumberInv ==
  /\ \A e \in mail : e.number <= sent /\ \A i \in Ids : IsLatest(e, i)
  /\ \A h \in Handlers : handler[h].number <= sent
  /\ \A i \in Ids : latest[i].number <= sent /\ (latest[i].kind # "none" => latest[i].number # 0)
  /\ \A h \in Handlers : handler[h].kind # "none" => \A i \in Ids : IsLatest(handler[h], i)
  /\ \A e, f \in mail : e.number = f.number => e = f
  /\ \A e \in mail, h \in Handlers : e.number # handler[h].number

\* What the transactions do about i agrees with its last event, once that was received,
\* and what the transaction of that event selected still holds.
AgreeInv ==
  \A i \in Ids \ contested :
    /\ (\A e \in mail : e.number # latest[i].number) =>
         \A h \in Handlers : Touches(handler[h], i) => ~Opposite(handler[h].kind, latest[i].kind)
    /\ \A h \in Handlers : handler[h].kind # "none" /\ handler[h].number = latest[i].number =>
         \A r \in handler[h].repos \ handler[h].todo :
           r.id = i /\ Known(i) /\ (rows[i].active <=> handler[h].kind \notin Adding) =>
             i \in handler[h].updates

\* Payloads that are known somewhere: in a delivery, in a transaction.
Payloads == {e.repos : e \in mail} \cup {handler[h].repos : h \in Handlers}

\* A repository that kept its name has it wherever it is named, and nothing else has its
\* name unless the name was reused.
NameInv ==
  \A i \in Live :
    /\ \A j \in Live : github[j] = github[i] => i = j
    /\ i \notin renamed =>
         /\ Known(i) => rows[i].name = github[i]
         /\ \A p \in Payloads : \A r \in p : r.id = i => r.name = github[i]
    /\ github[i] \notin reused =>
         /\ \A j \in Ids : rows[j].name = github[i] => j = i
         /\ \A p \in Payloads : \A r \in p : r.name = github[i] => r.id = i

IInv ==
  /\ TypeOK /\ HandlerInv /\ AddedInv /\ NumberInv /\ AgreeInv /\ NameInv
  /\ AnsweredReposKnown /\ LastEventObeyed /\ AnsweredReposIndexed

-----------------------------------------------------------------------------
(* GitHub *)

\* A move of GitHub's touches names only.
LEMMA MoveKeeps ==
  ASSUME IInv, UNCHANGED <<mail, sent, installed, rows, indexing, handler, answered, latest, contested>>,
         TypeOK', NameInv'
  PROVE  IInv'
<1>1. HandlerInv' /\ AddedInv' /\ NumberInv' /\ AgreeInv'
  BY DEF IInv, HandlerInv, AddedInv, NumberInv, IsLatest, AgreeInv, ListedBy, Known
<1>2. AnsweredReposKnown' /\ LastEventObeyed' /\ AnsweredReposIndexed'
  BY DEF IInv, AnsweredReposKnown, LastEventObeyed, Pending, AnsweredReposIndexed, Known
<1> QED
  BY <1>1, <1>2 DEF IInv

\* What a name names before it is given anew: nothing, or it is reused.
LEMMA SettleNames ==
  ASSUME IInv, NEW i \in Ids, NEW name \in Names, Settle(i, name),
         renamed' = renamed \cup {i}
           \/ /\ renamed' = renamed /\ ~Known(i)
              /\ \A p \in Payloads : \A r \in p : r.id # i
  PROVE  IInv'
<1>1. /\ TypeOK /\ NameInv
      /\ github \in [Ids -> Names \cup {NoName}] /\ name # NoName
      /\ github' = [github EXCEPT ![i] = name] /\ Free(name)
      /\ reused' = IF Spent(name, i) THEN reused \cup {name} ELSE reused
      /\ UNCHANGED <<mail, sent, installed, rows, indexing, handler, answered, latest, contested>>
  BY NoNameAssumption DEF IInv, TypeOK, Settle, tableVars, history
<1>2. TypeOK'
  <2>1. moves' \in 0 .. MaxMoves
    BY InstallationsBounds DEF IInv, TypeOK, Settle
  <2>2. github' \in [Ids -> Names \cup {NoName}]
    BY <1>1
  <2>3. reused' \subseteq Names /\ renamed' \subseteq Ids
    BY <1>1 DEF TypeOK
  <2> QED
    BY <1>1, <2>1, <2>2, <2>3 DEF TypeOK
<1>3. /\ github'[i] = name /\ \A j \in Ids : j # i => github'[j] = github[j] /\ github[j] # name
      /\ i \in Live' /\ \A j \in Ids : j # i => (j \in Live' <=> j \in Live)
  BY <1>1 DEF Free, Live
<1>4. Payloads' = Payloads /\ \A j : Known(j)' <=> Known(j)
  BY <1>1 DEF Payloads, Known
<1>5. name \notin reused' =>
        /\ \A j \in Ids : rows[j].name = name => j = i
        /\ \A p \in Payloads : \A r \in p : r.name = name => r.id = i
  BY <1>1 DEF Spent, Payloads
<1>6. ASSUME NEW j \in Live'
      PROVE  /\ \A k \in Live' : github'[k] = github'[j] => j = k
             /\ j \notin renamed' =>
                  /\ Known(j) => rows[j].name = github'[j]
                  /\ \A p \in Payloads : \A r \in p : r.id = j => r.name = github'[j]
             /\ github'[j] \notin reused' =>
                  /\ \A k \in Ids : rows[k].name = github'[j] => k = j
                  /\ \A p \in Payloads : \A r \in p : r.name = github'[j] => r.id = j
  <2>0. j \in Ids /\ \A k \in Live' : k \in Ids
    BY DEF Live
  <2>1. CASE j = i
    BY <1>3, <1>5, <2>0, <2>1
  <2>2. CASE j # i
    <3>1. j \in Live /\ github'[j] = github[j] /\ github[j] # name
      BY <1>3, <2>0, <2>2
    <3>2. j \notin renamed' => j \notin renamed
      OBVIOUS
    <3>3. github[j] \notin reused' => github[j] \notin reused
      BY <1>1
    <3>4. \A k \in Live' : github'[k] = github'[j] => j = k
      BY <1>1, <1>3, <2>0, <3>1 DEF NameInv
    <3> QED
      BY <1>1, <3>1, <3>2, <3>3, <3>4 DEF NameInv
  <2> QED
    BY <2>1, <2>2
<1>7. NameInv'
  BY <1>1, <1>4, <1>6 DEF NameInv
<1> QED
  BY <1>1, <1>2, <1>7, MoveKeeps

LEMMA CreateStep ==
  ASSUME IInv, NEW i \in Ids, NEW name \in Names, CreateRepository(i, name)
  PROVE  IInv'
BY SettleNames DEF CreateRepository, Payloads

LEMMA RenameStep ==
  ASSUME IInv, NEW i \in Ids, NEW name \in Names, RenameRepository(i, name)
  PROVE  IInv'
BY SettleNames DEF RenameRepository

LEMMA DeleteStep ==
  ASSUME IInv, NEW i \in Ids, DeleteRepository(i)
  PROVE  IInv'
<1>1. /\ TypeOK /\ NameInv /\ github \in [Ids -> Names \cup {NoName}]
      /\ github' = [github EXCEPT ![i] = NoName]
      /\ UNCHANGED <<mail, sent, installed, rows, indexing, handler, answered, latest, contested, reused, renamed>>
  BY DEF IInv, TypeOK, DeleteRepository, tableVars, history
<1>2. TypeOK'
  <2>1. moves' \in 0 .. MaxMoves
    BY InstallationsBounds DEF IInv, TypeOK, DeleteRepository
  <2>2. github' \in [Ids -> Names \cup {NoName}]
    BY <1>1
  <2> QED
    BY <1>1, <2>1, <2>2 DEF TypeOK
<1>3. \A j \in Live' : j \in Live /\ github'[j] = github[j]
  BY <1>1 DEF Live
<1>4. Payloads' = Payloads /\ \A j : Known(j)' <=> Known(j)
  BY <1>1 DEF Payloads, Known
<1>5. NameInv'
  BY <1>1, <1>3, <1>4 DEF NameInv
<1> QED
  BY <1>1, <1>2, <1>5, MoveKeeps

\* An event names repositories as they are called, and is the last one about them.
LEMMA SendStep ==
  ASSUME IInv, NEW ids \in SUBSET Ids, NEW kind \in Kinds, Send(kind, ids)
  PROVE  IInv'
<1> DEFINE repos == {[id |-> i, name |-> github[i]] : i \in ids}
           event == [kind |-> kind, number |-> sent', repos |-> repos]
<1>1. /\ TypeOK /\ NameInv /\ NumberInv /\ AgreeInv /\ HandlerInv /\ ids \subseteq Live
      /\ github \in [Ids -> Names \cup {NoName}] /\ sent' \in 1 .. MaxEvents
      /\ sent' = sent + 1 /\ sent \in Nat
      /\ mail' = mail \cup {event}
      /\ latest' = [i \in Ids |-> IF i \in ids THEN [kind |-> kind, number |-> sent'] ELSE latest[i]]
      /\ UNCHANGED <<github, moves, installed, rows, indexing, handler, answered, contested, reused, renamed>>
  BY InstallationsBounds DEF IInv, TypeOK, Send, githubVars, tableVars, history
<1>2. repos \subseteq Repository
  BY <1>1 DEF Repository, Live
<1>3. event \in Event
  BY <1>1, <1>2 DEF Event
<1>4. Payloads' = Payloads \cup {repos}
  <2>1. event.repos = repos
    OBVIOUS
  <2> HIDE DEF event, repos
  <2> QED
    BY <1>1, <2>1 DEF Payloads
<1>5. \A r \in repos : r.id \in Live /\ r.name = github[r.id]
  BY <1>1
<1>6. /\ event.number = sent' /\ event.kind = kind /\ \A i \in ids : Touches(event, i)
      /\ \A i \in Ids : i \in ids => latest'[i].kind = kind /\ latest'[i].number = sent'
      /\ \A i \in Ids : i \notin ids => latest'[i] = latest[i]
      /\ latest' \in [Ids -> [kind : Kinds \cup {"none"}, number : 0 .. MaxEvents]]
  <2>1. event.number = sent' /\ event.kind = kind /\ event.repos = repos
    OBVIOUS
  <2>2. ASSUME NEW i \in ids  PROVE Touches(event, i)
    <3> DEFINE r == [id |-> i, name |-> github[i]]
    <3>1. r \in repos /\ r.id = i
      OBVIOUS
    <3> QED
      BY <2>1, <3>1 DEF Touches
  <2>3. \A i \in Ids : latest'[i] = IF i \in ids THEN [kind |-> kind, number |-> sent'] ELSE latest[i]
    BY <1>1
  <2>4. [kind |-> kind, number |-> sent'] \in [kind : Kinds \cup {"none"}, number : 0 .. MaxEvents]
    BY <1>1, InstallationsBounds
  <2>5. latest \in [Ids -> [kind : Kinds \cup {"none"}, number : 0 .. MaxEvents]]
    BY <1>1 DEF TypeOK
  <2>6. latest' \in [Ids -> [kind : Kinds \cup {"none"}, number : 0 .. MaxEvents]]
    BY <1>1, <2>4, <2>5
  <2> HIDE DEF event, repos
  <2> QED
    BY <2>1, <2>2, <2>3, <2>6
<1> HIDE DEF event, repos
<1>7. TypeOK'
  <2>1. mail' \subseteq Event
    BY <1>1, <1>3 DEF TypeOK
  <2>2. sent' \in 0 .. MaxEvents
    BY <1>1, InstallationsBounds
  <2> QED
    BY <1>1, <1>6, <2>1, <2>2 DEF TypeOK
<1>8. NameInv'
  BY <1>1, <1>4, <1>5 DEF NameInv, Live, Known
<1>9. HandlerInv' /\ AddedInv'
  BY <1>1 DEF IInv, HandlerInv, AddedInv, ListedBy, Known
<1>10. /\ \A e \in mail : e.number < sent' /\ e.number \in Nat
       /\ \A h \in Handlers : handler[h].number < sent' /\ handler[h].number \in Nat
       /\ \A i \in Ids : latest[i].number \in Nat
  BY <1>1 DEF TypeOK, NumberInv, Event, Transaction
<1>11. NumberInv'
  <2>1. \A e \in mail : \A i \in Ids : IsLatest(e, i)'
    BY <1>1, <1>6, <1>10 DEF NumberInv, IsLatest
  <2>2. \A h \in Handlers : handler[h].kind # "none" => \A i \in Ids : IsLatest(handler[h], i)'
    BY <1>1, <1>6, <1>10 DEF NumberInv, IsLatest
  <2>3. /\ \A i \in Ids : latest'[i].number = sent' => i \in ids
        /\ \A i \in Ids : latest'[i].number <= sent' /\ (latest'[i].kind # "none" => latest'[i].number # 0)
    BY <1>1, <1>6, <1>10 DEF NumberInv
  <2> QED
    BY <1>1, <1>6, <1>10, <2>1, <2>2, <2>3 DEF NumberInv, IsLatest
<1>12. AgreeInv'
  <2> SUFFICES ASSUME NEW i \in Ids \ contested
               PROVE  /\ (\A e \in mail' : e.number # latest'[i].number) =>
                            \A h \in Handlers : Touches(handler[h], i) => ~Opposite(handler[h].kind, latest'[i].kind)
                      /\ \A h \in Handlers : handler[h].kind # "none" /\ handler[h].number = latest'[i].number =>
                            \A r \in handler[h].repos \ handler[h].todo :
                              r.id = i /\ Known(i) /\ (rows[i].active <=> handler[h].kind \notin Adding) =>
                                i \in handler[h].updates
    BY <1>1 DEF AgreeInv, Known
  <2>1. CASE i \in ids
    BY <1>1, <1>6, <1>10, <2>1
  <2>2. CASE i \notin ids
    BY <1>1, <1>6, <2>2 DEF AgreeInv
  <2> QED
    BY <2>1, <2>2
<1>13. AnsweredReposKnown' /\ AnsweredReposIndexed'
  BY <1>1 DEF IInv, AnsweredReposKnown, AnsweredReposIndexed, Known
<1>14. LastEventObeyed'
  <2> SUFFICES ASSUME NEW i \in Ids \ contested, latest'[i].kind # "none", ~Pending(i)'
               PROVE  rows[i].active <=> latest'[i].kind \in Adding
    BY <1>1 DEF LastEventObeyed
  <2>1. i \notin ids
    BY <1>1, <1>6 DEF Pending
  <2>2. ~Pending(i)
    BY <1>1, <1>6, <2>1 DEF Pending
  <2> QED
    BY <1>6, <2>1, <2>2 DEF IInv, LastEventObeyed
<1> QED
  BY <1>7, <1>8, <1>9, <1>11, <1>12, <1>13, <1>14 DEF IInv

-----------------------------------------------------------------------------
(* The handlers *)

\* Names stay right when no payload is new, and what is new in a row is from a payload.
LEMMA NameKeeps ==
  ASSUME NameInv, UNCHANGED <<github, renamed, reused>>,
         Payloads' \subseteq Payloads \cup {{}},
         \A j \in Ids :
            \/ rows'[j].name = rows[j].name /\ (Known(j)' => Known(j))
            \/ \E p \in Payloads : \E q \in p : q.id = j /\ rows'[j].name = q.name
  PROVE  NameInv'
<1>1. Live' = Live /\ Live \subseteq Ids
  BY DEF Live
<1> SUFFICES ASSUME NEW i \in Live
             PROVE  /\ \A j \in Live : github[j] = github[i] => i = j
                    /\ i \notin renamed =>
                         /\ Known(i)' => rows'[i].name = github[i]
                         /\ \A p \in Payloads' : \A r \in p : r.id = i => r.name = github[i]
                    /\ github[i] \notin reused =>
                         /\ \A j \in Ids : rows'[j].name = github[i] => j = i
                         /\ \A p \in Payloads' : \A r \in p : r.name = github[i] => r.id = i
  BY <1>1 DEF NameInv
<1>2. \A j \in Live : github[j] = github[i] => i = j
  BY DEF NameInv
<1>3. ASSUME i \notin renamed
      PROVE  /\ Known(i)' => rows'[i].name = github[i]
             /\ \A p \in Payloads' : \A r \in p : r.id = i => r.name = github[i]
  BY <1>1, <1>3 DEF NameInv
<1>4. ASSUME github[i] \notin reused
      PROVE  /\ \A j \in Ids : rows'[j].name = github[i] => j = i
             /\ \A p \in Payloads' : \A r \in p : r.name = github[i] => r.id = i
  BY <1>1, <1>4 DEF NameInv
<1> QED
  BY <1>2, <1>3, <1>4

\* What is received is older than what it agrees with, or is the last event itself.
LEMMA ReceiveStep ==
  ASSUME IInv, NEW h \in Handlers, NEW e \in mail, Receive(h, e)
  PROVE  IInv'
<1> DEFINE t == [NoTxn EXCEPT !.kind = e.kind, !.number = e.number,
                              !.fresh = e.kind = "created" /\ ~installed,
                              !.todo = e.repos, !.repos = e.repos]
<1>1. /\ TypeOK /\ HandlerInv /\ AddedInv /\ NumberInv /\ AgreeInv /\ NameInv
      /\ handler[h].kind = "none" /\ mail' = mail \ {e} /\ handler' = [handler EXCEPT ![h] = t]
      /\ contested' = {i \in Ids : IF Touches(e, i) THEN Clashes(e, i) ELSE i \in contested}
      /\ UNCHANGED <<github, moves, sent, installed, rows, indexing, answered, latest, reused, renamed>>
  BY DEF IInv, Receive, githubVars, tableVars
<1>2. e \in Event
  BY <1>1 DEF TypeOK
<1>3. /\ t \in Transaction
      /\ t.kind = e.kind /\ t.number = e.number /\ t.todo = e.repos /\ t.repos = e.repos
      /\ t.inserts = {} /\ t.updates = {}
  <2>1. (e.kind = "created" /\ ~installed) \in BOOLEAN
    OBVIOUS
  <2>2. e.number \in 0 .. MaxEvents
    BY <1>2, InstallationsBounds DEF Event
  <2> QED
    BY <1>2, <2>1, <2>2 DEF NoTxn, Event, Transaction
<1>4. e.kind # "none" /\ e.number # 0 /\ e.kind \in Kinds
  BY <1>2, InstallationsBounds DEF Event, Kinds, Adding
<1> HIDE DEF t
<1>5. /\ DOMAIN handler = Handlers /\ handler'[h] = t
      /\ \A g \in Handlers : g # h => handler'[g] = handler[g]
  BY <1>1 DEF TypeOK
<1>6. TypeOK'
  <2>1. handler' \in [Handlers -> Transaction]
    BY <1>1, <1>3 DEF TypeOK
  <2>2. contested' \subseteq Ids /\ mail' \subseteq mail
    BY <1>1
  <2> QED
    BY <1>1, <2>1, <2>2 DEF TypeOK
<1>7. HandlerInv'
  <2>1. Begun(t) /\ t.updates = {}
    BY <1>3, <1>4 DEF Begun
  <2> QED
    BY <1>1, <1>5, <2>1 DEF HandlerInv, Known
<1>8. AddedInv'
  <2> SUFFICES ASSUME NEW g \in Handlers, handler'[g].kind \in Adding,
                      NEW r \in handler'[g].repos \ handler'[g].todo
               PROVE  ListedBy(g, r)' \in indexing /\ (Known(r.id) \/ r \in handler'[g].inserts)
    BY <1>1 DEF AddedInv, Known
  <2>1. g # h /\ handler'[g] = handler[g]
    BY <1>3, <1>5
  <2> QED
    BY <1>1, <2>1 DEF AddedInv, ListedBy
<1>9. NumberInv'
  <2>1. \A i \in Ids : IsLatest(t, i)
    <3>1. \A i \in Ids : IsLatest(e, i)
      BY <1>1 DEF NumberInv
    <3> QED
      BY <1>3, <3>1 DEF IsLatest, Touches
  <2>2. \A f \in mail' : f \in mail /\ f.number # e.number
    BY <1>1 DEF NumberInv
  <2>3. \A x, i : IsLatest(x, i)' <=> IsLatest(x, i)
    BY <1>1 DEF IsLatest
  <2>4. \A g \in Handlers : (g = h /\ handler'[g] = t) \/ (g # h /\ handler'[g] = handler[g])
    BY <1>5
  <2>5. t.number <= sent
    BY <1>1, <1>3 DEF NumberInv
  <2>6. \A g \in Handlers : handler'[g].kind # "none" => \A i \in Ids : IsLatest(handler'[g], i)
    BY <1>1, <2>1, <2>4 DEF NumberInv
  <2> QED
    BY <1>1, <1>3, <2>2, <2>3, <2>4, <2>5, <2>6 DEF NumberInv, IsLatest
<1>10. AgreeInv'
  <2> SUFFICES ASSUME NEW i \in Ids, i \notin contested'
               PROVE  /\ (\A f \in mail' : f.number # latest[i].number) =>
                            \A g \in Handlers : Touches(handler'[g], i) => ~Opposite(handler'[g].kind, latest[i].kind)
                      /\ \A g \in Handlers : handler'[g].kind # "none" /\ handler'[g].number = latest[i].number =>
                            \A r \in handler'[g].repos \ handler'[g].todo :
                              r.id = i /\ Known(i) /\ (rows[i].active <=> handler'[g].kind \notin Adding) =>
                                i \in handler'[g].updates
    BY <1>1 DEF AgreeInv, Known, Touches
  <2>1. \A g \in Handlers : (g = h /\ handler'[g] = t) \/ (g # h /\ handler'[g] = handler[g])
    BY <1>5
  <2>2. Touches(t, i) <=> Touches(e, i)
    BY <1>3 DEF Touches
  <2>3. CASE e.number = latest[i].number
    <3>1. Touches(e, i) /\ e.kind = latest[i].kind
      BY <1>1, <2>3 DEF NumberInv, IsLatest
    <3>2. \A g \in Handlers : Touches(handler[g], i) => ~Opposite(handler[g].kind, e.kind)
      BY <1>1, <2>3, <3>1 DEF Clashes
    <3>3. \A g \in Handlers : Touches(handler'[g], i) => ~Opposite(handler'[g].kind, latest[i].kind)
      BY <1>3, <2>1, <3>1, <3>2 DEF Opposite
    <3>4. \A g \in Handlers : g # h => handler'[g].number # latest[i].number
      BY <1>1, <2>1, <2>3 DEF NumberInv
    <3>5. \A r \in handler'[h].repos \ handler'[h].todo : FALSE
      BY <1>3, <1>5
    <3> QED
      BY <3>3, <3>4, <3>5
  <2>4. CASE e.number # latest[i].number
    <3>1. i \notin contested /\ (Touches(e, i) => ~Opposite(latest[i].kind, e.kind))
      BY <1>1, <2>4 DEF Clashes
    <3>2. (\A f \in mail' : f.number # latest[i].number) => \A f \in mail : f.number # latest[i].number
      BY <1>1, <2>4
    <3>3. ASSUME \A f \in mail' : f.number # latest[i].number, NEW g \in Handlers, Touches(handler'[g], i)
          PROVE  ~Opposite(handler'[g].kind, latest[i].kind)
      <4>1. CASE g = h
        BY <1>3, <1>5, <2>2, <3>1, <3>3, <4>1 DEF Opposite
      <4>2. CASE g # h
        BY <1>1, <1>5, <3>1, <3>2, <3>3, <4>2 DEF AgreeInv
      <4> QED
        BY <4>1, <4>2
    <3>4. ASSUME NEW g \in Handlers, handler'[g].kind # "none", handler'[g].number = latest[i].number,
                 NEW r \in handler'[g].repos \ handler'[g].todo, r.id = i, Known(i),
                 rows[i].active <=> handler'[g].kind \notin Adding
          PROVE  i \in handler'[g].updates
      <4>1. g # h /\ handler'[g] = handler[g]
        BY <1>3, <2>1, <3>4
      <4> QED
        BY <1>1, <3>1, <3>4, <4>1 DEF AgreeInv
    <3> QED
      BY <3>3, <3>4
  <2> QED
    BY <2>3, <2>4
<1>11. NameInv'
  <2>1. Payloads' \subseteq Payloads
    BY <1>1, <1>3, <1>5 DEF Payloads
  <2>2. \A j \in Ids : rows'[j].name = rows[j].name /\ (Known(j)' => Known(j))
    BY <1>1 DEF Known
  <2> QED
    BY <1>1, <2>1, <2>2, NameKeeps
<1>12. AnsweredReposKnown' /\ AnsweredReposIndexed'
  BY <1>1 DEF IInv, AnsweredReposKnown, AnsweredReposIndexed, Known
<1>13. LastEventObeyed'
  <2> SUFFICES ASSUME NEW i \in Ids, i \notin contested', latest[i].kind # "none", ~Pending(i)'
               PROVE  rows[i].active <=> latest[i].kind \in Adding
    BY <1>1 DEF LastEventObeyed
  <2>1. e.number # latest[i].number
    BY <1>1, <1>3, <1>5 DEF Pending
  <2>2. i \notin contested
    BY <1>1, <2>1 DEF Clashes
  <2>3. ~Pending(i)
    <3>1. \A f \in mail : f.number # latest[i].number
      BY <1>1, <2>1 DEF Pending
    <3>2. \A g \in Handlers : g # h => handler[g].number # latest[i].number
      BY <1>1, <1>5 DEF Pending
    <3>3. handler[h].number = 0 /\ latest[i].number # 0
      <4>1. handler[h] = NoTxn
        BY <1>1 DEF HandlerInv, Begun
      <4>2. latest[i].number # 0
        BY <1>1 DEF NumberInv
      <4> QED
        BY <4>1, <4>2 DEF NoTxn
    <3> QED
      BY <3>1, <3>2, <3>3 DEF Pending
  <2> QED
    BY <2>2, <2>3 DEF IInv, LastEventObeyed
<1> QED
  BY <1>6, <1>7, <1>8, <1>9, <1>10, <1>11, <1>12, <1>13 DEF IInv

\* What going through one repository changes: nothing but the transaction, and what is
\* indexed.
LEMMA LookStep ==
  ASSUME IInv, NEW h \in Handlers, NEW r \in handler[h].todo, NEW t, t \in Transaction,
         handler' = [handler EXCEPT ![h] = t],
         t.kind = handler[h].kind, t.kind # "none", t.number = handler[h].number,
         t.repos = handler[h].repos, t.todo = handler[h].todo \ {r},
         t.inserts \subseteq handler[h].inserts \cup {r},
         t.kind = "removed" => t.inserts = {},
         handler[h].updates \subseteq t.updates, t.updates \subseteq handler[h].updates \cup {r.id},
         r.id \in t.updates \ handler[h].updates => Known(r.id),
         t.kind \in Adding =>
            /\ ListedBy(h, r) \in indexing' /\ (Known(r.id) \/ r \in t.inserts)
            /\ handler[h].inserts \subseteq t.inserts,
         Known(r.id) /\ (rows[r.id].active <=> t.kind \notin Adding) => r.id \in t.updates,
         indexing \subseteq indexing', indexing' \subseteq Listed,
         UNCHANGED <<github, moves, mail, sent, installed, rows, answered, latest, contested, reused, renamed>>
  PROVE  IInv'
<1>1. /\ TypeOK /\ HandlerInv /\ AddedInv /\ NumberInv /\ AgreeInv /\ NameInv
      /\ Begun(handler[h]) /\ r \in handler[h].repos
  BY DEF IInv, HandlerInv, Begun
<1>2. /\ DOMAIN handler = Handlers /\ handler'[h] = t
      /\ \A g \in Handlers : g # h => handler'[g] = handler[g]
  BY <1>1 DEF TypeOK
<1>3. TypeOK'
  <2>1. handler' \in [Handlers -> Transaction]
    BY <1>1 DEF TypeOK
  <2> QED
    BY <1>1, <2>1 DEF TypeOK
<1>4. HandlerInv'
  <2>1. Begun(t) /\ \A i \in t.updates : Known(i)
    BY <1>1 DEF HandlerInv, Begun, Touches
  <2> QED
    BY <1>1, <1>2, <2>1 DEF HandlerInv, Known
<1>5. /\ \A g \in Handlers : \A q : ListedBy(g, q)' = ListedBy(g, q)
      /\ \A g \in Handlers : /\ handler'[g].kind = handler[g].kind
                              /\ handler'[g].number = handler[g].number
                              /\ handler'[g].repos = handler[g].repos
      /\ \A i : Known(i)' <=> Known(i)
  BY <1>2 DEF ListedBy, Known
<1>6. AddedInv'
  <2> SUFFICES ASSUME NEW g \in Handlers, handler'[g].kind \in Adding,
                      NEW q \in handler'[g].repos \ handler'[g].todo
               PROVE  ListedBy(g, q) \in indexing' /\ (Known(q.id) \/ q \in handler'[g].inserts)
    BY <1>5 DEF AddedInv
  <2>1. CASE g = h /\ q = r
    BY <1>2, <2>1
  <2>2. CASE g = h /\ q # r
    <3>1. q \in handler[h].repos \ handler[h].todo
      BY <1>2, <2>2
    <3> QED
      BY <1>1, <1>2, <2>2, <3>1 DEF AddedInv
  <2>3. CASE g # h
    BY <1>1, <1>2, <2>3 DEF AddedInv
  <2> QED
    BY <2>1, <2>2, <2>3
<1>7. NumberInv'
  BY <1>1, <1>5 DEF NumberInv, IsLatest, Touches
<1>8. AgreeInv'
  <2> SUFFICES ASSUME NEW i \in Ids \ contested
               PROVE  /\ (\A e \in mail : e.number # latest[i].number) =>
                            \A g \in Handlers : Touches(handler'[g], i) => ~Opposite(handler'[g].kind, latest[i].kind)
                      /\ \A g \in Handlers : handler'[g].kind # "none" /\ handler'[g].number = latest[i].number =>
                            \A q \in handler'[g].repos \ handler'[g].todo :
                              q.id = i /\ Known(i) /\ (rows[i].active <=> handler'[g].kind \notin Adding) =>
                                i \in handler'[g].updates
    BY DEF AgreeInv, Touches, Known
  <2>1. \A g \in Handlers : Touches(handler'[g], i) <=> Touches(handler[g], i)
    BY <1>5 DEF Touches
  <2>2. ASSUME NEW g \in Handlers, handler'[g].kind # "none", handler'[g].number = latest[i].number,
               NEW q \in handler'[g].repos \ handler'[g].todo,
               q.id = i, Known(i), rows[i].active <=> handler'[g].kind \notin Adding
        PROVE  i \in handler'[g].updates
    <3>1. CASE g # h
      BY <1>1, <1>2, <2>2, <3>1 DEF AgreeInv
    <3>2. CASE g = h /\ q # r
      <4>1. q \in handler[h].repos \ handler[h].todo /\ handler'[g] = t
        BY <1>2, <2>2, <3>2
      <4> QED
        BY <1>1, <2>2, <3>2, <4>1 DEF AgreeInv
    <3>3. CASE g = h /\ q = r
      BY <1>2, <2>2, <3>3
    <3> QED
      BY <3>1, <3>2, <3>3
  <2>3. (\A e \in mail : e.number # latest[i].number) =>
           \A g \in Handlers : Touches(handler'[g], i) => ~Opposite(handler'[g].kind, latest[i].kind)
    BY <1>1, <1>5, <2>1 DEF AgreeInv
  <2> QED
    BY <2>2, <2>3
<1>9. NameInv'
  <2>1. Payloads' \subseteq Payloads
    BY <1>5 DEF Payloads
  <2>2. \A j \in Ids : rows'[j].name = rows[j].name /\ (Known(j)' => Known(j))
    BY DEF Known
  <2> QED
    BY <1>1, <2>1, <2>2, NameKeeps
<1>10. AnsweredReposKnown' /\ AnsweredReposIndexed'
  BY <1>5 DEF IInv, AnsweredReposKnown, AnsweredReposIndexed
<1>11. LastEventObeyed'
  BY <1>5 DEF IInv, LastEventObeyed, Pending
<1> QED
  BY <1>3, <1>4, <1>6, <1>7, <1>8, <1>9, <1>10, <1>11 DEF IInv

LEMMA AddStep ==
  ASSUME IInv, NEW h \in Handlers, NEW r \in Repository, AddRepository(h, r)
  PROVE  IInv'
<1> DEFINE old == handler[h]
           t == [old EXCEPT !.todo = old.todo \ {r},
                            !.inserts = IF Known(r.id) THEN old.inserts ELSE old.inserts \cup {r},
                            !.updates = IF Known(r.id) /\ ~rows[r.id].active THEN old.updates \cup {r.id} ELSE old.updates]
<1>1. TypeOK /\ HandlerInv
  BY DEF IInv
<1>2. /\ old \in Transaction
      /\ r.id \in Ids
  BY <1>1 DEF TypeOK, Repository
<1>3. /\ handler' = [handler EXCEPT ![h] = t]
      /\ old.kind \in Adding /\ r \in old.todo /\ indexing' = indexing \cup {ListedBy(h, r)}
      /\ UNCHANGED <<github, moves, mail, sent, installed, rows, answered, latest, contested, reused, renamed>>
  BY <1>1 DEF AddRepository, githubVars, history, TypeOK
<1>4. /\ t \in Transaction
      /\ t.kind = old.kind /\ t.number = old.number
      /\ t.repos = old.repos /\ t.todo = old.todo \ {r}
      /\ t.inserts = IF Known(r.id) THEN old.inserts ELSE old.inserts \cup {r}
      /\ t.updates = IF Known(r.id) /\ ~rows[r.id].active THEN old.updates \cup {r.id} ELSE old.updates
  BY <1>2 DEF Transaction
<1>5. old.kind # "none" /\ old.kind # "removed"
  BY <1>3 DEF Adding
<1>6. indexing' \subseteq Listed
  <2>1. old.number \in 1 .. MaxEvents
    <3>1. old.number # 0 /\ old.number \in 0 .. MaxEvents
      BY <1>1, <1>2, <1>5 DEF HandlerInv, Begun, Transaction
    <3> QED
      BY <3>1, InstallationsBounds
  <2>2. ListedBy(h, r) \in Listed
    BY <2>1 DEF ListedBy, Listed, Repository
  <2> QED
    BY <1>1, <1>3, <2>2 DEF TypeOK
<1> HIDE DEF t
<1> QED
  BY <1>3, <1>4, <1>5, <1>6, LookStep

LEMMA RemoveStep ==
  ASSUME IInv, NEW h \in Handlers, NEW r \in Repository, RemoveRepository(h, r)
  PROVE  IInv'
<1> DEFINE old == handler[h]
           t == [old EXCEPT !.todo = old.todo \ {r},
                            !.updates = IF Known(r.id) /\ rows[r.id].active THEN old.updates \cup {r.id} ELSE old.updates]
<1>1. TypeOK /\ HandlerInv
  BY DEF IInv
<1>2. /\ old \in Transaction
      /\ r.id \in Ids
  BY <1>1 DEF TypeOK, Repository
<1>3. /\ handler' = [handler EXCEPT ![h] = t]
      /\ old.kind = "removed" /\ r \in old.todo
      /\ UNCHANGED <<github, moves, mail, sent, installed, rows, indexing, answered, latest, contested, reused, renamed>>
  BY <1>1 DEF RemoveRepository, githubVars, tableVars, history, TypeOK
<1>4. /\ t \in Transaction
      /\ t.kind = old.kind /\ t.number = old.number
      /\ t.repos = old.repos /\ t.todo = old.todo \ {r}
      /\ t.inserts = old.inserts
      /\ t.updates = IF Known(r.id) /\ rows[r.id].active THEN old.updates \cup {r.id} ELSE old.updates
  BY <1>2 DEF Transaction
<1>5. old.kind # "none" /\ old.kind \notin Adding /\ old.inserts = {}
  BY <1>1, <1>3 DEF Adding, HandlerInv, Begun
<1>6. indexing' \subseteq Listed
  BY <1>1, <1>3 DEF TypeOK
<1> HIDE DEF t
<1>7. t.kind \notin Adding /\ t.kind # "none" /\ t.inserts = {} /\ t.inserts \subseteq old.inserts \cup {r}
  BY <1>4, <1>5
<1>8. /\ old.updates \subseteq t.updates /\ t.updates \subseteq old.updates \cup {r.id}
      /\ r.id \in t.updates \ old.updates => Known(r.id)
      /\ Known(r.id) /\ (rows[r.id].active <=> t.kind \notin Adding) => r.id \in t.updates
  BY <1>4, <1>7
<1> QED
  BY <1>3, <1>4, <1>6, <1>7, <1>8, LookStep

-----------------------------------------------------------------------------
(* Commits *)

\* A commit flips the rows that it updates, makes those that it inserts, and leaves the
\* others alone.
LEMMA WrittenFacts ==
  ASSUME IInv, NEW h \in Handlers, handler[h].kind # "none", rows' = Written(h)
  PROVE  /\ rows' \in [Ids -> [name : Names, active : BOOLEAN] \cup {NoRow}]
         /\ \A i \in Ids :
              /\ i \in handler[h].updates =>
                    /\ Known(i) /\ rows'[i].name = rows[i].name
                    /\ rows'[i].active <=> handler[h].kind \in Adding
              /\ i \notin handler[h].updates /\ (\E r \in handler[h].inserts : r.id = i) =>
                    /\ handler[h].kind \in Adding /\ rows'[i].active
                    /\ \E q \in handler[h].inserts : q.id = i /\ rows'[i].name = q.name
              /\ i \notin handler[h].updates /\ (\A r \in handler[h].inserts : r.id # i) => rows'[i] = rows[i]
              /\ Known(i) => Known(i)'
              /\ (\E r \in handler[h].inserts : r.id = i) => Known(i)'
<1>1. TypeOK /\ HandlerInv
  BY DEF IInv
<1>2. /\ rows \in [Ids -> [name : Names, active : BOOLEAN] \cup {NoRow}]
      /\ handler[h].inserts \subseteq Repository /\ handler[h].updates \subseteq Ids
      /\ handler[h].kind \in Kinds \cup {"none"}
  BY <1>1 DEF TypeOK, Transaction
<1>3. handler[h].inserts # {} => handler[h].kind \in Adding
  BY <1>1, <1>2 DEF HandlerInv, Begun, Kinds
<1>4. NoRow.name \notin Names
  BY NoNameAssumption DEF NoRow
<1>5. ASSUME NEW i \in Ids, i \in handler[h].updates
      PROVE  /\ Known(i) /\ rows[i] \in [name : Names, active : BOOLEAN]
             /\ rows'[i] = [rows[i] EXCEPT !.active = (handler[h].kind \in Adding)]
             /\ rows'[i] \in [name : Names, active : BOOLEAN]
             /\ rows'[i].name = rows[i].name /\ (rows'[i].active <=> handler[h].kind \in Adding)
  <2>1. Known(i) /\ rows[i] \in [name : Names, active : BOOLEAN]
    BY <1>1, <1>2, <1>5 DEF HandlerInv, Known
  <2>2. rows'[i] = [rows[i] EXCEPT !.active = (handler[h].kind \in Adding)]
    BY <1>5 DEF Written
  <2>3. (handler[h].kind \in Adding) \in BOOLEAN
    OBVIOUS
  <2> QED
    BY <2>1, <2>2, <2>3
<1>6. ASSUME NEW i \in Ids, i \notin handler[h].updates, NEW r \in handler[h].inserts, r.id = i
      PROVE  /\ rows'[i] \in [name : Names, active : BOOLEAN] /\ rows'[i].active
             /\ \E q \in handler[h].inserts : q.id = i /\ rows'[i].name = q.name
  <2> DEFINE q == CHOOSE q \in handler[h].inserts : q.id = i
  <2>1. q \in handler[h].inserts /\ q.id = i
    BY <1>6
  <2>2. rows'[i] = [name |-> q.name, active |-> TRUE]
    BY <1>6 DEF Written
  <2>3. q.name \in Names
    BY <1>2, <2>1 DEF Repository
  <2> HIDE DEF q
  <2> QED
    BY <2>1, <2>2, <2>3
<1>7. ASSUME NEW i \in Ids, i \notin handler[h].updates, \A r \in handler[h].inserts : r.id # i
      PROVE  rows'[i] = rows[i]
  BY <1>7 DEF Written
<1>8. \A i \in Ids : rows'[i] \in [name : Names, active : BOOLEAN] => Known(i)'
  BY <1>4 DEF Known
<1>9. rows' \in [Ids -> [name : Names, active : BOOLEAN] \cup {NoRow}]
  <2>1. DOMAIN rows' = Ids /\ rows' = [i \in Ids |-> rows'[i]]
    BY DEF Written
  <2>2. \A i \in Ids : rows'[i] \in [name : Names, active : BOOLEAN] \cup {NoRow}
    BY <1>2, <1>5, <1>6, <1>7, ZenonT(30)
  <2> QED
    BY <2>1, <2>2
<1>10. ASSUME NEW i \in Ids, Known(i) PROVE Known(i)'
  <2>1. CASE i \in handler[h].updates
    BY <1>5, <1>8, <2>1
  <2>2. CASE i \notin handler[h].updates /\ \E r \in handler[h].inserts : r.id = i
    BY <1>6, <1>8, <2>2
  <2>3. CASE i \notin handler[h].updates /\ \A r \in handler[h].inserts : r.id # i
    BY <1>7, <1>10, <2>3 DEF Known
  <2> QED
    BY <2>1, <2>2, <2>3
<1>11. ASSUME NEW i \in Ids, \E r \in handler[h].inserts : r.id = i PROVE Known(i)'
  <2>1. CASE i \in handler[h].updates
    BY <1>5, <1>8, <2>1
  <2>2. CASE i \notin handler[h].updates
    BY <1>6, <1>8, <1>11, <2>2
  <2> QED
    BY <2>1, <2>2
<1> QED
  BY <1>3, <1>5, <1>6, <1>7, <1>9, <1>10, <1>11

\* The end of a transaction, whatever it wrote.
LEMMA EndFacts ==
  ASSUME IInv, NEW h \in Handlers, Ends(h)
  PROVE  /\ handler'[h] = NoTxn /\ \A g \in Handlers : g # h => handler'[g] = handler[g]
         /\ handler' \in [Handlers -> Transaction] /\ Begun(NoTxn)
         /\ NoTxn.kind = "none" /\ NoTxn.repos = {} /\ NoTxn.updates = {} /\ NoTxn.number = 0
         /\ NoTxn.kind \notin Adding /\ \A i : ~Touches(NoTxn, i)
         /\ \A g \in Handlers : \A q : g # h => ListedBy(g, q)' = ListedBy(g, q)
         /\ Payloads' \subseteq Payloads \cup {{}}
         /\ UNCHANGED <<github, moves, mail, sent, indexing, latest, reused, renamed>>
<1>1. /\ handler \in [Handlers -> Transaction] /\ handler' = [handler EXCEPT ![h] = NoTxn]
      /\ UNCHANGED <<github, moves, mail, sent, indexing, latest, reused, renamed>>
  BY DEF IInv, TypeOK, Ends, githubVars
<1>2. /\ NoTxn.kind = "none" /\ NoTxn.todo = {} /\ NoTxn.repos = {} /\ NoTxn.inserts = {}
      /\ NoTxn.updates = {} /\ NoTxn.number = 0 /\ NoTxn.kind \notin Adding
  BY DEF NoTxn, Adding
<1>3. NoTxn \in Transaction
  BY InstallationsBounds DEF NoTxn, Transaction
<1>4. Begun(NoTxn) /\ \A i : ~Touches(NoTxn, i)
  BY <1>2 DEF Begun, Touches
<1>5. /\ handler'[h] = NoTxn /\ \A g \in Handlers : g # h => handler'[g] = handler[g]
      /\ handler' \in [Handlers -> Transaction]
  BY <1>1, <1>3
<1>6. Payloads' \subseteq Payloads \cup {{}}
  BY <1>1, <1>2, <1>5 DEF Payloads
<1> QED
  BY <1>1, <1>2, <1>4, <1>5, <1>6 DEF ListedBy

\* What was said of the other transactions' numbers is still true.
LEMMA EndNumbers ==
  ASSUME IInv, NEW h \in Handlers, Ends(h)
  PROVE  NumberInv'
<1>1. NumberInv /\ TypeOK
  BY DEF IInv
<1>2. /\ \A g \in Handlers : handler'[g] = handler[g] \/ handler'[g] = NoTxn
      /\ NoTxn.kind = "none" /\ NoTxn.number = 0
      /\ UNCHANGED <<mail, sent, latest>>
  BY EndFacts
<1>3. \A e \in mail : e.number # 0 /\ 0 <= sent
  BY <1>1, InstallationsBounds DEF TypeOK, Event
<1>4. 0 <= sent
  BY <1>1, InstallationsBounds DEF TypeOK
<1> QED
  BY <1>1, <1>2, <1>3, <1>4 DEF NumberInv, IsLatest

\* A transaction that is written, whatever the answer.
LEMMA WritesStep ==
  ASSUME IInv, NEW h \in Handlers, Writes(h), Ends(h),
         answered' = answered
           \/ /\ handler[h].kind \in Adding
              /\ answered' = answered \cup {ListedBy(h, r) : r \in handler[h].repos},
         contested \subseteq contested', contested' \subseteq Ids
  PROVE  IInv'
<1> DEFINE t == handler[h]
<1>1. /\ TypeOK /\ HandlerInv /\ AddedInv /\ NumberInv /\ AgreeInv /\ NameInv
      /\ AnsweredReposKnown /\ LastEventObeyed /\ AnsweredReposIndexed
  BY DEF IInv
<1>2. /\ t.kind # "none" /\ t.todo = {} /\ rows' = Written(h)
      /\ installed' = (installed \/ t.kind = "created")
  BY DEF Writes, Done
<1>3. t \in Transaction /\ Begun(t)
  BY <1>1 DEF TypeOK, HandlerInv
<1>4. /\ handler'[h] = NoTxn /\ \A g \in Handlers : g # h => handler'[g] = handler[g]
      /\ handler' \in [Handlers -> Transaction] /\ Begun(NoTxn)
      /\ NoTxn.kind = "none" /\ NoTxn.repos = {} /\ NoTxn.updates = {}
      /\ NoTxn.kind \notin Adding /\ \A i : ~Touches(NoTxn, i)
      /\ \A g \in Handlers : \A q : g # h => ListedBy(g, q)' = ListedBy(g, q)
      /\ Payloads' \subseteq Payloads \cup {{}}
      /\ UNCHANGED <<github, moves, mail, sent, indexing, latest, reused, renamed>>
  BY EndFacts
<1>5. \A r \in t.repos : r.id \in Ids /\ r.name \in Names
  BY <1>3 DEF Transaction, Repository
<1>6. /\ rows' \in [Ids -> [name : Names, active : BOOLEAN] \cup {NoRow}]
      /\ \A i \in Ids :
           /\ i \in t.updates => /\ Known(i) /\ rows'[i].name = rows[i].name
                                 /\ rows'[i].active <=> t.kind \in Adding
           /\ i \notin t.updates /\ (\E r \in t.inserts : r.id = i) =>
                /\ t.kind \in Adding /\ rows'[i].active
                /\ \E q \in t.inserts : q.id = i /\ rows'[i].name = q.name
           /\ i \notin t.updates /\ (\A r \in t.inserts : r.id # i) => rows'[i] = rows[i]
           /\ Known(i) => Known(i)'
           /\ (\E r \in t.inserts : r.id = i) => Known(i)'
  BY <1>2, WrittenFacts
<1>7. \A i \in Ids : ~Touches(t, i) => rows'[i] = rows[i]
  BY <1>3, <1>6 DEF Begun, Touches
<1>8. \A i \in Ids : rows'[i] = rows[i] \/ (rows'[i].active <=> t.kind \in Adding)
  BY <1>6
<1>9. \A r \in t.repos : t.kind \in Adding => ListedBy(h, r) \in indexing
  BY <1>1, <1>2 DEF AddedInv
<1>10. TypeOK'
  <2>1. answered' \subseteq Listed
    BY <1>1, <1>9 DEF TypeOK
  <2>2. installed' \in BOOLEAN
    BY <1>2
  <2> QED
    BY <1>1, <1>4, <1>6, <2>1, <2>2 DEF TypeOK
<1>11. HandlerInv'
  <2> SUFFICES ASSUME NEW g \in Handlers
               PROVE  Begun(handler'[g]) /\ \A i \in handler'[g].updates : Known(i)'
    BY DEF HandlerInv, Begun, Touches
  <2>1. CASE g = h
    BY <1>4, <2>1
  <2>2. CASE g # h
    <3>1. handler[g].updates \subseteq Ids
      BY <1>1 DEF TypeOK, Transaction
    <3> QED
      BY <1>1, <1>4, <1>6, <2>2, <3>1 DEF HandlerInv
  <2> QED
    BY <2>1, <2>2
<1>12. AddedInv'
  <2> SUFFICES ASSUME NEW g \in Handlers, handler'[g].kind \in Adding,
                      NEW r \in handler'[g].repos \ handler'[g].todo
               PROVE  ListedBy(g, r)' \in indexing /\ (Known(r.id)' \/ r \in handler'[g].inserts)
    BY <1>4 DEF AddedInv
  <2>1. g # h /\ handler'[g] = handler[g]
    BY <1>4
  <2>2. r.id \in Ids
    BY <1>1, <2>1 DEF TypeOK, Transaction, Repository
  <2> QED
    BY <1>1, <1>4, <1>6, <2>1, <2>2 DEF AddedInv
<1>13. NumberInv'
  BY EndNumbers
<1>14. AgreeInv'
  <2> SUFFICES ASSUME NEW i \in Ids, i \notin contested
               PROVE  /\ (\A e \in mail : e.number # latest[i].number) =>
                            \A g \in Handlers : Touches(handler'[g], i) => ~Opposite(handler'[g].kind, latest[i].kind)
                      /\ \A g \in Handlers : handler'[g].kind # "none" /\ handler'[g].number = latest[i].number =>
                            \A r \in handler'[g].repos \ handler'[g].todo :
                              r.id = i /\ Known(i)' /\ (rows'[i].active <=> handler'[g].kind \notin Adding) =>
                                i \in handler'[g].updates
    BY <1>4 DEF AgreeInv, Touches
  <2>1. \A g \in Handlers : Touches(handler'[g], i) => g # h /\ handler'[g] = handler[g]
    BY <1>4
  <2>2. ASSUME NEW g \in Handlers, handler'[g].kind # "none", handler'[g].number = latest[i].number,
               NEW r \in handler'[g].repos \ handler'[g].todo, r.id = i, Known(i)',
               rows'[i].active <=> handler'[g].kind \notin Adding
        PROVE  i \in handler'[g].updates
    <3>1. g # h /\ handler'[g] = handler[g]
      BY <1>4, <2>2
    <3>2. CASE rows'[i] = rows[i]
      BY <1>1, <2>2, <3>1, <3>2 DEF AgreeInv, Known
    <3>3. CASE rows'[i] # rows[i]
      <4>1. Touches(t, i) /\ (rows'[i].active <=> t.kind \in Adding)
        BY <1>7, <1>8, <3>3
      <4>2. \A e \in mail : e.number # latest[i].number
        BY <1>1, <2>2, <3>1 DEF NumberInv
      <4>3. handler[g].kind = latest[i].kind
        BY <1>1, <2>2, <3>1 DEF NumberInv, IsLatest
      <4>4. ~Opposite(t.kind, latest[i].kind)
        BY <1>1, <4>1, <4>2 DEF AgreeInv
      <4> QED
        BY <2>2, <3>1, <4>1, <4>3, <4>4 DEF Opposite
    <3> QED
      BY <3>2, <3>3
  <2>3. (\A e \in mail : e.number # latest[i].number) =>
           \A g \in Handlers : Touches(handler'[g], i) => ~Opposite(handler'[g].kind, latest[i].kind)
    BY <1>1, <2>1 DEF AgreeInv
  <2> QED
    BY <2>2, <2>3
<1>15. NameInv'
  <2>1. ASSUME NEW j \in Ids
        PROVE  \/ rows'[j].name = rows[j].name /\ (Known(j)' => Known(j))
               \/ \E p \in Payloads : \E q \in p : q.id = j /\ rows'[j].name = q.name
    <3>1. t.repos \in Payloads /\ t.inserts \subseteq t.repos
      BY <1>3 DEF Payloads, Begun
    <3>2. CASE j \in t.updates
      BY <1>6, <3>2
    <3>3. CASE j \notin t.updates /\ \E r \in t.inserts : r.id = j
      BY <1>6, <3>1, <3>3
    <3>4. CASE j \notin t.updates /\ \A r \in t.inserts : r.id # j
      BY <1>6, <3>4 DEF Known
    <3> QED
      BY <3>2, <3>3, <3>4
  <2> QED
    BY <1>1, <1>4, <2>1, NameKeeps
<1>16. AnsweredReposKnown'
  <2> SUFFICES ASSUME NEW r \in answered' PROVE Known(r.id)'
    BY DEF AnsweredReposKnown, Known
  <2>1. CASE r \in answered
    <3>1. r.id \in Ids /\ Known(r.id)
      BY <1>1, <2>1 DEF AnsweredReposKnown, TypeOK, Listed
    <3> QED
      BY <1>6, <3>1
  <2>2. CASE r \notin answered
    <3>1. PICK q \in t.repos : r = ListedBy(h, q)
      BY <2>2
    <3>2. r.id = q.id /\ q.id \in Ids
      BY <1>5, <3>1 DEF ListedBy
    <3>3. Known(q.id) \/ q \in t.inserts
      BY <1>1, <1>2, <2>2 DEF AddedInv
    <3> QED
      BY <1>6, <3>2, <3>3
  <2> QED
    BY <2>1, <2>2
<1>17. LastEventObeyed'
  <2> SUFFICES ASSUME NEW i \in Ids, i \notin contested, latest[i].kind # "none", ~Pending(i)'
               PROVE  rows'[i].active <=> latest[i].kind \in Adding
    BY <1>4 DEF LastEventObeyed
  <2>1. /\ \A e \in mail : e.number # latest[i].number
        /\ \A g \in Handlers : g # h => handler[g].number # latest[i].number
    BY <1>4 DEF Pending
  <2>2. Touches(t, i) => ~Opposite(t.kind, latest[i].kind)
    BY <1>1, <2>1 DEF AgreeInv
  <2>3. CASE rows'[i] # rows[i]
    BY <1>7, <1>8, <2>2, <2>3 DEF Opposite
  <2>4. CASE rows'[i] = rows[i] /\ t.number # latest[i].number
    <3>1. ~Pending(i)
      BY <2>1, <2>4 DEF Pending
    <3> QED
      BY <1>1, <2>4, <3>1 DEF LastEventObeyed
  <2>5. CASE rows'[i] = rows[i] /\ t.number = latest[i].number
    <3>1. t.kind = latest[i].kind /\ Touches(t, i)
      BY <1>1, <1>2, <2>5 DEF NumberInv, IsLatest
    <3>2. PICK r \in t.repos : r.id = i
      BY <3>1 DEF Touches
    <3>3. CASE i \in t.updates
      BY <1>6, <3>1, <3>3
    <3>4. CASE i \notin t.updates /\ \E q \in t.inserts : q.id = i
      BY <1>6, <3>1, <3>4
    <3>5. CASE i \notin t.updates /\ \A q \in t.inserts : q.id # i
      <4>1. CASE Known(i)
        <5>1. ~(rows[i].active <=> t.kind \notin Adding)
          BY <1>1, <1>2, <2>5, <3>2, <3>5, <4>1 DEF AgreeInv
        <5>2. rows[i].active \in BOOLEAN
          BY <1>1, <4>1 DEF TypeOK, Known
        <5> QED
          BY <2>5, <3>1, <5>1, <5>2
      <4>2. CASE ~Known(i)
        <5>1. t.kind \notin Adding
          BY <1>1, <1>2, <3>2, <3>5, <4>2 DEF AddedInv
        <5>2. ~rows[i].active
          BY <4>2 DEF Known, NoRow
        <5> QED
          BY <2>5, <3>1, <5>1, <5>2
      <4> QED
        BY <4>1, <4>2
    <3> QED
      BY <3>3, <3>4, <3>5
  <2> QED
    BY <2>3, <2>4, <2>5
<1>18. AnsweredReposIndexed'
  <2>1. answered' \subseteq indexing
    BY <1>1, <1>9 DEF AnsweredReposIndexed
  <2>2. ASSUME NEW i \in Ids, Known(i)'
        PROVE  \E r \in indexing : r.id = i /\ r.name = rows'[i].name
    <3>1. CASE i \in t.updates
      BY <1>1, <1>6, <3>1 DEF AnsweredReposIndexed
    <3>2. CASE i \notin t.updates /\ \E r \in t.inserts : r.id = i
      <4>1. PICK q \in t.inserts : q.id = i /\ rows'[i].name = q.name
        BY <1>6, <3>2
      <4>2. q \in t.repos /\ t.kind \in Adding
        BY <1>3, <1>6, <3>2, <4>1 DEF Begun
      <4>3. ListedBy(h, q) \in indexing
        BY <1>9, <4>2
      <4>4. ListedBy(h, q).id = i /\ ListedBy(h, q).name = rows'[i].name
        BY <4>1 DEF ListedBy
      <4> QED
        BY <4>3, <4>4
    <3>3. CASE i \notin t.updates /\ \A r \in t.inserts : r.id # i
      BY <1>1, <1>6, <2>2, <3>3 DEF AnsweredReposIndexed, Known
    <3> QED
      BY <3>1, <3>2, <3>3
  <2> QED
    BY <1>4, <2>1, <2>2 DEF AnsweredReposIndexed, Known
<1> QED
  BY <1>10, <1>11, <1>12, <1>13, <1>14, <1>15, <1>16, <1>17, <1>18 DEF IInv

LEMMA CommitStep ==
  ASSUME IInv, NEW h \in Handlers, Commit(h) \/ CommitInDoubt(h)
  PROVE  IInv'
<1>1. contested \subseteq Ids
  BY DEF IInv, TypeOK
<1> QED
  BY <1>1, WritesStep DEF Commit, CommitInDoubt, Answer200, Answer500

\* A rollback leaves the rows alone, and the event was the last one only if its ids are
\* given up.
LEMMA RequestFailsStep ==
  ASSUME IInv, NEW h \in Handlers, RequestFails(h)
  PROVE  IInv'
<1>1. /\ TypeOK /\ HandlerInv /\ AddedInv /\ NumberInv /\ AgreeInv /\ NameInv
      /\ LastEventObeyed /\ Ends(h) /\ UNCHANGED <<installed, rows, answered>>
      /\ contested' = contested \cup {i \in Ids : handler[h].number = latest[i].number}
  BY DEF IInv, RequestFails, Answer500
<1>2. /\ \A g \in Handlers : g # h => handler'[g] = handler[g]
      /\ handler'[h] = NoTxn /\ handler' \in [Handlers -> Transaction] /\ Begun(NoTxn)
      /\ NoTxn.kind = "none" /\ NoTxn.repos = {} /\ NoTxn.updates = {}
      /\ NoTxn.kind \notin Adding /\ \A i : ~Touches(NoTxn, i)
      /\ \A g \in Handlers : \A q : g # h => ListedBy(g, q)' = ListedBy(g, q)
      /\ Payloads' \subseteq Payloads \cup {{}}
      /\ UNCHANGED <<github, moves, mail, sent, indexing, latest, reused, renamed>>
  BY <1>1, EndFacts
<1>3. \A i : Known(i)' <=> Known(i)
  BY <1>1 DEF Known
<1>4. TypeOK'
  BY <1>1, <1>2 DEF TypeOK
<1>5. HandlerInv'
  <2>1. \A g \in Handlers : Begun(handler'[g]) /\ \A i \in handler'[g].updates : Known(i)
    BY <1>1, <1>2 DEF HandlerInv
  <2> QED
    BY <1>3, <2>1 DEF HandlerInv, Begun, Touches
<1>6. AddedInv'
  BY <1>1, <1>2, <1>3 DEF AddedInv
<1>7. NumberInv'
  BY <1>1, EndNumbers
<1>8. AgreeInv'
  BY <1>1, <1>2, <1>3 DEF AgreeInv, Touches
<1>9. NameInv'
  <2>1. \A j \in Ids : rows'[j].name = rows[j].name /\ (Known(j)' => Known(j))
    BY <1>1 DEF Known
  <2> QED
    BY <1>1, <1>2, <2>1, NameKeeps
<1>10. AnsweredReposKnown' /\ AnsweredReposIndexed'
  BY <1>1, <1>2, <1>3 DEF IInv, AnsweredReposKnown, AnsweredReposIndexed
<1>11. LastEventObeyed'
  <2> SUFFICES ASSUME NEW i \in Ids, i \notin contested', latest[i].kind # "none", ~Pending(i)'
               PROVE  rows[i].active <=> latest[i].kind \in Adding
    BY <1>1, <1>2 DEF LastEventObeyed
  <2>1. i \notin contested /\ handler[h].number # latest[i].number
    BY <1>1
  <2>2. ~Pending(i)
    BY <1>2, <2>1 DEF Pending
  <2> QED
    BY <1>1, <2>1, <2>2 DEF LastEventObeyed
<1> QED
  BY <1>4, <1>5, <1>6, <1>7, <1>8, <1>9, <1>10, <1>11 DEF IInv

-----------------------------------------------------------------------------
(* Theorems *)

LEMMA InitIInv == Init => IInv
<1> SUFFICES ASSUME Init PROVE IInv
  OBVIOUS
<1>1. /\ NoTxn.kind = "none" /\ NoTxn.number = 0 /\ NoTxn.todo = {} /\ NoTxn.repos = {}
      /\ NoTxn.inserts = {} /\ NoTxn.updates = {} /\ NoTxn.kind \notin Adding
      /\ NoTxn \in Transaction
  BY InstallationsBounds DEF NoTxn, Adding, Transaction
<1>2. /\ mail = {} /\ sent = 0 /\ indexing = {} /\ answered = {} /\ contested = {}
      /\ reused = {} /\ renamed = {} /\ \A i \in Ids : rows[i] = NoRow
      /\ \A h \in Handlers : handler[h] = NoTxn
      /\ \A i \in Ids : latest[i].kind = "none" /\ latest[i].number = 0
  BY DEF Init
<1>3. TypeOK
  <2>1. /\ github \in [Ids -> Names \cup {NoName}]
        /\ rows \in [Ids -> [name : Names, active : BOOLEAN] \cup {NoRow}]
    BY DEF Init
  <2>2. /\ handler \in [Handlers -> Transaction]
        /\ latest \in [Ids -> [kind : Kinds \cup {"none"}, number : 0 .. MaxEvents]]
    BY <1>1, InstallationsBounds DEF Init
  <2>3. installed \in BOOLEAN
    BY Zenon DEF Init
  <2>4. moves \in 0 .. MaxMoves /\ sent \in 0 .. MaxEvents
    BY InstallationsBounds DEF Init
  <2> QED
    BY <1>2, <2>1, <2>2, <2>3, <2>4 DEF TypeOK
<1>4. HandlerInv /\ AddedInv
  BY <1>1, <1>2 DEF HandlerInv, AddedInv, Begun, Touches
<1>5. NumberInv /\ AgreeInv
  BY <1>1, <1>2 DEF NumberInv, AgreeInv, IsLatest, Touches
<1>6. NameInv
  BY DEF Init, NameInv, Live
<1>7. AnsweredReposKnown /\ LastEventObeyed /\ AnsweredReposIndexed
  BY <1>2 DEF AnsweredReposKnown, LastEventObeyed, AnsweredReposIndexed, Known
<1> QED
  BY <1>3, <1>4, <1>5, <1>6, <1>7 DEF IInv

LEMMA NextIInv == IInv /\ [Next]_vars => IInv'
<1> SUFFICES ASSUME IInv, [Next]_vars PROVE IInv'
  OBVIOUS
<1>1. ASSUME NEW i \in Ids, DeleteRepository(i) \/ \E name \in Names : CreateRepository(i, name) \/ RenameRepository(i, name)
      PROVE  IInv'
  BY <1>1, DeleteStep, CreateStep, RenameStep
<1>2. ASSUME NEW ids \in SUBSET Ids, NEW kind \in Kinds, Send(kind, ids)
      PROVE  IInv'
  BY <1>2, SendStep
<1>3. ASSUME NEW h \in Handlers, \E e \in mail : Receive(h, e)
      PROVE  IInv'
  BY <1>3, ReceiveStep
<1>4. ASSUME NEW h \in Handlers, NEW r \in Repository, AddRepository(h, r) \/ RemoveRepository(h, r)
      PROVE  IInv'
  BY <1>4, AddStep, RemoveStep
<1>5. ASSUME NEW h \in Handlers, Commit(h) \/ CommitInDoubt(h) \/ RequestFails(h)
      PROVE  IInv'
  BY <1>5, CommitStep, RequestFailsStep
<1>6. CASE UNCHANGED vars
  <2>1. UNCHANGED <<github, moves, mail, sent, installed, rows, indexing, handler, answered, latest, contested, reused, renamed>>
    BY <1>6 DEF vars, githubVars, tableVars, history
  <2>2. TypeOK'
    BY <2>1 DEF IInv, TypeOK
  <2>3. NameInv'
    BY <2>1 DEF IInv, NameInv, Live, Known, Payloads
  <2> QED
    BY <2>1, <2>2, <2>3, MoveKeeps
<1> QED
  BY <1>1, <1>2, <1>3, <1>4, <1>5, <1>6 DEF Next

\* What each transaction has in hand is still true of the table when it commits, and
\* names that were kept and not reused name one repository everywhere.
THEOREM InstallationsInvariance == Spec => []IInv
BY InitIInv, NextIInv, PTL DEF Spec

\* Rows keep a name and a flag, whatever transactions overlap.
THEOREM InstallationsTypeCorrect == Spec => []TypeOK
<1>1. IInv => TypeOK
  BY DEF IInv
<1> QED
  BY <1>1, InstallationsInvariance, PTL

\* A repository of a created or added event that was answered with 200 has a row from
\* then on.
THEOREM AnsweredAreKnown == Spec => []AnsweredReposKnown
<1>1. IInv => AnsweredReposKnown
  BY DEF IInv
<1> QED
  BY <1>1, InstallationsInvariance, PTL

\* The review job's SELECT by full name finds that row and no other, for repositories
\* that kept a name of their own.
THEOREM ReviewsFindRepos == Spec => []ReviewsFindTheirRepo
<1>1. IInv => ReviewsFindTheirRepo
  <2> SUFFICES ASSUME IInv, NEW r \in answered, r.id \in Live \ renamed, github[r.id] \notin reused
               PROVE  Lookup(github[r.id]) = {r.id}
    BY DEF ReviewsFindTheirRepo
  <2> DEFINE i == r.id
  <2>1. Known(i) /\ i \in Ids
    BY DEF IInv, AnsweredReposKnown, Live
  <2>2. rows[i].name = github[i] /\ \A j \in Ids : rows[j].name = github[i] => j = i
    BY <2>1 DEF IInv, NameInv
  <2> QED
    BY <2>1, <2>2 DEF Lookup
<1> QED
  BY <1>1, InstallationsInvariance, PTL

\* Once the last event about a repository is handled, its row is as the event says:
\* unless it failed, met an opposite event or was overtaken by one.
THEOREM LastEventWins == Spec => []LastEventObeyed
<1>1. IInv => LastEventObeyed
  BY DEF IInv
<1> QED
  BY <1>1, InstallationsInvariance, PTL

\* An answer of 200 means that every repository of the event has an index task of that
\* very event, whichever publications failed before, and every row's name had one.
THEOREM AnsweredAreIndexed == Spec => []AnsweredReposIndexed
<1>1. IInv => AnsweredReposIndexed
  BY DEF IInv
<1> QED
  BY <1>1, InstallationsInvariance, PTL
===============================================================================
