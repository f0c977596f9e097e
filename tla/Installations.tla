---------------------------- MODULE Installations ----------------------------
(***************************************************************************)
(* The repos table and the webhook handlers that keep it                   *)
(* (backend/app/webhooks/github.py): installation.created and              *)
(* installation_repositories.added insert or activate repositories,        *)
(* installation_repositories.removed deactivates them.  A handler is one   *)
(* transaction: a SELECT per repository of the payload, an index task      *)
(* published per added repository, and a commit after the last of them.    *)
(* Whatever raises in between (the database, the broker) rolls it back,    *)
(* but not the tasks published so far.  Handlers of different requests     *)
(* interleave.                                                             *)
(*                                                                         *)
(* The review job finds a repository by owner and name (Lookup), the       *)
(* handlers find it by GitHub's id.  GitHub, where repositories are        *)
(* renamed, deleted and created again, is external.                        *)
(***************************************************************************)
EXTENDS Naturals, FiniteSets

CONSTANTS
  Ids,       \* GitHub's repository ids
  Names,     \* owner/name
  Handlers,  \* requests that are handled at the same time
  MaxEvents, \* bound: events that GitHub sends
  MaxMoves   \* bound: repositories created, renamed and deleted on GitHub

ASSUME InstallationsBounds == MaxEvents \in Nat /\ MaxMoves \in Nat

VARIABLES
  github,    \* github[i]: the name of a live repository, or NoName
  moves,     \* creations, renamings and deletions so far
  mail,      \* events that are not handled yet, with their number
  sent,      \* events sent so far
  installed, \* whether the installations row is there
  rows,      \* rows[i]: the committed repos row of id i
  handler,   \* handler[h]: the transaction of request h
  indexing,  \* index tasks published, with the event they were published for
  answered,  \* history: repositories of created and added events answered with 200
  latest,    \* history: latest[i]: the last event that GitHub sent about i
  contested, \* history: ids whose last event failed, or met an opposite one
  reused,    \* history: names that two repositories have had
  renamed    \* history: ids whose name has changed

githubVars == <<github, moves>>
tableVars  == <<installed, rows, indexing>>
history    == <<answered, latest, contested>>
vars == <<githubVars, mail, sent, tableVars, handler, history, reused, renamed>>

NoName == "none"
NoRow  == [name |-> NoName, active |-> FALSE]
NoTxn  == [kind |-> "none", number |-> 0, fresh |-> FALSE, todo |-> {}, repos |-> {},
           inserts |-> {}, updates |-> {}]

ASSUME NoNameAssumption == NoName \notin Names

Adding == {"created", "added"}
Kinds  == Adding \cup {"removed"}

Repository == [id : Ids, name : Names]

\* A repository of an event, as its index task names it.
Listed == [number : 1 .. MaxEvents, id : Ids, name : Names]

Event == [kind : Kinds, number : 1 .. MaxEvents, repos : SUBSET Repository]

Transaction ==
  [kind : Kinds \cup {"none"}, number : 0 .. MaxEvents, fresh : BOOLEAN,
   todo : SUBSET Repository, repos : SUBSET Repository,
   inserts : SUBSET Repository, updates : SUBSET Ids]

TypeOK ==
  /\ github \in [Ids -> Names \cup {NoName}]
  /\ moves \in 0 .. MaxMoves
  /\ mail \subseteq Event
  /\ sent \in 0 .. MaxEvents
  /\ installed \in BOOLEAN
  /\ rows \in [Ids -> [name : Names, active : BOOLEAN] \cup {NoRow}]
  /\ handler \in [Handlers -> Transaction]
  /\ indexing \subseteq Listed
  /\ answered \subseteq Listed
  /\ latest \in [Ids -> [kind : Kinds \cup {"none"}, number : 0 .. MaxEvents]]
  /\ contested \subseteq Ids
  /\ reused \subseteq Names
  /\ renamed \subseteq Ids

Init ==
  /\ github   = [i \in Ids |-> NoName]
  /\ moves    = 0
  /\ mail     = {}
  /\ sent     = 0
  /\ installed = FALSE
  /\ rows     = [i \in Ids |-> NoRow]
  /\ handler  = [h \in Handlers |-> NoTxn]
  /\ indexing = {}
  /\ answered = {}
  /\ latest   = [i \in Ids |-> [kind |-> "none", number |-> 0]]
  /\ contested = {}
  /\ reused   = {}
  /\ renamed  = {}

-----------------------------------------------------------------------------
(* GitHub                                                                  *)

Live == {i \in Ids : github[i] # NoName}
Free(name) == \A i \in Ids : github[i] # name
Known(i) == rows[i] # NoRow

\* A name is reused when a row, or an event under way, still has it for another id.
Spent(name, i) ==
  \/ \E j \in Ids \ {i} : rows[j].name = name
  \/ \E e \in mail : \E r \in e.repos : r.name = name /\ r.id # i
  \/ \E h \in Handlers : \E r \in handler[h].repos : r.name = name /\ r.id # i

Settle(i, name) ==
  /\ moves < MaxMoves
  /\ moves' = moves + 1
  /\ Free(name)
  /\ github' = [github EXCEPT ![i] = name]
  /\ reused' = IF Spent(name, i) THEN reused \cup {name} ELSE reused
  /\ UNCHANGED <<mail, sent, tableVars, handler, history>>

CreateRepository(i, name) ==
  /\ github[i] = NoName /\ ~Known(i)
  /\ \A e \in mail : \A r \in e.repos : r.id # i
  /\ \A h \in Handlers : \A r \in handler[h].repos : r.id # i
  /\ Settle(i, name)
  /\ UNCHANGED renamed

RenameRepository(i, name) ==
  /\ i \in Live
  /\ Settle(i, name)
  /\ renamed' = renamed \cup {i}

DeleteRepository(i) ==
  /\ i \in Live
  /\ moves < MaxMoves
  /\ moves' = moves + 1
  /\ github' = [github EXCEPT ![i] = NoName]
  /\ UNCHANGED <<mail, sent, tableVars, handler, history, reused, renamed>>

\* An installation or installation_repositories event, with the names of the moment.
Send(kind, ids) ==
  /\ sent < MaxEvents
  /\ ids # {} /\ ids \subseteq Live
  /\ sent' = sent + 1
  /\ mail' = mail \cup {[kind |-> kind, number |-> sent',
                         repos |-> {[id |-> i, name |-> github[i]] : i \in ids}]}
  /\ latest' = [i \in Ids |-> IF i \in ids THEN [kind |-> kind, number |-> sent'] ELSE latest[i]]
  /\ UNCHANGED <<githubVars, tableVars, handler, answered, contested, reused, renamed>>

-----------------------------------------------------------------------------
(* The handlers                                                            *)

Touches(t, i) == \E r \in t.repos : r.id = i
Opposite(j, k) == ~(j \in Adding <=> k \in Adding)

\* Whether the last event about i and another that says the opposite are handled at
\* once, or in the order against the one they were sent in.
Clashes(e, i) ==
  IF e.number = latest[i].number
  THEN \E g \in Handlers : Touches(handler[g], i) /\ Opposite(handler[g].kind, e.kind)
  ELSE i \in contested \/ Opposite(latest[i].kind, e.kind)

\* A request arrives, in whatever order GitHub's deliveries come; created looks for
\* the installation's row first.
Receive(h, e) ==
  /\ handler[h].kind = "none"
  /\ e \in mail
  /\ mail' = mail \ {e}
  /\ handler' = [handler EXCEPT ![h] = [NoTxn EXCEPT !.kind   = e.kind,
                                                      !.number = e.number,
                                                      !.fresh  = e.kind = "created" /\ ~installed,
                                                      !.todo   = e.repos,
                                                      !.repos  = e.repos]]
  /\ contested' = {i \in Ids : IF Touches(e, i) THEN Clashes(e, i) ELSE i \in contested}
  /\ UNCHANGED <<githubVars, sent, tableVars, answered, latest, reused, renamed>>

ListedBy(h, r) == [number |-> handler[h].number, id |-> r.id, name |-> r.name]

\* Mutant of AddRepository: a publication that is refused is ignored.
AddRepositoryAnyway(h, r) ==
  /\ handler[h].kind \in Adding
  /\ r \in handler[h].todo
  /\ handler' = [handler EXCEPT
       ![h].todo    = @ \ {r},
       ![h].inserts = IF Known(r.id) THEN @ ELSE @ \cup {r},
       ![h].updates = IF Known(r.id) /\ ~rows[r.id].active THEN @ \cup {r.id} ELSE @]
  /\ indexing' \in {indexing, indexing \cup {ListedBy(h, r)}}
  /\ UNCHANGED <<githubVars, mail, sent, installed, rows, history, reused, renamed>>

\* The SELECT of an added repository, and its index task.  A row keeps the name it
\* was inserted with.
AddRepository(h, r) ==
  /\ handler[h].kind \in Adding
  /\ r \in handler[h].todo
  /\ handler' = [handler EXCEPT
       ![h].todo    = @ \ {r},
       ![h].inserts = IF Known(r.id) THEN @ ELSE @ \cup {r},
       ![h].updates = IF Known(r.id) /\ ~rows[r.id].active THEN @ \cup {r.id} ELSE @]
  /\ indexing' = indexing \cup {ListedBy(h, r)}
  /\ UNCHANGED <<githubVars, mail, sent, installed, rows, history, reused, renamed>>

RemoveRepository(h, r) ==
  /\ handler[h].kind = "removed"
  /\ r \in handler[h].todo
  /\ handler' = [handler EXCEPT
       ![h].todo    = @ \ {r},
       ![h].updates = IF Known(r.id) /\ rows[r.id].active THEN @ \cup {r.id} ELSE @]
  /\ UNCHANGED <<githubVars, mail, sent, tableVars, history, reused, renamed>>

Done(h) == handler[h].kind # "none" /\ handler[h].todo = {}
Conflict(h) ==
  \/ handler[h].fresh /\ installed
  \/ \E r \in handler[h].inserts : Known(r.id)

\* Mutant of Written: the removal of a repository is not told from its addition.
WrittenActive(h) ==
  [i \in Ids |->
     IF i \in handler[h].updates THEN [rows[i] EXCEPT !.active = TRUE]
     ELSE IF \E r \in handler[h].inserts : r.id = i
          THEN [name |-> (CHOOSE r \in handler[h].inserts : r.id = i).name, active |-> TRUE]
          ELSE rows[i]]

\* Mutant of Written: the loop's last repository names all rows of the payload.
WrittenOneName(h) ==
  [i \in Ids |->
     IF i \in handler[h].updates
     THEN [rows[i] EXCEPT !.active = (handler[h].kind \in Adding)]
     ELSE IF \E r \in handler[h].inserts : r.id = i
          THEN [name |-> (CHOOSE r \in handler[h].inserts : TRUE).name, active |-> TRUE]
          ELSE rows[i]]

\* What a commit makes of the table.
Written(h) ==
  [i \in Ids |->
     IF i \in handler[h].updates
     THEN [rows[i] EXCEPT !.active = (handler[h].kind \in Adding)]
     ELSE IF \E r \in handler[h].inserts : r.id = i
          THEN [name |-> (CHOOSE r \in handler[h].inserts : r.id = i).name, active |-> TRUE]
          ELSE rows[i]]

Writes(h) ==
  /\ Done(h) /\ ~Conflict(h)
  /\ rows' = Written(h)
  /\ installed' = (installed \/ handler[h].kind = "created")

Ends(h) ==
  /\ handler' = [handler EXCEPT ![h] = NoTxn]
  /\ UNCHANGED <<githubVars, mail, sent, indexing, latest, reused, renamed>>

Answer200(h) ==
  /\ answered' = IF handler[h].kind \in Adding
                 THEN answered \cup {ListedBy(h, r) : r \in handler[h].repos} ELSE answered
  /\ UNCHANGED contested

\* The answer is 500, and GitHub does not repeat the delivery.
Answer500(h) ==
  /\ contested' = contested \cup {i \in Ids : handler[h].number = latest[i].number}
  /\ UNCHANGED answered

\* Mutant of Commit: a payload with a repository that is known by now writes nothing.
CommitAnyway(h) ==
  /\ Done(h)
  /\ rows' = IF Conflict(h) THEN rows ELSE Written(h)
  /\ installed' = (installed \/ handler[h].kind = "created")
  /\ Answer200(h)
  /\ Ends(h)

Commit(h) ==
  /\ Writes(h)
  /\ Answer200(h)
  /\ Ends(h)

\* The database commits, and the connection is lost before it has said so.
CommitInDoubt(h) ==
  /\ Writes(h)
  /\ Answer500(h)
  /\ Ends(h)

\* A SELECT, a publication or the commit raises, and everything is rolled back: always
\* so when the unique id of the installation, or of a repository of the payload, was
\* inserted meanwhile.
RequestFails(h) ==
  /\ handler[h].kind # "none"
  /\ Answer500(h)
  /\ Ends(h)
  /\ UNCHANGED <<installed, rows>>

Next ==
  \/ \E i \in Ids : DeleteRepository(i)
                    \/ \E name \in Names : CreateRepository(i, name) \/ RenameRepository(i, name)
  \/ \E ids \in SUBSET Ids, kind \in Kinds : Send(kind, ids)
  \/ \E h \in Handlers :
       \/ \E e \in mail : Receive(h, e)
       \/ \E r \in Repository : AddRepository(h, r) \/ RemoveRepository(h, r)
       \/ Commit(h) \/ CommitInDoubt(h) \/ RequestFails(h)

Spec == Init /\ [][Next]_vars

-----------------------------------------------------------------------------
(* Properties                                                              *)

\* What the review job selects for a full name; scalar_one_or_none raises when it
\* is more than one row.
Lookup(name) == {i \in Ids : rows[i].name = name}

\* A repository that GitHub was told about with a 200 has a row from then on,
\* although the commits of other requests come in between.
AnsweredReposKnown == \A r \in answered : Known(r.id)

\* The reviews of such a repository find exactly its row, unless it was renamed or
\* its name has belonged to another repository.
ReviewsFindTheirRepo ==
  \A r \in answered :
    LET i == r.id IN
    i \in Live \ renamed /\ github[i] \notin reused => Lookup(github[i]) = {i}

\* The last event that GitHub sent about i is not handled yet.
Pending(i) ==
  \/ \E e \in mail : e.number = latest[i].number
  \/ \E h \in Handlers : handler[h].number = latest[i].number

\* Once the last event that was sent about a repository is handled, its row is active
\* as that event says, whatever came before it and whatever of its own kind comes
\* late; unless it was answered with 500, overlapped an opposite one, or an opposite
\* one that was sent before it was handled after it.
LastEventObeyed ==
  \A i \in Ids \ contested :
    latest[i].kind # "none" /\ ~Pending(i) => (rows[i].active <=> latest[i].kind \in Adding)

\* An answer of 200 means that the request itself published an index task for each of
\* its repositories, whatever was refused on the way; and each row's own name had one,
\* also if the answer was lost.
AnsweredReposIndexed ==
  /\ answered \subseteq indexing
  /\ \A i \in Ids : Known(i) => \E r \in indexing : r.id = i /\ r.name = rows[i].name
=============================================================================
