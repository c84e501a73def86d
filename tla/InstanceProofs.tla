--------------------------- MODULE InstanceProofs ---------------------------
(***************************************************************************)
(* Proofs about Instance, for any number of sessions and any batches.  The  *)
(* invariant says what a session may rely on between two of its steps: the  *)
(* writer's lookup stays true until it stores, and a statement that nobody   *)
(* moved finds in catalog_ the table of its name.                           *)
(***************************************************************************)
EXTENDS Instance, TLAPS

Storing == {"store database", "store table"}
Places == {"idle", "open", "bind", "use", "name", "switch", "database", "table",
           "plan", "execute"} \cup Storing

SessionsTyped ==
    /\ pc \in [Sessions -> Places]
    /\ todo \in [Sessions -> Seq(Statements)]
    /\ asked \in [Sessions -> Nat]
    /\ table \in [Sessions -> Nat]
    /\ moved \in [Sessions -> BOOLEAN]
    /\ \A s \in Sessions : pc[s] \notin {"idle", "open", "bind"} => todo[s] # <<>>

CatalogsTyped ==
    /\ databases \in [DOMAIN databases -> Seq(STRING)]
    /\ DOMAIN databases \subseteq STRING

(* Every name a session or the instance holds is the name of a database *)
NamesKnown ==
    /\ current \in DOMAIN databases /\ catalog \in DOMAIN databases
    /\ binder \in [Sessions -> DOMAIN databases]
    /\ began \in [Sessions -> DOMAIN databases]
    /\ target \in [Sessions -> DOMAIN databases]
    /\ \A s \in Sessions : pc[s] \in {"name", "switch"} => Stmt(s).arg \in DOMAIN databases

(* catalog_lock_ has one owner *)
WriterAlone ==
    /\ writer \in Sessions \cup {NoOne}
    /\ \A s \in Sessions : pc[s] \in Storing <=> writer = s

(* What the owner looked up is still so when it stores *)
LookupHolds ==
    \A s \in Sessions :
       /\ pc[s] = "store database" => Stmt(s).arg \notin DOMAIN databases
       /\ pc[s] = "store table" => OidsNamed(target[s], Stmt(s).arg) = {}

(* What a statement on a table relies on: until it is planned, and after    *)
(* that if it is an INSERT, its oid is from the binder's catalog; a SELECT  *)
(* that nobody moved has got one from the catalog in use                    *)
Sound(s) ==
    /\ Stmt(s).op \in {"insert", "select"}
    /\ ~moved[s] => catalog = began[s]
    /\ (pc[s] = "plan" \/ Stmt(s).op = "insert") =>
          table[s] \in OidsNamed(binder[s], Stmt(s).arg)
    /\ (pc[s] = "execute" /\ Stmt(s).op = "select" /\ ~moved[s]) =>
          table[s] \in OidsNamed(began[s], Stmt(s).arg)

BoundHolds == \A s \in Sessions : pc[s] \in {"plan", "execute"} => Sound(s)

AccessesRight ==
    \A a \in accesses : ~a.moved =>
       /\ a.db = a.began /\ a.db \in DOMAIN databases
       /\ (a.op = "select" \/ a.bound = a.began) => a.oid \in OidsNamed(a.db, a.name)

(* A session at a step where a table it has the oid of may be missing *)
MayMiss(s) ==
    \/ pc[s] = "plan" /\ Stmt(s).op = "select" /\ catalog # binder[s]
    \/ pc[s] = "execute" /\ moved[s]
    \/ pc[s] = "execute" /\ Stmt(s).op = "insert" /\ catalog # binder[s]

FaultWitnessed == fault = "no table" => \E s \in Sessions : MayMiss(s)

CreationsKept ==
    /\ \A m \in made : m.db \in DOMAIN databases /\ (m.oid # 0 => m.oid \in OidsNamed(m.db, m.name))
    /\ \A m, n \in made :
          (m.db = n.db /\ m.name = n.name /\ (m.oid = 0 <=> n.oid = 0)) => m = n

(* As long as no two calls met, one call at most stands between its two     *)
(* assignments, and the first of them was its own                           *)
SwitchAlone ==
    /\ mixed \in BOOLEAN
    /\ ~mixed =>
         /\ \A s, x \in Sessions : pc[s] = "switch" /\ pc[x] = "switch" => s = x
         /\ \A s \in Sessions : pc[s] = "switch" => current = Stmt(s).arg
         /\ (\A s \in Sessions : pc[s] # "switch") => catalog = current

InstanceInv ==
    /\ SessionsTyped /\ CatalogsTyped /\ NamesKnown /\ WriterAlone /\ LookupHolds
    /\ BoundHolds /\ AccessesRight /\ FaultWitnessed /\ CreationsKept /\ SwitchAlone
-----------------------------------------------------------------------------
(* A session that is at a statement has it, and the rest of its batch *)
LEMMA StatementLeft ==
    ASSUME NEW s \in Sessions, SessionsTyped, todo[s] # <<>>
    PROVE  /\ Stmt(s) \in Statements /\ Stmt(s).arg \in STRING
           /\ Tail(todo[s]) \in Seq(Statements)
           /\ Id(s) \in Sessions \X Nat \X Nat
<1>1. todo[s] \in Seq(Statements) /\ asked[s] \in Nat
  BY DEF SessionsTyped
<1>2. Head(todo[s]) \in Statements /\ Tail(todo[s]) \in Seq(Statements) /\ Len(todo[s]) \in Nat
  BY <1>1
<1> QED BY <1>1, <1>2 DEF Stmt, Statements, Id

(* A step of s that changes the batches of nobody else, and after which s   *)
(* has a statement where it needs one, keeps the sessions' types            *)
LEMMA SessionMoves ==
    ASSUME NEW s \in Sessions, SessionsTyped,
           NEW place \in Places, pc' = [pc EXCEPT ![s] = place],
           NEW batch \in Seq(Statements), todo' = [todo EXCEPT ![s] = batch],
           place \notin {"idle", "open", "bind"} => batch # <<>>,
           asked' \in [Sessions -> Nat], table' \in [Sessions -> Nat],
           moved' \in [Sessions -> BOOLEAN]
    PROVE  SessionsTyped'
<1>1. pc' \in [Sessions -> Places] /\ todo' \in [Sessions -> Seq(Statements)]
  BY DEF SessionsTyped
<1>2. \A x \in Sessions : pc'[x] \notin {"idle", "open", "bind"} => todo'[x] # <<>>
  BY DEF SessionsTyped
<1> QED BY <1>1, <1>2 DEF SessionsTyped

(* What DatabaseStore does to the catalogs *)
LEMMA DatabaseAdded ==
    ASSUME NEW s \in Sessions, InstanceInv, DatabaseStore(s)
    PROVE  /\ Stmt(s).arg \in STRING \ DOMAIN databases
           /\ DOMAIN databases' = DOMAIN databases \cup {Stmt(s).arg}
           /\ databases'[Stmt(s).arg] = <<>>
           /\ \A d \in DOMAIN databases : databases'[d] = databases[d]
<1>1. todo[s] # <<>> /\ pc[s] = "store database"
  BY DEF InstanceInv, SessionsTyped, DatabaseStore, At
<1>2. Stmt(s).arg \in STRING /\ Stmt(s).arg \notin DOMAIN databases
  BY <1>1, StatementLeft DEF InstanceInv, LookupHolds
<1> QED BY <1>2 DEF DatabaseStore

(* What TableStore does to the catalogs: the new name is the last *)
LEMMA TableAdded ==
    ASSUME NEW s \in Sessions, InstanceInv, TableStore(s)
    PROVE  /\ Stmt(s).arg \in STRING /\ target[s] \in DOMAIN databases
           /\ DOMAIN databases' = DOMAIN databases
           /\ \A d \in DOMAIN databases \ {target[s]} : databases'[d] = databases[d]
           /\ databases[target[s]] \in Seq(STRING)
           /\ databases'[target[s]] \in Seq(STRING)
           /\ DOMAIN databases[target[s]] = 1..Len(databases[target[s]])
           /\ DOMAIN databases'[target[s]] = 1..(Len(databases[target[s]]) + 1)
           /\ Len(databases[target[s]]) \in Nat
           /\ \A i \in DOMAIN databases[target[s]] :
                  databases'[target[s]][i] = databases[target[s]][i]
           /\ databases'[target[s]][Len(databases[target[s]]) + 1] = Stmt(s).arg
           /\ OidsNamed(target[s], Stmt(s).arg) = {}
<1> DEFINE d == target[s] new == Append(databases[d], Stmt(s).arg)
<1>1. todo[s] # <<>> /\ pc[s] = "store table"
  BY DEF InstanceInv, SessionsTyped, TableStore, At
<1>2. Stmt(s).arg \in STRING
  BY <1>1, StatementLeft DEF InstanceInv
<1>3. d \in DOMAIN databases /\ databases[d] \in Seq(STRING)
  BY DEF InstanceInv, NamesKnown, CatalogsTyped
<1>4. databases' = [databases EXCEPT ![d] = new]
  BY DEF TableStore
<1>5. DOMAIN databases' = DOMAIN databases /\ databases'[d] = new
      /\ \A x \in DOMAIN databases \ {d} : databases'[x] = databases[x]
  BY <1>3, <1>4
<1>6. /\ new \in Seq(STRING) /\ Len(databases[d]) \in Nat
      /\ DOMAIN databases[d] = 1..Len(databases[d])
      /\ DOMAIN new = 1..(Len(databases[d]) + 1)
      /\ \A i \in 1..Len(databases[d]) : new[i] = databases[d][i]
      /\ new[Len(databases[d]) + 1] = Stmt(s).arg
  BY <1>2, <1>3
<1>7. OidsNamed(d, Stmt(s).arg) = {}
  BY <1>1 DEF InstanceInv, LookupHolds
<1> QED BY <1>2, <1>3, <1>5, <1>6, <1>7

(* A step keeps every database and every table's oid *)
Kept ==
    \A d \in DOMAIN databases :
       /\ d \in DOMAIN databases'
       /\ \A i \in DOMAIN databases[d] :
             i \in DOMAIN databases'[d] /\ databases'[d][i] = databases[d][i]

(* Either creation keeps what is there *)
LEMMA StoresKeep ==
    ASSUME NEW s \in Sessions, InstanceInv, DatabaseStore(s) \/ TableStore(s)
    PROVE  Kept
<1>1. CASE DatabaseStore(s)
  BY <1>1, DatabaseAdded DEF Kept
<1>2. CASE TableStore(s)
  BY <1>2, TableAdded DEF Kept
<1> QED BY <1>1, <1>2

(* A step that stores nothing leaves what a writer has looked up *)
LEMMA LookupKept ==
    ASSUME NEW s \in Sessions, LookupHolds, databases' = databases, pc'[s] \notin Storing,
           \A x \in Sessions \ {s} :
              pc'[x] = pc[x] /\ todo'[x] = todo[x] /\ target'[x] = target[x]
    PROVE  LookupHolds'
BY DEF LookupHolds, Storing, OidsNamed, Stmt

(* A step that leaves a session with no table statement in hand, and        *)
(* what the others hold as it is, keeps what those rely on                  *)
LEMMA BoundKept ==
    ASSUME NEW s \in Sessions, BoundHolds, pc'[s] \notin {"plan", "execute"},
           \A x \in Sessions \ {s} : pc'[x] = pc[x] /\ todo'[x] = todo[x],
           UNCHANGED <<databases, catalog, table, binder, began, moved>>
    PROVE  BoundHolds'
<1> SUFFICES ASSUME NEW x \in Sessions, pc'[x] \in {"plan", "execute"}
             PROVE  Sound(x)'
  BY DEF BoundHolds
<1>1. pc'[x] = pc[x] /\ todo'[x] = todo[x]
  OBVIOUS
<1>2. Sound(x)
  BY <1>1 DEF BoundHolds
<1> QED BY <1>1, <1>2 DEF Sound, OidsNamed, Stmt

(* A step of a session outside the assignments of UseDatabase *)
LEMMA SwitchKept ==
    ASSUME NEW s \in Sessions, SwitchAlone, pc[s] # "switch", pc'[s] # "switch",
           \A x \in Sessions \ {s} : pc'[x] = pc[x] /\ todo'[x] = todo[x],
           UNCHANGED <<current, catalog, mixed>>
    PROVE  SwitchAlone'
<1>1. \A x \in Sessions : pc'[x] = "switch" <=> pc[x] = "switch"
  OBVIOUS
<1>2. \A x \in Sessions : pc'[x] = "switch" => todo'[x] = todo[x]
  OBVIOUS
<1> QED BY <1>1, <1>2 DEF SwitchAlone, Stmt

(* A request that arrives keeps the invariant *)
LEMMA RequestInv ==
    ASSUME NEW s \in Sessions, InstanceInv, Request(s)
    PROVE  InstanceInv'
<1> USE InstanceAssumption DEF InstanceInv, At, Go, Stmt, shared, local, history, Places, Storing
<1>1. SessionsTyped'
  <2>1. PICK b \in Batches : todo' = [todo EXCEPT ![s] = b]
    BY DEF Request
  <2>2. asked' \in [Sessions -> Nat]
    <3>1. asked \in [Sessions -> Nat] /\ asked' = [asked EXCEPT ![s] = @ + 1]
      BY DEF Request, SessionsTyped
    <3> QED BY <3>1
  <2> QED BY <2>1, <2>2, SessionMoves DEF Request, SessionsTyped
<1>2. CatalogsTyped'
  BY DEF Request, CatalogsTyped, SessionsTyped
<1>3. NamesKnown'
  BY DEF Request, NamesKnown, SessionsTyped, CatalogsTyped
<1>4. WriterAlone'
  BY DEF Request, WriterAlone, SessionsTyped
<1>5. LookupHolds'
  <2>1. \A x \in Sessions \ {s} : pc'[x] = pc[x] /\ todo'[x] = todo[x] /\ target'[x] = target[x]
    BY DEF Request, SessionsTyped
  <2>2. pc'[s] \notin Storing /\ databases' = databases
    BY DEF Request, SessionsTyped
  <2> QED BY <2>1, <2>2, LookupKept
<1>6. BoundHolds'
  BY DEF Request, BoundHolds, Sound, SessionsTyped, CatalogsTyped, OidsNamed, NamesKnown
<1>7. AccessesRight'
  BY DEF Request, AccessesRight, SessionsTyped, CatalogsTyped, OidsNamed, NamesKnown, BoundHolds
<1>8. FaultWitnessed'
  BY DEF Request, FaultWitnessed, SessionsTyped, NamesKnown, BoundHolds
<1>9. CreationsKept'
  BY DEF Request, CreationsKept, SessionsTyped, CatalogsTyped, OidsNamed
<1>10. SwitchAlone'
  BY DEF Request, SwitchAlone, SessionsTyped, NamesKnown
<1> QED BY <1>1, <1>2, <1>3, <1>4, <1>5, <1>6, <1>7, <1>8, <1>9, <1>10

(* Making the binder starts a batch *)
LEMMA OpenBinderInv ==
    ASSUME NEW s \in Sessions, InstanceInv, OpenBinder(s)
    PROVE  InstanceInv'
<1> USE InstanceAssumption DEF InstanceInv, At, Go, Stmt, shared, local, history, Places, Storing
<1>1. SessionsTyped'
  BY DEF OpenBinder, SessionsTyped
<1>2. CatalogsTyped'
  BY DEF OpenBinder, CatalogsTyped, SessionsTyped
<1>3. NamesKnown'
  BY DEF OpenBinder, NamesKnown, SessionsTyped, CatalogsTyped
<1>4. WriterAlone'
  BY DEF OpenBinder, WriterAlone, SessionsTyped
<1>5. LookupHolds'
  BY DEF OpenBinder, LookupHolds, SessionsTyped, CatalogsTyped, OidsNamed, WriterAlone
<1>6. BoundHolds'
  BY DEF OpenBinder, BoundHolds, Sound, SessionsTyped, CatalogsTyped, OidsNamed, NamesKnown
<1>7. AccessesRight'
  BY DEF OpenBinder, AccessesRight, SessionsTyped, CatalogsTyped, OidsNamed, NamesKnown,
     BoundHolds
<1>8. FaultWitnessed'
  BY DEF OpenBinder, FaultWitnessed, SessionsTyped, NamesKnown, BoundHolds
<1>9. CreationsKept'
  BY DEF OpenBinder, CreationsKept, SessionsTyped, CatalogsTyped, OidsNamed
<1>10. SwitchAlone'
  BY DEF OpenBinder, SwitchAlone, SessionsTyped, NamesKnown
<1> QED BY <1>1, <1>2, <1>3, <1>4, <1>5, <1>6, <1>7, <1>8, <1>9, <1>10

(* Binding a table finds it in the binder's catalog *)
LEMMA BindTableInv ==
    ASSUME NEW s \in Sessions, InstanceInv, BindTable(s)
    PROVE  InstanceInv'
<1> USE InstanceAssumption DEF InstanceInv, At, Go, Stmt, shared, local, history, Places, Storing
<1>a. todo[s] # <<>> /\ Stmt(s) \in Statements /\ Tail(todo[s]) \in Seq(Statements)
  BY StatementLeft DEF BindTable
<1>1. SessionsTyped'
  <2>1. OidsNamed(binder[s], Stmt(s).arg) \subseteq Nat
    BY DEF OidsNamed, CatalogsTyped, NamesKnown
  <2>2. CASE OidsNamed(binder[s], Stmt(s).arg) = {}
    <3>1. pc' = [pc EXCEPT ![s] = "bind"] /\ todo' = [todo EXCEPT ![s] = Tail(todo[s])]
      BY <2>2 DEF BindTable, Done
    <3> QED BY <1>a, <2>2, <3>1, SessionMoves DEF BindTable, SessionsTyped
  <2>3. CASE OidsNamed(binder[s], Stmt(s).arg) # {}
    <3>1. pc' = [pc EXCEPT ![s] = "plan"] /\ todo' = [todo EXCEPT ![s] = todo[s]]
      BY <2>3 DEF BindTable, SessionsTyped
    <3>2. (CHOOSE i \in OidsNamed(binder[s], Stmt(s).arg) : TRUE) \in Nat
      BY <2>1, <2>3
    <3>3. table' \in [Sessions -> Nat]
      BY <2>3, <3>2 DEF BindTable, SessionsTyped
    <3> QED BY <1>a, <3>1, <3>3, SessionMoves DEF BindTable, SessionsTyped
  <2> QED BY <2>2, <2>3
<1>2. CatalogsTyped'
  BY DEF BindTable, CatalogsTyped, Done, OidsNamed, SessionsTyped
<1>3. NamesKnown'
  BY DEF BindTable, NamesKnown, Done, OidsNamed, SessionsTyped, CatalogsTyped
<1>4. WriterAlone'
  BY DEF BindTable, WriterAlone, Done, OidsNamed, SessionsTyped
<1>5. LookupHolds'
  <2>1. \A x \in Sessions \ {s} : pc'[x] = pc[x] /\ todo'[x] = todo[x] /\ target'[x] = target[x]
    BY DEF BindTable, Done, SessionsTyped
  <2>2. pc'[s] \notin Storing /\ databases' = databases
    BY DEF BindTable, Done, SessionsTyped
  <2> QED BY <2>1, <2>2, LookupKept
<1>6. BoundHolds'
  <2> DEFINE found == OidsNamed(binder[s], Stmt(s).arg)
  <2>1. \A x \in Sessions \ {s} : pc'[x] = pc[x] /\ table'[x] = table[x] /\ todo'[x] = todo[x]
    BY DEF BindTable, Done, SessionsTyped
  <2>2. pc'[s] = "plan" => table'[s] \in found /\ todo' = todo
    BY DEF BindTable, Done, SessionsTyped
  <2>3. pc'[s] # "execute"
    BY DEF BindTable, Done, SessionsTyped
  <2>4. UNCHANGED <<databases, catalog, binder>>
    BY DEF BindTable
  <2>5. \A x \in Sessions \ {s} : began'[x] = began[x] /\ moved'[x] = moved[x]
    BY DEF BindTable, NamesKnown, SessionsTyped
  <2>6. began'[s] = catalog /\ Stmt(s).op \in {"insert", "select"}
    BY DEF BindTable, NamesKnown
  <2>7. ASSUME NEW x \in Sessions \ {s}, pc'[x] \in {"plan", "execute"}
        PROVE  Sound(x)'
    <3>1. Sound(x)
      BY <2>1, <2>7 DEF BoundHolds
    <3> QED BY <2>1, <2>4, <2>5, <3>1 DEF Sound, OidsNamed
  <2>8. ASSUME pc'[s] = "plan" PROVE Sound(s)'
    BY <2>2, <2>4, <2>6, <2>8 DEF Sound, OidsNamed
  <2> QED BY <2>3, <2>7, <2>8 DEF BoundHolds
<1>7. AccessesRight'
  BY DEF BindTable, AccessesRight, Done, OidsNamed, SessionsTyped, CatalogsTyped, NamesKnown,
     BoundHolds
<1>8. FaultWitnessed'
  BY DEF BindTable, FaultWitnessed, Done, OidsNamed, SessionsTyped, NamesKnown, BoundHolds
<1>9. CreationsKept'
  BY DEF BindTable, CreationsKept, Done, OidsNamed, SessionsTyped, CatalogsTyped
<1>10. SwitchAlone'
  <2>1. \A x \in Sessions \ {s} : pc'[x] = pc[x] /\ todo'[x] = todo[x]
    BY DEF BindTable, Done, SessionsTyped
  <2>2. pc[s] # "switch" /\ pc'[s] # "switch" /\ UNCHANGED <<current, catalog, mixed>>
    BY DEF BindTable, Done, SessionsTyped
  <2> QED BY <2>1, <2>2 DEF SwitchAlone
<1> QED BY <1>1, <1>2, <1>3, <1>4, <1>5, <1>6, <1>7, <1>8, <1>9, <1>10

(* Binding another statement only moves the session *)
LEMMA BindOtherInv ==
    ASSUME NEW s \in Sessions, InstanceInv, BindOther(s)
    PROVE  InstanceInv'
<1> USE InstanceAssumption DEF InstanceInv, At, Go, Stmt, shared, local, history, Places, Storing
<1>1. SessionsTyped'
  BY DEF BindOther, SessionsTyped
<1>2. CatalogsTyped'
  BY DEF BindOther, CatalogsTyped, SessionsTyped
<1>3. NamesKnown'
  BY DEF BindOther, NamesKnown, SessionsTyped, CatalogsTyped
<1>4. WriterAlone'
  BY DEF BindOther, WriterAlone, SessionsTyped
<1>5. LookupHolds'
  BY DEF BindOther, LookupHolds, SessionsTyped, CatalogsTyped, OidsNamed, WriterAlone
<1>6. BoundHolds'
  BY DEF BindOther, BoundHolds, Sound, SessionsTyped, CatalogsTyped, OidsNamed, NamesKnown
<1>7. AccessesRight'
  BY DEF BindOther, AccessesRight, SessionsTyped, CatalogsTyped, OidsNamed, NamesKnown, BoundHolds
<1>8. FaultWitnessed'
  BY DEF BindOther, FaultWitnessed, SessionsTyped, NamesKnown, BoundHolds
<1>9. CreationsKept'
  BY DEF BindOther, CreationsKept, SessionsTyped, CatalogsTyped, OidsNamed
<1>10. SwitchAlone'
  BY DEF BindOther, SwitchAlone, SessionsTyped, NamesKnown
<1> QED BY <1>1, <1>2, <1>3, <1>4, <1>5, <1>6, <1>7, <1>8, <1>9, <1>10

(* The answer to a batch only moves the session *)
LEMMA AnswerInv ==
    ASSUME NEW s \in Sessions, InstanceInv, Answer(s)
    PROVE  InstanceInv'
<1> USE InstanceAssumption DEF InstanceInv, At, Go, Stmt, shared, local, history, Places, Storing
<1>1. SessionsTyped'
  BY DEF Answer, SessionsTyped
<1>2. CatalogsTyped'
  BY DEF Answer, CatalogsTyped, SessionsTyped
<1>3. NamesKnown'
  BY DEF Answer, NamesKnown, SessionsTyped, CatalogsTyped
<1>4. WriterAlone'
  BY DEF Answer, WriterAlone, SessionsTyped
<1>5. LookupHolds'
  BY DEF Answer, LookupHolds, SessionsTyped, CatalogsTyped, OidsNamed, WriterAlone
<1>6. BoundHolds'
  BY DEF Answer, BoundHolds, Sound, SessionsTyped, CatalogsTyped, OidsNamed, NamesKnown
<1>7. AccessesRight'
  BY DEF Answer, AccessesRight, SessionsTyped, CatalogsTyped, OidsNamed, NamesKnown, BoundHolds
<1>8. FaultWitnessed'
  BY DEF Answer, FaultWitnessed, SessionsTyped, NamesKnown, BoundHolds
<1>9. CreationsKept'
  BY DEF Answer, CreationsKept, SessionsTyped, CatalogsTyped, OidsNamed
<1>10. SwitchAlone'
  BY DEF Answer, SwitchAlone, SessionsTyped, NamesKnown
<1> QED BY <1>1, <1>2, <1>3, <1>4, <1>5, <1>6, <1>7, <1>8, <1>9, <1>10

(* UseDatabase's lookup lets only known names through *)
LEMMA UseFindInv ==
    ASSUME NEW s \in Sessions, InstanceInv, UseFind(s)
    PROVE  InstanceInv'
<1> USE InstanceAssumption DEF InstanceInv, At, Go, Stmt, shared, local, history, Places, Storing
<1>a. todo[s] # <<>> /\ Stmt(s) \in Statements /\ Stmt(s).arg \in STRING
      /\ Tail(todo[s]) \in Seq(Statements) /\ Id(s) \in Sessions \X Nat \X Nat
  <2>1. todo[s] # <<>>
    BY DEF UseFind, SessionsTyped
  <2> QED BY <2>1, StatementLeft
<1>1. SessionsTyped'
  <2>1. CASE Stmt(s).arg \notin DOMAIN databases
    <3>1. pc' = [pc EXCEPT ![s] = "bind"] /\ todo' = [todo EXCEPT ![s] = Tail(todo[s])]
      BY <2>1 DEF UseFind, Done
    <3> QED BY <1>a, <3>1, SessionMoves DEF UseFind, SessionsTyped
  <2>2. CASE ~(Stmt(s).arg \notin DOMAIN databases)
    <3>1. pc' = [pc EXCEPT ![s] = "name"] /\ todo' = [todo EXCEPT ![s] = todo[s]]
      BY <2>2 DEF UseFind, SessionsTyped
    <3> QED BY <1>a, <3>1, SessionMoves DEF UseFind, SessionsTyped
  <2> QED BY <2>1, <2>2
<1>2. CatalogsTyped'
  BY DEF UseFind, CatalogsTyped, Done, SessionsTyped
<1>3. NamesKnown'
  BY DEF UseFind, NamesKnown, Done, SessionsTyped, CatalogsTyped
<1>4. WriterAlone'
  BY DEF UseFind, WriterAlone, Done, SessionsTyped
<1>5. LookupHolds'
  <2>1. \A x \in Sessions \ {s} : pc'[x] = pc[x] /\ todo'[x] = todo[x] /\ target'[x] = target[x]
    BY DEF UseFind, Done, SessionsTyped
  <2>2. pc'[s] \notin Storing /\ databases' = databases
    BY DEF UseFind, Done, SessionsTyped
  <2> QED BY <2>1, <2>2, LookupKept
<1>o. \A x \in Sessions \ {s} : pc'[x] = pc[x] /\ todo'[x] = todo[x]
  BY DEF UseFind, Done, SessionsTyped, NamesKnown
<1>6. BoundHolds'
  <2>1. pc'[s] \notin {"plan", "execute"}
    BY DEF UseFind, Done, SessionsTyped
  <2>2. UNCHANGED <<databases, catalog, table, binder, began, moved>>
    BY DEF UseFind
  <2> QED BY <1>o, <2>1, <2>2, BoundKept
<1>7. AccessesRight'
  BY DEF UseFind, AccessesRight, Done, SessionsTyped, CatalogsTyped, OidsNamed, NamesKnown,
     BoundHolds
<1>8. FaultWitnessed'
  BY DEF UseFind, FaultWitnessed, Done, SessionsTyped, NamesKnown, BoundHolds
<1>9. CreationsKept'
  BY DEF UseFind, CreationsKept, Done, SessionsTyped, CatalogsTyped, OidsNamed
<1>10. SwitchAlone'
  <2>1. pc[s] # "switch" /\ pc'[s] # "switch"
    BY DEF UseFind, Done, SessionsTyped
  <2>2. UNCHANGED <<current, catalog, mixed>>
    BY DEF UseFind
  <2> QED BY <1>o, <2>1, <2>2, SwitchKept
<1> QED BY <1>1, <1>2, <1>3, <1>4, <1>5, <1>6, <1>7, <1>8, <1>9, <1>10

(* The first assignment of UseDatabase: alone between the two, or mixed *)
LEMMA UseNameInv ==
    ASSUME NEW s \in Sessions, InstanceInv, UseName(s)
    PROVE  InstanceInv'
<1> USE InstanceAssumption DEF InstanceInv, At, Go, Stmt, shared, local, history, Places, Storing
<1>1. SessionsTyped'
  BY DEF UseName, SessionsTyped
<1>2. CatalogsTyped'
  BY DEF UseName, CatalogsTyped, SessionsTyped
<1>3. NamesKnown'
  BY DEF UseName, NamesKnown, SessionsTyped, CatalogsTyped
<1>4. WriterAlone'
  BY DEF UseName, WriterAlone, SessionsTyped
<1>5. LookupHolds'
  BY DEF UseName, LookupHolds, SessionsTyped, CatalogsTyped, OidsNamed, WriterAlone
<1>6. BoundHolds'
  BY DEF UseName, BoundHolds, Sound, SessionsTyped, CatalogsTyped, OidsNamed, NamesKnown
<1>7. AccessesRight'
  BY DEF UseName, AccessesRight, SessionsTyped, CatalogsTyped, OidsNamed, NamesKnown, BoundHolds
<1>8. FaultWitnessed'
  BY DEF UseName, FaultWitnessed, SessionsTyped, NamesKnown, BoundHolds
<1>9. CreationsKept'
  BY DEF UseName, CreationsKept, SessionsTyped, CatalogsTyped, OidsNamed
<1>10. SwitchAlone'
  BY DEF UseName, SwitchAlone, SessionsTyped, NamesKnown
<1> QED BY <1>1, <1>2, <1>3, <1>4, <1>5, <1>6, <1>7, <1>8, <1>9, <1>10

(* The second assignment of UseDatabase moves whoever was bound elsewhere *)
LEMMA UseCatalogInv ==
    ASSUME NEW s \in Sessions, InstanceInv, UseCatalog(s)
    PROVE  InstanceInv'
<1> USE InstanceAssumption DEF InstanceInv, At, Go, Stmt, shared, local, history, Places, Storing
<1>a. todo[s] # <<>> /\ Stmt(s) \in Statements /\ Stmt(s).arg \in STRING
      /\ Tail(todo[s]) \in Seq(Statements) /\ Id(s) \in Sessions \X Nat \X Nat
  <2>1. todo[s] # <<>>
    BY DEF UseCatalog, SessionsTyped
  <2> QED BY <2>1, StatementLeft
<1>1. SessionsTyped'
  <2>1. pc' = [pc EXCEPT ![s] = "bind"] /\ todo' = [todo EXCEPT ![s] = Tail(todo[s])]
    BY DEF UseCatalog, Done
  <2> QED BY <1>a, <2>1, SessionMoves DEF UseCatalog, SessionsTyped
<1>2. CatalogsTyped'
  BY DEF UseCatalog, CatalogsTyped, Done, SessionsTyped
<1>3. NamesKnown'
  BY DEF UseCatalog, NamesKnown, Done, SessionsTyped, CatalogsTyped
<1>4. WriterAlone'
  BY DEF UseCatalog, WriterAlone, Done, SessionsTyped
<1>5. LookupHolds'
  BY DEF UseCatalog, LookupHolds, Done, SessionsTyped, CatalogsTyped, OidsNamed, WriterAlone
<1>6. BoundHolds'
  BY DEF UseCatalog, BoundHolds, Sound, Done, SessionsTyped, CatalogsTyped, OidsNamed, NamesKnown
<1>7. AccessesRight'
  BY DEF UseCatalog, AccessesRight, Done, SessionsTyped, CatalogsTyped, OidsNamed, NamesKnown,
     BoundHolds
<1>8. FaultWitnessed'
  BY DEF UseCatalog, FaultWitnessed, Done, SessionsTyped, NamesKnown, BoundHolds
<1>9. CreationsKept'
  BY DEF UseCatalog, CreationsKept, Done, SessionsTyped, CatalogsTyped, OidsNamed
<1>10. SwitchAlone'
  BY DEF UseCatalog, SwitchAlone, Done, SessionsTyped, NamesKnown
<1> QED BY <1>1, <1>2, <1>3, <1>4, <1>5, <1>6, <1>7, <1>8, <1>9, <1>10

(* CreateDatabase looks the name up as the only writer *)
LEMMA DatabaseLockInv ==
    ASSUME NEW s \in Sessions, InstanceInv, DatabaseLock(s)
    PROVE  InstanceInv'
<1> USE InstanceAssumption DEF InstanceInv, At, Go, Stmt, shared, local, history, Places, Storing
<1>a. todo[s] # <<>> /\ Stmt(s) \in Statements /\ Stmt(s).arg \in STRING
      /\ Tail(todo[s]) \in Seq(Statements) /\ Id(s) \in Sessions \X Nat \X Nat
  <2>1. todo[s] # <<>>
    BY DEF DatabaseLock, SessionsTyped
  <2> QED BY <2>1, StatementLeft
<1>1. SessionsTyped'
  <2>1. CASE Stmt(s).arg \in DOMAIN databases
    <3>1. pc' = [pc EXCEPT ![s] = "bind"] /\ todo' = [todo EXCEPT ![s] = Tail(todo[s])]
      BY <2>1 DEF DatabaseLock, Done
    <3> QED BY <1>a, <3>1, SessionMoves DEF DatabaseLock, SessionsTyped
  <2>2. CASE ~(Stmt(s).arg \in DOMAIN databases)
    <3>1. pc' = [pc EXCEPT ![s] = "store database"] /\ todo' = [todo EXCEPT ![s] = todo[s]]
      BY <2>2 DEF DatabaseLock, SessionsTyped
    <3> QED BY <1>a, <3>1, SessionMoves DEF DatabaseLock, SessionsTyped
  <2> QED BY <2>1, <2>2
<1>2. CatalogsTyped'
  BY DEF DatabaseLock, CatalogsTyped, Done, SessionsTyped
<1>3. NamesKnown'
  BY DEF DatabaseLock, NamesKnown, Done, SessionsTyped, CatalogsTyped
<1>4. WriterAlone'
  <2>1. \A x \in Sessions : pc[x] \notin Storing
    BY DEF DatabaseLock, WriterAlone
  <2>2. CASE Stmt(s).arg \in DOMAIN databases
    <3>1. writer' = NoOne /\ pc' = [pc EXCEPT ![s] = "bind"]
      BY <2>2 DEF DatabaseLock, Done
    <3> QED BY <2>1, <3>1 DEF WriterAlone, SessionsTyped
  <2>3. CASE ~(Stmt(s).arg \in DOMAIN databases)
    <3>1. writer' = s /\ pc' = [pc EXCEPT ![s] = "store database"]
      BY <2>3 DEF DatabaseLock
    <3> QED BY <2>1, <3>1 DEF WriterAlone, SessionsTyped
  <2> QED BY <2>2, <2>3
<1>5. LookupHolds'
  BY DEF DatabaseLock, LookupHolds, Done, SessionsTyped, CatalogsTyped, OidsNamed, WriterAlone
<1>o. \A x \in Sessions \ {s} : pc'[x] = pc[x] /\ todo'[x] = todo[x]
  BY DEF DatabaseLock, Done, SessionsTyped, NamesKnown
<1>6. BoundHolds'
  <2>1. pc'[s] \notin {"plan", "execute"}
    BY DEF DatabaseLock, Done, SessionsTyped
  <2>2. UNCHANGED <<databases, catalog, table, binder, began, moved>>
    BY DEF DatabaseLock
  <2> QED BY <1>o, <2>1, <2>2, BoundKept
<1>7. AccessesRight'
  BY DEF DatabaseLock, AccessesRight, Done, SessionsTyped, CatalogsTyped, OidsNamed, NamesKnown,
     BoundHolds
<1>8. FaultWitnessed'
  BY DEF DatabaseLock, FaultWitnessed, Done, SessionsTyped, NamesKnown, BoundHolds
<1>9. CreationsKept'
  BY DEF DatabaseLock, CreationsKept, Done, SessionsTyped, CatalogsTyped, OidsNamed
<1>10. SwitchAlone'
  <2>1. pc[s] # "switch" /\ pc'[s] # "switch"
    BY DEF DatabaseLock, Done, SessionsTyped
  <2>2. UNCHANGED <<current, catalog, mixed>>
    BY DEF DatabaseLock
  <2> QED BY <1>o, <2>1, <2>2, SwitchKept
<1> QED BY <1>1, <1>2, <1>3, <1>4, <1>5, <1>6, <1>7, <1>8, <1>9, <1>10

(* CreateDatabase stores a name that is still not there *)
LEMMA DatabaseStoreInv ==
    ASSUME NEW s \in Sessions, InstanceInv, DatabaseStore(s)
    PROVE  InstanceInv'
<1> USE InstanceAssumption DEF InstanceInv, At, Go, Stmt, shared, local, history, Places, Storing
<1>a. todo[s] # <<>> /\ Stmt(s) \in Statements /\ Stmt(s).arg \in STRING
      /\ Tail(todo[s]) \in Seq(Statements) /\ Id(s) \in Sessions \X Nat \X Nat
  <2>1. todo[s] # <<>>
    BY DEF DatabaseStore, SessionsTyped
  <2> QED BY <2>1, StatementLeft
<1>1. SessionsTyped'
  <2>1. pc' = [pc EXCEPT ![s] = "bind"] /\ todo' = [todo EXCEPT ![s] = Tail(todo[s])]
    BY DEF DatabaseStore, Done
  <2> QED BY <1>a, <2>1, SessionMoves DEF DatabaseStore, SessionsTyped
<1>2. CatalogsTyped'
  <2>1. <<>> \in Seq(STRING)
    OBVIOUS
  <2>2. \A d \in DOMAIN databases' : databases'[d] \in Seq(STRING) /\ d \in STRING
    BY <2>1, DatabaseAdded DEF CatalogsTyped
  <2>3. databases' = [d \in DOMAIN databases' |-> databases'[d]]
    BY DatabaseAdded DEF DatabaseStore
  <2> QED BY <2>2, <2>3 DEF CatalogsTyped
<1>3. NamesKnown'
  BY DEF DatabaseStore, NamesKnown, Done, SessionsTyped, CatalogsTyped
<1>4. WriterAlone'
  BY DEF DatabaseStore, WriterAlone, Done, SessionsTyped
<1>5. LookupHolds'
  BY DEF DatabaseStore, LookupHolds, Done, SessionsTyped, CatalogsTyped, OidsNamed, WriterAlone
<1>6. BoundHolds'
  <2>1. ASSUME NEW x \in Sessions, pc'[x] \in {"plan", "execute"}
        PROVE  Sound(x)'
    <3>1. x # s /\ pc[x] = pc'[x] /\ todo'[x] = todo[x]
          /\ UNCHANGED <<table, binder, began, moved, catalog>>
      BY <2>1 DEF DatabaseStore, Done, SessionsTyped
    <3>2. Sound(x) /\ binder[x] \in DOMAIN databases /\ began[x] \in DOMAIN databases
      BY <2>1, <3>1 DEF BoundHolds, NamesKnown
    <3>3. \A d \in DOMAIN databases : \A n : OidsNamed(d, n) \subseteq OidsNamed(d, n)'
      BY StoresKeep DEF OidsNamed, Kept
    <3> QED BY <3>1, <3>2, <3>3 DEF Sound
  <2> QED BY <2>1 DEF BoundHolds
<1>7. AccessesRight'
  <2>1. accesses' = accesses
    BY DEF DatabaseStore
  <2>2. Kept
    BY StoresKeep
  <2> QED BY <2>1, <2>2 DEF AccessesRight, OidsNamed, Kept
<1>8. FaultWitnessed'
  BY DEF DatabaseStore, FaultWitnessed, Done, SessionsTyped, NamesKnown, BoundHolds
<1>9. CreationsKept'
  <2>0. PICK new : new = [id |-> Id(s), db |-> Stmt(s).arg, oid |-> 0, name |-> ""]
    OBVIOUS
  <2>1. made' = made \cup {new}
    BY <2>0 DEF DatabaseStore
  <2>2. \A m \in made : m.db # new.db
    BY <2>0, DatabaseAdded DEF CreationsKept
  <2>3. \A m \in made : m.db \in DOMAIN databases' /\ (m.oid # 0 => m.oid \in OidsNamed(m.db, m.name)')
    BY StoresKeep DEF CreationsKept, OidsNamed, Kept
  <2>4. new.db \in DOMAIN databases' /\ new.oid = 0
    BY <2>0, DatabaseAdded
  <2>5. \A m, n \in made' :
          (m.db = n.db /\ m.name = n.name /\ (m.oid = 0 <=> n.oid = 0)) => m = n
    BY <2>1, <2>2 DEF CreationsKept
  <2> QED BY <2>1, <2>3, <2>4, <2>5 DEF CreationsKept
<1>10. SwitchAlone'
  BY DEF DatabaseStore, SwitchAlone, Done, SessionsTyped, NamesKnown
<1> QED BY <1>1, <1>2, <1>3, <1>4, <1>5, <1>6, <1>7, <1>8, <1>9, <1>10

(* CreateTable looks the name up as the only writer *)
LEMMA TableLockInv ==
    ASSUME NEW s \in Sessions, InstanceInv, TableLock(s)
    PROVE  InstanceInv'
<1> USE InstanceAssumption DEF InstanceInv, At, Go, Stmt, shared, local, history, Places, Storing
<1>a. todo[s] # <<>> /\ Stmt(s) \in Statements /\ Stmt(s).arg \in STRING
      /\ Tail(todo[s]) \in Seq(Statements) /\ Id(s) \in Sessions \X Nat \X Nat
  <2>1. todo[s] # <<>>
    BY DEF TableLock, SessionsTyped
  <2> QED BY <2>1, StatementLeft
<1>1. SessionsTyped'
  <2>1. CASE OidsNamed(catalog, Stmt(s).arg) # {}
    <3>1. pc' = [pc EXCEPT ![s] = "bind"] /\ todo' = [todo EXCEPT ![s] = Tail(todo[s])]
      BY <2>1 DEF TableLock, Done
    <3> QED BY <1>a, <3>1, SessionMoves DEF TableLock, SessionsTyped
  <2>2. CASE ~(OidsNamed(catalog, Stmt(s).arg) # {})
    <3>1. pc' = [pc EXCEPT ![s] = "store table"] /\ todo' = [todo EXCEPT ![s] = todo[s]]
      BY <2>2 DEF TableLock, SessionsTyped
    <3> QED BY <1>a, <3>1, SessionMoves DEF TableLock, SessionsTyped
  <2> QED BY <2>1, <2>2
<1>2. CatalogsTyped'
  BY DEF TableLock, CatalogsTyped, Done, SessionsTyped
<1>3. NamesKnown'
  BY DEF TableLock, NamesKnown, Done, SessionsTyped, CatalogsTyped
<1>4. WriterAlone'
  <2>1. \A x \in Sessions : pc[x] \notin Storing
    BY DEF TableLock, WriterAlone
  <2>2. CASE OidsNamed(catalog, Stmt(s).arg) # {}
    <3>1. writer' = NoOne /\ pc' = [pc EXCEPT ![s] = "bind"]
      BY <2>2 DEF TableLock, Done
    <3> QED BY <2>1, <3>1 DEF WriterAlone, SessionsTyped
  <2>3. CASE ~(OidsNamed(catalog, Stmt(s).arg) # {})
    <3>1. writer' = s /\ pc' = [pc EXCEPT ![s] = "store table"]
      BY <2>3 DEF TableLock
    <3> QED BY <2>1, <3>1 DEF WriterAlone, SessionsTyped
  <2> QED BY <2>2, <2>3
<1>5. LookupHolds'
  <2>1. \A x \in Sessions : pc[x] \notin Storing
    BY DEF TableLock, WriterAlone
  <2>2. \A x \in Sessions \ {s} : pc'[x] = pc[x] /\ todo'[x] = todo[x] /\ target'[x] = target[x]
    BY DEF TableLock, Done, SessionsTyped, NamesKnown
  <2>3. CASE OidsNamed(catalog, Stmt(s).arg) # {}
    <3>1. pc'[s] \notin Storing /\ databases' = databases
      BY <2>3 DEF TableLock, Done, SessionsTyped
    <3> QED BY <2>2, <3>1, LookupKept
  <2>4. CASE OidsNamed(catalog, Stmt(s).arg) = {}
    <3>1. /\ pc'[s] = "store table" /\ todo' = todo /\ databases' = databases
          /\ target'[s] = catalog
      BY <2>4 DEF TableLock, SessionsTyped, NamesKnown
    <3> QED BY <2>1, <2>2, <2>4, <3>1, ZenonT(40) DEF LookupHolds, OidsNamed
  <2> QED BY <2>3, <2>4
<1>o. \A x \in Sessions \ {s} : pc'[x] = pc[x] /\ todo'[x] = todo[x]
  BY DEF TableLock, Done, SessionsTyped, NamesKnown
<1>6. BoundHolds'
  <2>1. pc'[s] \notin {"plan", "execute"}
    BY DEF TableLock, Done, SessionsTyped
  <2>2. UNCHANGED <<databases, catalog, table, binder, began, moved>>
    BY DEF TableLock
  <2> QED BY <1>o, <2>1, <2>2, BoundKept
<1>7. AccessesRight'
  BY DEF TableLock, AccessesRight, Done, SessionsTyped, CatalogsTyped, OidsNamed, NamesKnown,
     BoundHolds
<1>8. FaultWitnessed'
  BY DEF TableLock, FaultWitnessed, Done, SessionsTyped, NamesKnown, BoundHolds
<1>9. CreationsKept'
  BY DEF TableLock, CreationsKept, Done, SessionsTyped, CatalogsTyped, OidsNamed
<1>10. SwitchAlone'
  <2>1. pc[s] # "switch" /\ pc'[s] # "switch"
    BY DEF TableLock, Done, SessionsTyped
  <2>2. UNCHANGED <<current, catalog, mixed>>
    BY DEF TableLock
  <2> QED BY <1>o, <2>1, <2>2, SwitchKept
<1> QED BY <1>1, <1>2, <1>3, <1>4, <1>5, <1>6, <1>7, <1>8, <1>9, <1>10

(* CreateTable appends a name that is still not there *)
LEMMA TableStoreInv ==
    ASSUME NEW s \in Sessions, InstanceInv, TableStore(s)
    PROVE  InstanceInv'
<1> USE InstanceAssumption DEF InstanceInv, At, Go, Stmt, shared, local, history, Places, Storing
<1>a. todo[s] # <<>> /\ Stmt(s) \in Statements /\ Stmt(s).arg \in STRING
      /\ Tail(todo[s]) \in Seq(Statements) /\ Id(s) \in Sessions \X Nat \X Nat
  <2>1. todo[s] # <<>>
    BY DEF TableStore, SessionsTyped
  <2> QED BY <2>1, StatementLeft
<1>1. SessionsTyped'
  <2>1. pc' = [pc EXCEPT ![s] = "bind"] /\ todo' = [todo EXCEPT ![s] = Tail(todo[s])]
    BY DEF TableStore, Done
  <2> QED BY <1>a, <2>1, SessionMoves DEF TableStore, SessionsTyped
<1>2. CatalogsTyped'
  BY TableAdded DEF CatalogsTyped, TableStore
<1>3. NamesKnown'
  BY DEF TableStore, NamesKnown, Done, SessionsTyped, CatalogsTyped
<1>4. WriterAlone'
  BY DEF TableStore, WriterAlone, Done, SessionsTyped
<1>5. LookupHolds'
  BY DEF TableStore, LookupHolds, Done, SessionsTyped, CatalogsTyped, OidsNamed, WriterAlone
<1>6. BoundHolds'
  <2>1. ASSUME NEW x \in Sessions, pc'[x] \in {"plan", "execute"}
        PROVE  Sound(x)'
    <3>1. x # s /\ pc[x] = pc'[x] /\ todo'[x] = todo[x]
          /\ UNCHANGED <<table, binder, began, moved, catalog>>
      BY <2>1 DEF TableStore, Done, SessionsTyped
    <3>2. Sound(x) /\ binder[x] \in DOMAIN databases /\ began[x] \in DOMAIN databases
      BY <2>1, <3>1 DEF BoundHolds, NamesKnown
    <3>3. \A d \in DOMAIN databases : \A n : OidsNamed(d, n) \subseteq OidsNamed(d, n)'
      BY StoresKeep DEF OidsNamed, Kept
    <3> QED BY <3>1, <3>2, <3>3 DEF Sound
  <2> QED BY <2>1 DEF BoundHolds
<1>7. AccessesRight'
  <2>1. accesses' = accesses
    BY DEF TableStore
  <2>2. Kept
    BY StoresKeep
  <2> QED BY <2>1, <2>2 DEF AccessesRight, OidsNamed, Kept
<1>8. FaultWitnessed'
  BY DEF TableStore, FaultWitnessed, Done, SessionsTyped, NamesKnown, BoundHolds
<1>9. CreationsKept'
  <2> DEFINE d == target[s]
  <2>0. PICK new : new = [id |-> Id(s), db |-> d, oid |-> Len(databases[d]) + 1,
                          name |-> Stmt(s).arg]
    OBVIOUS
  <2>a. Len(databases[d]) \in Nat
    BY TableAdded
  <2>b. made' = made \cup {new}
    BY <2>0 DEF TableStore
  <2>1. made' = made \cup {new} /\ new.db = d /\ new.name = Stmt(s).arg
        /\ new.oid = Len(databases[d]) + 1 /\ new.oid # 0
    BY <2>0, <2>a, <2>b
  <2>2. \A m \in made : m.db = d /\ m.oid # 0 => m.name # Stmt(s).arg
    BY TableAdded DEF CreationsKept
  <2>3. \A m \in made : m.db \in DOMAIN databases' /\ (m.oid # 0 => m.oid \in OidsNamed(m.db, m.name)')
    BY StoresKeep DEF CreationsKept, OidsNamed, Kept
  <2>4. new.db \in DOMAIN databases' /\ new.oid \in OidsNamed(new.db, new.name)'
    <3>1. new.db \in DOMAIN databases' /\ new.oid \in DOMAIN databases'[new.db]
          /\ databases'[new.db][new.oid] = new.name
      BY <2>1, TableAdded
    <3> QED BY <3>1 DEF OidsNamed
  <2>5. \A m, n \in made' :
          (m.db = n.db /\ m.name = n.name /\ (m.oid = 0 <=> n.oid = 0)) => m = n
    BY <2>1, <2>2 DEF CreationsKept
  <2> QED BY <2>1, <2>3, <2>4, <2>5 DEF CreationsKept
<1>10. SwitchAlone'
  BY DEF TableStore, SwitchAlone, Done, SessionsTyped, NamesKnown
<1> QED BY <1>1, <1>2, <1>3, <1>4, <1>5, <1>6, <1>7, <1>8, <1>9, <1>10

(* The planner finds the table again where it was bound *)
LEMMA PlanInv ==
    ASSUME NEW s \in Sessions, InstanceInv, Plan(s)
    PROVE  InstanceInv'
<1> USE InstanceAssumption DEF InstanceInv, At, Go, Stmt, shared, local, history, Places, Storing
<1>a. todo[s] # <<>> /\ Stmt(s) \in Statements /\ Stmt(s).arg \in STRING
      /\ Tail(todo[s]) \in Seq(Statements) /\ Id(s) \in Sessions \X Nat \X Nat
  <2>1. todo[s] # <<>>
    BY DEF Plan, SessionsTyped
  <2> QED BY <2>1, StatementLeft
<1>1. SessionsTyped'
  <2> DEFINE found == OidsNamed(catalog, Stmt(s).arg)
  <2>1. found \subseteq Nat
    BY DEF OidsNamed, CatalogsTyped, NamesKnown
  <2>2. CASE Stmt(s).op = "select" /\ found = {}
    BY <2>2 DEF Plan, Dies, SessionsTyped
  <2>3. CASE ~(Stmt(s).op = "select" /\ found = {})
    <3>1. pc' = [pc EXCEPT ![s] = "execute"] /\ todo' = [todo EXCEPT ![s] = todo[s]]
      BY <2>3 DEF Plan, SessionsTyped
    <3>2. Stmt(s).op = "select" => (CHOOSE i \in found : TRUE) \in Nat
      BY <2>1, <2>3
    <3>3. table' \in [Sessions -> Nat]
      BY <2>3, <3>2 DEF Plan, SessionsTyped
    <3> QED BY <1>a, <2>3, <3>1, <3>3, SessionMoves DEF Plan, SessionsTyped
  <2> QED BY <2>2, <2>3
<1>2. CatalogsTyped'
  BY DEF Plan, CatalogsTyped, Dies, OidsNamed, SessionsTyped
<1>3. NamesKnown'
  BY DEF Plan, NamesKnown, Dies, OidsNamed, SessionsTyped, CatalogsTyped
<1>4. WriterAlone'
  BY DEF Plan, WriterAlone, Dies, OidsNamed, SessionsTyped
<1>5. LookupHolds'
  BY DEF Plan, LookupHolds, Dies, OidsNamed, SessionsTyped, CatalogsTyped, WriterAlone
<1>6. BoundHolds'
  <2> DEFINE found == OidsNamed(catalog, Stmt(s).arg)
  <2>1. CASE Stmt(s).op = "select" /\ found = {}
    BY <2>1 DEF Plan, Dies, BoundHolds, Sound, OidsNamed
  <2>2. CASE ~(Stmt(s).op = "select" /\ found = {})
    <3>1. \A x \in Sessions \ {s} : pc'[x] = pc[x] /\ table'[x] = table[x]
      BY <2>2 DEF Plan, SessionsTyped
    <3>2. Stmt(s).op = "select" => table'[s] \in found
      BY <2>2 DEF Plan, SessionsTyped
    <3>3. Stmt(s).op # "select" => table'[s] = table[s]
      BY <2>2 DEF Plan, SessionsTyped
    <3>4. /\ UNCHANGED <<databases, catalog, binder, began, todo, moved>>
          /\ pc[s] = "plan" /\ pc'[s] = "execute"
      BY <2>2 DEF Plan, SessionsTyped
    <3>5. ASSUME NEW x \in Sessions \ {s}, pc'[x] \in {"plan", "execute"}
          PROVE  Sound(x)'
      <4>1. Sound(x)
        BY <3>1, <3>5 DEF BoundHolds
      <4> QED BY <3>1, <3>4, <4>1 DEF Sound, OidsNamed
    <3>6. Sound(s)'
      <4>1. Sound(s)
        BY <3>4 DEF BoundHolds
      <4> QED BY <3>2, <3>3, <3>4, <4>1 DEF Sound, OidsNamed
    <3> QED BY <3>5, <3>6 DEF BoundHolds
  <2> QED BY <2>1, <2>2
<1>7. AccessesRight'
  BY DEF Plan, AccessesRight, Dies, OidsNamed, SessionsTyped, CatalogsTyped, NamesKnown,
     BoundHolds
<1>8. FaultWitnessed'
  <2> DEFINE found == OidsNamed(catalog, Stmt(s).arg)
  <2>1. CASE Stmt(s).op = "select" /\ found = {}
    <3>1. pc[s] = "plan" /\ UNCHANGED <<pc, moved, catalog, binder, todo>>
      BY <2>1 DEF Plan, Dies
    <3>2. catalog # binder[s]
      BY <2>1, <3>1 DEF BoundHolds, Sound
    <3>3. MayMiss(s)'
      BY <2>1, <3>1, <3>2 DEF MayMiss
    <3> QED BY <3>3 DEF FaultWitnessed
  <2>2. CASE ~(Stmt(s).op = "select" /\ found = {})
    BY <2>2 DEF Plan, FaultWitnessed
  <2> QED BY <2>1, <2>2
<1>9. CreationsKept'
  BY DEF Plan, CreationsKept, Dies, OidsNamed, SessionsTyped, CatalogsTyped
<1>10. SwitchAlone'
  <2>0. \A x \in Sessions \ {s} : pc'[x] = pc[x] /\ todo'[x] = todo[x]
    BY DEF Plan, Dies, SessionsTyped
  <2>1. pc[s] # "switch" /\ pc'[s] # "switch"
    BY DEF Plan, Done, Dies, SessionsTyped
  <2>2. UNCHANGED <<current, catalog, mixed>>
    BY DEF Plan, Dies
  <2> QED BY <2>0, <2>1, <2>2, SwitchKept
<1> QED BY <1>1, <1>2, <1>3, <1>4, <1>5, <1>6, <1>7, <1>8, <1>9, <1>10

(* The executor gets the table unless the session was moved, or bound elsewhere *)
LEMMA ExecuteInv ==
    ASSUME NEW s \in Sessions, InstanceInv, Execute(s)
    PROVE  InstanceInv'
<1> USE InstanceAssumption DEF InstanceInv, At, Go, Stmt, shared, local, history, Places, Storing
<1>a. todo[s] # <<>> /\ Stmt(s) \in Statements /\ Stmt(s).arg \in STRING
      /\ Tail(todo[s]) \in Seq(Statements) /\ Id(s) \in Sessions \X Nat \X Nat
  <2>1. todo[s] # <<>>
    BY DEF Execute, SessionsTyped
  <2> QED BY <2>1, StatementLeft
<1>1. SessionsTyped'
  <2>1. CASE table[s] \notin DOMAIN databases[catalog]
    BY <2>1 DEF Execute, Dies, SessionsTyped
  <2>2. CASE table[s] \in DOMAIN databases[catalog]
    <3>1. pc' = [pc EXCEPT ![s] = "bind"] /\ todo' = [todo EXCEPT ![s] = Tail(todo[s])]
      BY <2>2 DEF Execute, Done
    <3> QED BY <1>a, <2>2, <3>1, SessionMoves DEF Execute, SessionsTyped
  <2> QED BY <2>1, <2>2
<1>2. CatalogsTyped'
  BY DEF Execute, CatalogsTyped, Done, Dies, Access, SessionsTyped
<1>3. NamesKnown'
  BY DEF Execute, NamesKnown, Done, Dies, Access, SessionsTyped, CatalogsTyped
<1>4. WriterAlone'
  BY DEF Execute, WriterAlone, Done, Dies, Access, SessionsTyped
<1>5. LookupHolds'
  <2>1. \A x \in Sessions \ {s} : pc'[x] = pc[x] /\ todo'[x] = todo[x] /\ target'[x] = target[x]
    BY DEF Execute, Done, Dies, SessionsTyped
  <2>2. pc'[s] \notin Storing /\ databases' = databases
    BY DEF Execute, Done, Dies, SessionsTyped
  <2> QED BY <2>1, <2>2, LookupKept
<1>o. \A x \in Sessions \ {s} : pc'[x] = pc[x] /\ todo'[x] = todo[x]
  BY DEF Execute, Done, Dies, SessionsTyped
<1>6. BoundHolds'
  <2>1. CASE table[s] \notin DOMAIN databases[catalog]
    BY <2>1 DEF Execute, Dies, BoundHolds, Sound, OidsNamed
  <2>2. CASE table[s] \in DOMAIN databases[catalog]
    <3>1. pc'[s] \notin {"plan", "execute"}
      BY <2>2 DEF Execute, Done, SessionsTyped
    <3>2. UNCHANGED <<databases, catalog, table, binder, began, moved>>
      BY <2>2 DEF Execute
    <3> QED BY <1>o, <3>1, <3>2, BoundKept
  <2> QED BY <2>1, <2>2
<1>7. AccessesRight'
  <2>1. CASE table[s] \notin DOMAIN databases[catalog]
    BY <2>1 DEF Execute, Dies, AccessesRight, OidsNamed
  <2>2. CASE table[s] \in DOMAIN databases[catalog]
    <3>1. accesses' = accesses \cup {Access(s, catalog)} /\ databases' = databases /\ pc[s] = "execute"
      BY <2>2 DEF Execute
    <3>2. Sound(s) /\ catalog \in DOMAIN databases
      BY <3>1 DEF BoundHolds, NamesKnown
    <3>3. ~moved[s] =>
             /\ catalog = began[s]
             /\ (Stmt(s).op = "select" \/ binder[s] = began[s]) =>
                   table[s] \in OidsNamed(catalog, Stmt(s).arg)
      BY <3>1, <3>2 DEF Sound
    <3>4. PICK a : a = Access(s, catalog)
      OBVIOUS
    <3>5. /\ a.moved = moved[s] /\ a.db = catalog /\ a.began = began[s] /\ a.op = Stmt(s).op
          /\ a.bound = binder[s] /\ a.oid = table[s] /\ a.name = Stmt(s).arg
      BY <3>4 DEF Access
    <3>6. \A b \in accesses' : b \in accesses \/ b = a
      BY <3>1, <3>4
    <3> QED BY <3>1, <3>2, <3>3, <3>5, <3>6 DEF AccessesRight, OidsNamed
  <2> QED BY <2>1, <2>2
<1>8. FaultWitnessed'
  <2>1. CASE table[s] \notin DOMAIN databases[catalog]
    <3>1. pc[s] = "execute" /\ UNCHANGED <<pc, moved, catalog, binder, todo>>
      BY <2>1 DEF Execute, Dies
    <3>2. Sound(s)
      BY <3>1 DEF BoundHolds
    <3>3. moved[s] \/ (Stmt(s).op = "insert" /\ catalog # binder[s])
      BY <2>1, <3>1, <3>2 DEF Sound, OidsNamed
    <3>4. MayMiss(s)'
      BY <3>1, <3>3 DEF MayMiss
    <3> QED BY <3>4 DEF FaultWitnessed
  <2>2. CASE table[s] \in DOMAIN databases[catalog]
    BY <2>2 DEF Execute, FaultWitnessed
  <2> QED BY <2>1, <2>2
<1>9. CreationsKept'
  BY DEF Execute, CreationsKept, Done, Dies, Access, SessionsTyped, CatalogsTyped, OidsNamed
<1>10. SwitchAlone'
  <2>1. pc[s] # "switch" /\ pc'[s] # "switch"
    BY DEF Execute, Done, Dies, SessionsTyped
  <2>2. UNCHANGED <<current, catalog, mixed>>
    BY DEF Execute, Dies
  <2> QED BY <1>o, <2>1, <2>2, SwitchKept
<1> QED BY <1>1, <1>2, <1>3, <1>4, <1>5, <1>6, <1>7, <1>8, <1>9, <1>10

(* A data race changes nothing but the fault *)
LEMMA RaceInv ==
    ASSUME NEW s \in Sessions, InstanceInv, Race(s)
    PROVE  InstanceInv'
<1> USE InstanceAssumption DEF InstanceInv, At, Go, Stmt, shared, local, history, Places, Storing
<1>1. SessionsTyped'
  BY DEF Race, SessionsTyped, Dies
<1>2. CatalogsTyped'
  BY DEF Race, CatalogsTyped, Dies, SessionsTyped
<1>3. NamesKnown'
  BY DEF Race, NamesKnown, Dies, SessionsTyped, CatalogsTyped
<1>4. WriterAlone'
  BY DEF Race, WriterAlone, Dies, SessionsTyped
<1>5. LookupHolds'
  BY DEF Race, LookupHolds, Dies, SessionsTyped, CatalogsTyped, OidsNamed, WriterAlone
<1>6. BoundHolds'
  BY DEF Race, BoundHolds, Sound, Dies, SessionsTyped, CatalogsTyped, OidsNamed, NamesKnown
<1>7. AccessesRight'
  BY DEF Race, AccessesRight, Dies, SessionsTyped, CatalogsTyped, OidsNamed, NamesKnown,
     BoundHolds
<1>8. FaultWitnessed'
  BY DEF Race, FaultWitnessed, Dies, SessionsTyped, NamesKnown, BoundHolds
<1>9. CreationsKept'
  BY DEF Race, CreationsKept, Dies, SessionsTyped, CatalogsTyped, OidsNamed
<1>10. SwitchAlone'
  BY DEF Race, SwitchAlone, Dies, SessionsTyped, NamesKnown
<1> QED BY <1>1, <1>2, <1>3, <1>4, <1>5, <1>6, <1>7, <1>8, <1>9, <1>10

(* A step that changes nothing keeps the invariant *)
LEMMA StutterInv ==
    ASSUME InstanceInv, UNCHANGED vars
    PROVE  InstanceInv'
<1> USE InstanceAssumption DEF InstanceInv, At, Go, Stmt, shared, local, history, Places, Storing
<1>1. SessionsTyped'
  BY DEF SessionsTyped, vars
<1>2. CatalogsTyped'
  BY DEF CatalogsTyped, vars, SessionsTyped
<1>3. NamesKnown'
  BY DEF NamesKnown, vars, SessionsTyped, CatalogsTyped
<1>4. WriterAlone'
  BY DEF WriterAlone, vars, SessionsTyped
<1>5. LookupHolds'
  BY DEF LookupHolds, vars, SessionsTyped, CatalogsTyped, OidsNamed, WriterAlone
<1>6. BoundHolds'
  BY DEF BoundHolds, Sound, vars, SessionsTyped, CatalogsTyped, OidsNamed, NamesKnown
<1>7. AccessesRight'
  BY DEF AccessesRight, vars, SessionsTyped, CatalogsTyped, OidsNamed, NamesKnown, BoundHolds
<1>8. FaultWitnessed'
  BY DEF FaultWitnessed, MayMiss, vars
<1>9. CreationsKept'
  BY DEF CreationsKept, vars, SessionsTyped, CatalogsTyped, OidsNamed
<1>10. SwitchAlone'
  BY DEF SwitchAlone, vars, SessionsTyped, NamesKnown
<1> QED BY <1>1, <1>2, <1>3, <1>4, <1>5, <1>6, <1>7, <1>8, <1>9, <1>10

-----------------------------------------------------------------------------
(* HMSSQL's constructor establishes the invariant *)
LEMMA InstanceInit == Init => InstanceInv
<1> SUFFICES ASSUME Init PROVE InstanceInv
  OBVIOUS
<1> USE InstanceAssumption DEF Init, Places, Storing
<1>1. SessionsTyped
  BY DEF SessionsTyped
<1>2. CatalogsTyped /\ NamesKnown
  BY DEF CatalogsTyped, NamesKnown
<1>3. WriterAlone /\ LookupHolds
  BY DEF WriterAlone, LookupHolds
<1>4. BoundHolds /\ AccessesRight /\ FaultWitnessed
  BY DEF BoundHolds, AccessesRight, FaultWitnessed
<1>5. CreationsKept /\ SwitchAlone
  BY DEF CreationsKept, SwitchAlone
<1> QED BY <1>1, <1>2, <1>3, <1>4, <1>5 DEF InstanceInv

(* Every step of every session keeps the invariant *)
LEMMA InstanceInductive == InstanceInv /\ [Next]_vars => InstanceInv'
<1> SUFFICES ASSUME InstanceInv, [Next]_vars PROVE InstanceInv'
  OBVIOUS
<1>1. ASSUME NEW s \in Sessions, Request(s) PROVE InstanceInv'
  BY <1>1, RequestInv
<1>2. ASSUME NEW s \in Sessions, Step(s) PROVE InstanceInv'
  BY <1>2, OpenBinderInv, BindTableInv, BindOtherInv, AnswerInv, UseFindInv, UseNameInv,
     UseCatalogInv, DatabaseLockInv, DatabaseStoreInv, TableLockInv, TableStoreInv,
     PlanInv, ExecuteInv, RaceInv DEF Step
<1>3. CASE Stopped \/ UNCHANGED vars
  BY <1>3, StutterInv DEF Stopped
<1> QED BY <1>1, <1>2, <1>3 DEF Next

(* Only the two stores change databases_, and both keep what is there *)
LEMMA StepKeeps == InstanceInv /\ [Next]_vars => Kept
<1> SUFFICES ASSUME InstanceInv, [Next]_vars PROVE Kept
  OBVIOUS
<1>1. CASE databases' = databases
  BY <1>1 DEF Kept
<1>2. CASE \E s \in Sessions : DatabaseStore(s) \/ TableStore(s)
  BY <1>2, StoresKeep
<1>3. databases' = databases \/ \E s \in Sessions : DatabaseStore(s) \/ TableStore(s)
  <2>1. CASE Stopped \/ UNCHANGED vars
    BY <2>1 DEF Stopped, vars, shared
  <2>2. CASE \E s \in Sessions : Request(s) \/ Step(s)
    BY <2>2 DEF Step, Request, OpenBinder, BindTable, BindOther, Answer, UseFind, UseName,
       UseCatalog, DatabaseLock, TableLock, Plan, Execute, Race, Dies, shared
  <2> QED BY <2>1, <2>2 DEF Next
<1> QED BY <1>1, <1>2, <1>3

(* The invariant holds in every state of every run of the instance *)
THEOREM InstanceInvariant == Spec => []InstanceInv
<1>1. Init => InstanceInv
  BY InstanceInit
<1>2. InstanceInv /\ [Next]_vars => InstanceInv'
  BY InstanceInductive
<1> QED BY <1>1, <1>2, PTL DEF Spec

(* For any sessions and batches, a statement that no USE of another session *)
(* falls into runs in the database in use when it began, and on the table   *)
(* it names there if it is a SELECT or was bound there; the switches before *)
(* it, of its own batch or of others, are all allowed                       *)
THEOREM StatementsCorrect == Spec => []StatementsHitTheirTable
<1>1. InstanceInv => StatementsHitTheirTable
  BY DEF InstanceInv, AccessesRight, FaultWitnessed, MayMiss, StatementsHitTheirTable, OidsNamed
<1> QED BY <1>1, InstanceInvariant, PTL

(* Of any number of CREATEs of one name in one place one succeeds, and what *)
(* it answered stays true                                                   *)
THEOREM CreatesCorrect == Spec => []CreatesOnce
<1>1. InstanceInv => CreatesOnce
  BY DEF InstanceInv, CreationsKept, CreatesOnce, OidsNamed
<1> QED BY <1>1, InstanceInvariant, PTL

(* Calls of UseDatabase that do not meet leave name and catalog in step *)
THEOREM CurrentCorrect == Spec => []CurrentNamesCatalog
<1>1. InstanceInv => CurrentNamesCatalog
  BY DEF InstanceInv, SwitchAlone, CurrentNamesCatalog
<1> QED BY <1>1, InstanceInvariant, PTL

(* No step loses a database or a table or renumbers one *)
THEOREM CatalogsCorrect == Spec => CatalogsKept
<1> DEFINE K == \A d \in DOMAIN databases :
                   /\ d \in DOMAIN databases'
                   /\ \A i \in DOMAIN databases[d] :
                         i \in DOMAIN databases'[d] /\ databases'[d][i] = databases[d][i]
<1>1. InstanceInv /\ [Next]_vars => [K]_vars
  BY StepKeeps DEF Kept
<1> QED BY <1>1, InstanceInvariant, PTL DEF Spec, CatalogsKept
=============================================================================
