------------------------------ MODULE Instance ------------------------------
(***************************************************************************)
(* Several server threads in HMSSQL::ExecuteSqlStatement on one instance.  *)
(* A request is a batch of statements.  The instance has one current       *)
(* database for all of them, and a statement reads catalog_ three times:   *)
(* the binder when the batch starts, the planner, and the executor context *)
(* (the last one without a lock).  A catalog is the sequence of the names  *)
(* of its tables: an oid is a position.                                    *)
(*                                                                         *)
(* A section that only reads under catalog_lock_ is one step that waits    *)
(* for the writer to leave.  databases_lock_ is only ever shared here      *)
(* (SaveState, which takes it alone, is in Checkpoint): it excludes nobody.*)
(* A lookup without the lock that meets a writer is a data race: it finds  *)
(* the old or the new contents, or the process dies.                       *)
(***************************************************************************)
EXTENDS Naturals, Sequences

CONSTANTS
    Sessions,       \* server threads
    Batches,        \* the requests, sequences of [op, arg]
    MaxRequests,    \* bound on the requests of a session
    Default,        \* the database the constructor makes
    NoOne

(* The statements that reach the catalog, with the name they are about. *)
Statements == [op : {"insert", "select", "use", "database", "table"}, arg : STRING]

ASSUME InstanceAssumption ==
    /\ NoOne \notin Sessions
    /\ MaxRequests \in Nat
    /\ Batches \subseteq Seq(Statements)
    /\ Default \in STRING

VARIABLES
    databases,      \* databases_, from names to catalogs
    accesses,       \* what the executors were given: table and statement
    current,        \* current_database_
    catalog,        \* catalog_, as the name it is stored under
    writer,         \* who holds catalog_lock_ alone, or NoOne
    pc, todo, asked,    \* of a session: step, statements left, requests made
    binder,         \* of a session: the catalog its binder refers to
    table,          \* of a session: the oid its statement has
    target,         \* of a session: the database its CREATE TABLE changes
    began,          \* of a session: the database in use when its statement began
    moved,          \* of a session: catalog_ has changed since
    mixed,          \* two calls of UseDatabase met in their assignments
    made,           \* the CREATEs answered with success
    fault           \* why the process died, or "none"

shared == <<databases, accesses, current, catalog, writer>>
local == <<todo, asked, binder, table, target>>
history == <<began, moved, mixed, made>>
vars == <<shared, pc, local, history, fault>>

Init ==
    /\ databases = [d \in {Default} |-> <<>>]
    /\ accesses = {} /\ made = {}
    /\ current = Default /\ catalog = Default
    /\ writer = NoOne /\ mixed = FALSE /\ fault = "none"
    /\ pc = [s \in Sessions |-> "idle"]
    /\ todo = [s \in Sessions |-> <<>>]
    /\ asked = [s \in Sessions |-> 0]
    /\ binder = [s \in Sessions |-> Default]
    /\ table = [s \in Sessions |-> 0]
    /\ target = [s \in Sessions |-> Default]
    /\ began = [s \in Sessions |-> Default]
    /\ moved = [s \in Sessions |-> FALSE]

At(s, step) == fault = "none" /\ pc[s] = step
Go(s, step) == pc' = [pc EXCEPT ![s] = step]
Stmt(s) == Head(todo[s])

(* The statement is over, with an answer or an "SQL error". *)
Done(s) == Go(s, "bind") /\ todo' = [todo EXCEPT ![s] = Tail(@)]

Dies(why) == fault' = why /\ UNCHANGED <<shared, pc, local, history>>

OidsNamed(d, name) == {i \in DOMAIN databases[d] : databases[d][i] = name}

(* What identifies a statement: session, request and place in the batch. *)
Id(s) == <<s, asked[s], Len(todo[s])>>

-----------------------------------------------------------------------------
Request(s) ==
    /\ At(s, "idle") /\ asked[s] < MaxRequests
    /\ \E b \in Batches : todo' = [todo EXCEPT ![s] = b]
    /\ asked' = [asked EXCEPT ![s] = @ + 1]
    /\ Go(s, "open")
    /\ UNCHANGED <<shared, binder, table, target, history, fault>>

(* A Binder is made for catalog_ under the shared catalog_lock_.           *)
OpenBinder(s) ==
    /\ At(s, "open") /\ writer = NoOne
    /\ binder' = [binder EXCEPT ![s] = catalog]
    /\ Go(s, "bind")
    /\ UNCHANGED <<shared, todo, asked, table, target, history, fault>>

(* BindStatement, no lock held: a table is looked up in the binder's       *)
(* catalog; other statements are told apart by their kind.                 *)
BindTable(s) ==
    /\ At(s, "bind") /\ todo[s] # <<>> /\ Stmt(s).op \in {"insert", "select"}
    /\ LET found == OidsNamed(binder[s], Stmt(s).arg)
       IN  IF found = {} THEN Done(s) /\ UNCHANGED table
           ELSE /\ table' = [table EXCEPT ![s] = CHOOSE i \in found : TRUE]
                /\ Go(s, "plan") /\ UNCHANGED todo
    /\ began' = [began EXCEPT ![s] = catalog]
    /\ moved' = [moved EXCEPT ![s] = FALSE]
    /\ UNCHANGED <<shared, asked, binder, target, mixed, made, fault>>

BindOther(s) ==
    /\ At(s, "bind") /\ todo[s] # <<>> /\ Stmt(s).op \in {"use", "database", "table"}
    /\ Go(s, Stmt(s).op)
    /\ UNCHANGED <<shared, local, history, fault>>

Answer(s) ==
    /\ At(s, "bind") /\ todo[s] = <<>>
    /\ Go(s, "idle")
    /\ UNCHANGED <<shared, local, history, fault>>

-----------------------------------------------------------------------------
(* Mutant of UseFind: the name is set before the lookup. *)
UseFindNamesFirst(s) ==
    /\ At(s, "use")
    /\ current' = Stmt(s).arg
    /\ IF Stmt(s).arg \in DOMAIN databases THEN Go(s, "name") /\ UNCHANGED todo
       ELSE Done(s)
    /\ UNCHANGED <<databases, accesses, catalog, writer, asked, binder, table, target, history, fault>>

(* UseDatabase: the lookup, then two assignments.                          *)
UseFind(s) ==
    /\ At(s, "use")
    /\ IF Stmt(s).arg \in DOMAIN databases THEN Go(s, "name") /\ UNCHANGED todo
       ELSE Done(s)
    /\ UNCHANGED <<shared, asked, binder, table, target, history, fault>>

UseName(s) ==
    /\ At(s, "name")
    /\ current' = Stmt(s).arg
    /\ mixed' = \E x \in Sessions \ {s} : pc[x] = "switch"
    /\ Go(s, "switch")
    /\ UNCHANGED <<databases, accesses, catalog, writer, local, began, moved, made, fault>>

UseCatalog(s) ==
    /\ At(s, "switch")
    /\ catalog' = Stmt(s).arg
    /\ moved' = [x \in Sessions |-> moved[x] \/ catalog # Stmt(s).arg]
    /\ Done(s)
    /\ UNCHANGED <<databases, accesses, current, writer, asked, binder, table, target,
                   began, mixed, made, fault>>

-----------------------------------------------------------------------------
(* Mutant of DatabaseLock: a name in use is not refused. *)
DatabaseLockUnchecked(s) ==
    /\ At(s, "database") /\ writer = NoOne
    /\ writer' = s /\ Go(s, "store database")
    /\ UNCHANGED <<databases, accesses, current, catalog, local, history, fault>>

(* CreateDatabase: find under catalog_lock_, then operator[] and the       *)
(* release of the lock.                                                    *)
DatabaseLock(s) ==
    /\ At(s, "database") /\ writer = NoOne
    /\ IF Stmt(s).arg \in DOMAIN databases THEN Done(s) /\ UNCHANGED writer
       ELSE writer' = s /\ Go(s, "store database") /\ UNCHANGED todo
    /\ UNCHANGED <<databases, accesses, current, catalog, asked, binder, table, target,
                   history, fault>>

DatabaseStore(s) ==
    /\ At(s, "store database")
    /\ databases' = [d \in DOMAIN databases \cup {Stmt(s).arg} |->
                       IF d = Stmt(s).arg THEN <<>> ELSE databases[d]]
    /\ made' = made \cup {[id |-> Id(s), db |-> Stmt(s).arg, oid |-> 0, name |-> ""]}
    /\ writer' = NoOne
    /\ Done(s)
    /\ UNCHANGED <<accesses, current, catalog, asked, binder, table, target, began, moved, mixed,
                   fault>>

(* Mutant of TableLock: the lock is taken as a reader. *)
TableLockShared(s) ==
    /\ At(s, "table")
    /\ target' = [target EXCEPT ![s] = catalog]
    /\ IF OidsNamed(catalog, Stmt(s).arg) # {} THEN Done(s) ELSE Go(s, "store table") /\ UNCHANGED todo
    /\ UNCHANGED <<shared, asked, binder, table, history, fault>>

(* Mutant of TableLock: a refusal returns with the lock held. *)
TableLockKeeps(s) ==
    /\ At(s, "table") /\ writer = NoOne
    /\ target' = [target EXCEPT ![s] = catalog]
    /\ writer' = s
    /\ IF OidsNamed(catalog, Stmt(s).arg) # {} THEN Done(s) ELSE Go(s, "store table") /\ UNCHANGED todo
    /\ UNCHANGED <<databases, accesses, current, catalog, asked, binder, table, history, fault>>

(* CREATE TABLE: catalog_->CreateTable under catalog_lock_, which does not *)
(* keep UseDatabase from changing catalog_.                                *)
TableLock(s) ==
    /\ At(s, "table") /\ writer = NoOne
    /\ target' = [target EXCEPT ![s] = catalog]
    /\ IF OidsNamed(catalog, Stmt(s).arg) # {} THEN Done(s) /\ UNCHANGED writer
       ELSE writer' = s /\ Go(s, "store table") /\ UNCHANGED todo
    /\ UNCHANGED <<databases, accesses, current, catalog, asked, binder, table, history, fault>>

TableStore(s) ==
    LET d == target[s]
    IN  /\ At(s, "store table")
        /\ databases' = [databases EXCEPT ![d] = Append(@, Stmt(s).arg)]
        /\ made' = made \cup {[id |-> Id(s), db |-> d, oid |-> Len(databases[d]) + 1,
                               name |-> Stmt(s).arg]}
        /\ writer' = NoOne
        /\ Done(s)
        /\ UNCHANGED <<accesses, current, catalog, asked, binder, table, target, began, moved, mixed,
                   fault>>

-----------------------------------------------------------------------------
(* PlanQuery and Optimize under the shared catalog_lock_.  A table that is *)
(* read is looked up again by its name, and asserted to be there; a table  *)
(* that is inserted into keeps the oid it was bound to.                    *)
Plan(s) ==
    LET found == OidsNamed(catalog, Stmt(s).arg)
    IN  /\ At(s, "plan") /\ writer = NoOne
        /\ IF Stmt(s).op = "select" /\ found = {} THEN Dies("no table")
           ELSE /\ table' = [table EXCEPT ![s] = IF Stmt(s).op = "select"
                                                 THEN CHOOSE i \in found : TRUE ELSE @]
                /\ Go(s, "execute")
                /\ UNCHANGED <<shared, todo, asked, binder, target, history, fault>>

(* What an executor is given: the table and the statement it is for. *)
Access(s, d) == [id |-> Id(s), op |-> Stmt(s).op, name |-> Stmt(s).arg,
                 bound |-> binder[s], began |-> began[s], db |-> d, oid |-> table[s],
                 moved |-> moved[s]]

(* Mutant of Execute: the catalog the engine was constructed with. *)
ExecuteInFirst(s) ==
    /\ At(s, "execute")
    /\ IF table[s] \notin DOMAIN databases[Default] THEN Dies("no table")
       ELSE /\ accesses' = accesses \cup {Access(s, Default)}
            /\ Done(s)
            /\ UNCHANGED <<databases, current, catalog, writer, asked, binder, table, target,
                           history, fault>>

(* MakeExecutorContext and Execute: the executor looks the oid up in       *)
(* catalog_ and uses what it gets.                                         *)
Execute(s) ==
    /\ At(s, "execute")
    /\ IF table[s] \notin DOMAIN databases[catalog] THEN Dies("no table")
       ELSE /\ accesses' = accesses \cup {Access(s, catalog)}
            /\ Done(s)
            /\ UNCHANGED <<databases, current, catalog, writer, asked, binder, table, target,
                           history, fault>>

(* A lookup without catalog_lock_ while a CREATE changes the same map:     *)
(* UseDatabase makes two in databases_, binder and executor one each in    *)
(* their catalog.                                                          *)
Race(s) ==
    /\ writer \notin {NoOne, s}
    /\ \/ (At(s, "use") \/ At(s, "switch")) /\ pc[writer] = "store database"
       \/ At(s, "bind") /\ todo[s] # <<>> /\ Stmt(s).op \in {"insert", "select"}
          /\ pc[writer] = "store table" /\ target[writer] = binder[s]
       \/ At(s, "execute") /\ pc[writer] = "store table" /\ target[writer] = catalog
    /\ Dies("race")

-----------------------------------------------------------------------------
Step(s) ==
    \/ OpenBinder(s) \/ BindTable(s) \/ BindOther(s) \/ Answer(s)
    \/ UseFind(s) \/ UseName(s) \/ UseCatalog(s)
    \/ DatabaseLock(s) \/ DatabaseStore(s) \/ TableLock(s) \/ TableStore(s)
    \/ Plan(s) \/ Execute(s) \/ Race(s)

(* The process has died, or every session has made its requests. *)
Stopped ==
    /\ fault # "none" \/ \A s \in Sessions : pc[s] = "idle" /\ asked[s] = MaxRequests
    /\ UNCHANGED vars

Next == (\E s \in Sessions : Request(s) \/ Step(s)) \/ Stopped

(* A thread with a request keeps running; nobody has to make a request.    *)
Spec == Init /\ [][Next]_vars /\ \A s \in Sessions : WF_vars(Step(s))

-----------------------------------------------------------------------------
(* A statement that no other session's USE falls into runs in the database  *)
(* in use when it began, on the table it names there: a SELECT whatever the *)
(* USEs before it, those of its own batch included, an INSERT if the batch  *)
(* was bound in that database.  An INSERT after a USE takes the oid of a    *)
(* table of the database its batch was bound in, and nothing is said of it. *)
(* No table is missing but to a statement so moved, or bound in another     *)
(* database than the one in use.  (hmssql_instance.cpp:290, 428, 446 read   *)
(* catalog_ at three times, while other sessions create and switch)         *)
StatementsHitTheirTable ==
    /\ \A a \in accesses : ~a.moved =>
          /\ a.db = a.began
          /\ (a.op = "select" \/ a.bound = a.began) => databases[a.db][a.oid] = a.name
    /\ fault = "no table" => \E s \in Sessions :
          \/ pc[s] = "plan" /\ Stmt(s).op = "select" /\ catalog # binder[s]
          \/ pc[s] = "execute" /\ moved[s]
          \/ pc[s] = "execute" /\ Stmt(s).op = "insert" /\ catalog # binder[s]

(* Of the sessions that create one name in one place at once no two are     *)
(* told that they did, and what one was told it made is there under the oid *)
(* it was told (hmssql_instance.cpp:314, 663; catalog.h:125).               *)
CreatesOnce ==
    /\ \A m, n \in made :
          (m.db = n.db /\ m.name = n.name /\ (m.oid = 0 <=> n.oid = 0)) => m = n
    /\ \A m \in made : /\ m.db \in DOMAIN databases
                       /\ m.oid # 0 => databases[m.db][m.oid] = m.name

(* Whatever USE, refused or not, sessions issue, catalog_ is the catalog of *)
(* current_database_ once no call is between its two assignments, except    *)
(* where two calls met there (hmssql_instance.cpp:40): UseDatabase writes   *)
(* both under a lock that is only shared.                                   *)
CurrentNamesCatalog ==
    (~mixed /\ \A s \in Sessions : pc[s] # "switch") => catalog = current

(* No step of any session loses a database or a table, or gives a table     *)
(* another oid: pointers and oids that other sessions hold stay good.       *)
CatalogsKept ==
    [][\A d \in DOMAIN databases :
          /\ d \in DOMAIN databases'
          /\ \A i \in DOMAIN databases[d] :
                i \in DOMAIN databases'[d] /\ databases'[d][i] = databases[d][i]]_vars

(* A request is answered: no order of the sections under catalog_lock_      *)
(* blocks a session for ever, also after refused statements.                *)
BatchesEnd == \A s \in Sessions : pc[s] # "idle" ~> (pc[s] = "idle" \/ fault # "none")
=============================================================================
