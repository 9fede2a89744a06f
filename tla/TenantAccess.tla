---------------------------- MODULE TenantAccess ----------------------------
(***************************************************************************)
(* The path from a request to the rows it may see: the extractor and the   *)
(* scopes of crates/api/src/auth.rs, the handlers of                       *)
(* crates/api/src/routes, begin_tenant_tx in crates/infra/src/db.rs, and   *)
(* the row-level security policies of migrations/.  Connectors that write  *)
(* on behalf of a tenant go through the same transaction.                  *)
(*                                                                         *)
(* A task is one request or one write.  Tasks share the pool; a connection *)
(* is the Postgres session a transaction runs on, which a transaction-mode *)
(* pooler may choose afresh for each of them.                              *)
(***************************************************************************)
EXTENDS Integers, FiniteSets

CONSTANTS
    Tenants,
    Tokens,           \* what an Authorization header may carry
    ContextOf,        \* the resolver's table: the TenantContext of a token, or None
    Routes,           \* the authenticated routes
    TransactionsOf,   \* how many transactions a route's handler runs, in turn
    Tasks, Connections,
    Rows,             \* the identities of rows
    None,             \* no value
    MaxTasks,         \* bound: tasks begun
    MaxFaults         \* bound: swallowed settings, lost connections, timeouts

Scopes == {"Read", "Ingest", "Post"}
TenantContext == [tenant_id : Tenants, scopes : SUBSET Scopes]

ASSUME TenantAccessAssumption ==
    /\ None \notin Tenants \union Tasks \union Connections \union {"read", "write"}
    /\ ContextOf \in [Tokens -> TenantContext \union {None}]
    /\ TransactionsOf \in [Routes -> Nat \ {0}]
    /\ MaxTasks \in Nat /\ MaxFaults \in Nat

VARIABLES
    rows,             \* committed rows: the tenant_id column, the identity and who wrote it
    conn,             \* conn[c]: the settings of the session and who holds it
    task,             \* task[t]: how far it is
    begun, faults     \* counters for the bounds

vars == <<rows, conn, task, begun, faults>>

Row == [tenant_id : Tenants, id : Rows, by : Tenants]

\* A task that has done nothing yet.
NewTask(kind, phase, tenant, token, left, row) ==
    [phase |-> phase, kind |-> kind, tenant |-> tenant, token |-> token, left |-> left,
     conn |-> None, applied |-> None, row |-> row, view |-> {}, committed |-> {}]

IdleConnection == [session |-> None, local |-> None, holder |-> None]

\* current_setting('falkr.tenant_id', true): a transaction's value hides the session's.
current_setting(c) == IF conn[c].local # None THEN conn[c].local ELSE conn[c].session

Ended(t, answer) ==
    task' = [task EXCEPT ![t].phase = answer, ![t].conn = None, ![t].applied = None]

\* COMMIT, ROLLBACK and dropping a Transaction end what set_config(..., true) set.
Released(c) == [conn EXCEPT ![c].local = None, ![c].holder = None]

-----------------------------------------------------------------------------
(* Requests and writes begin. *)

Finished == {"idle", "ok", "unauthenticated", "forbidden", "internal", "dropped"}

\* The extractor resolves the token, then the handler requires Scope::Read.
Request(t) ==
    /\ task[t].phase \in Finished
    /\ begun < MaxTasks
    /\ begun' = begun + 1
    /\ \E token \in Tokens \union {None}, route \in Routes :
          LET ctx == IF token = None THEN None ELSE ContextOf[token]
              phase == IF ctx = None THEN "unauthenticated"
                       ELSE IF "Read" \notin ctx.scopes THEN "forbidden" ELSE "acquiring"
              tenant == IF phase = "acquiring" THEN ctx.tenant_id ELSE None
          IN  task' = [task EXCEPT ![t] =
                          NewTask("read", phase, tenant, token, TransactionsOf[route], None)]
    /\ UNCHANGED <<rows, conn, faults>>

\* A store's write, for the tenant it names; the row's tenant_id is bound separately.
Write(t) ==
    /\ task[t].phase \in Finished
    /\ begun < MaxTasks
    /\ begun' = begun + 1
    /\ \E tenant, column \in Tenants, id \in Rows :
          task' = [task EXCEPT ![t] = NewTask("write", "acquiring", tenant, None, 1,
                      [tenant_id |-> column, id |-> id, by |-> tenant])]
    /\ UNCHANGED <<rows, conn, faults>>

-----------------------------------------------------------------------------
(* begin_tenant_tx. *)

\* pool.begin(): BEGIN on a connection nobody holds.
Acquire(t) ==
    /\ task[t].phase = "acquiring"
    /\ \E c \in Connections :
          /\ conn[c].holder = None
          /\ conn' = [conn EXCEPT ![c].holder = t]
          /\ task' = [task EXCEPT ![t].phase = "begun", ![t].conn = c]
    /\ UNCHANGED <<rows, begun, faults>>

\* Mutant: set_config(..., false), a setting of the session.
SetConfigForSession(t) ==
    /\ task[t].phase = "begun"
    /\ conn' = [conn EXCEPT ![task[t].conn].session = task[t].tenant]
    /\ task' = [task EXCEPT ![t].phase = "set", ![t].applied = task[t].tenant]
    /\ UNCHANGED <<rows, begun, faults>>

\* SELECT set_config('falkr.tenant_id', tenant, true)
SetConfig(t) ==
    /\ task[t].phase = "begun"
    /\ conn' = [conn EXCEPT ![task[t].conn].local = task[t].tenant]
    /\ task' = [task EXCEPT ![t].phase = "set", ![t].applied = task[t].tenant]
    /\ UNCHANGED <<rows, begun, faults>>

\* A pooler drops the setting: the session answers with what it has.
SetConfigSwallowed(t) ==
    /\ task[t].phase = "begun"
    /\ faults < MaxFaults
    /\ faults' = faults + 1
    /\ task' = [task EXCEPT ![t].phase = "set", ![t].applied = current_setting(task[t].conn)]
    /\ UNCHANGED <<rows, conn, begun>>

\* Mutant: the applied value is not read back.
VerifyNothing(t) ==
    /\ task[t].phase = "set"
    /\ task' = [task EXCEPT ![t].phase = "ready"]
    /\ UNCHANGED <<rows, conn, begun, faults>>

\* Mutant: the rejected transaction is kept from the pool.
VerifyLeaking(t) ==
    /\ task[t].phase = "set"
    /\ IF task[t].applied = task[t].tenant
       THEN task' = [task EXCEPT ![t].phase = "ready"] /\ UNCHANGED conn
       ELSE Ended(t, "internal") /\ UNCHANGED conn
    /\ UNCHANGED <<rows, begun, faults>>

\* The applied value is what was asked for, or TenantContextRejected: the
\* transaction is dropped, and the caller answers 500.
Verify(t) ==
    /\ task[t].phase = "set"
    /\ IF task[t].applied = task[t].tenant
       THEN task' = [task EXCEPT ![t].phase = "ready"] /\ UNCHANGED conn
       ELSE Ended(t, "internal") /\ conn' = Released(task[t].conn)
    /\ UNCHANGED <<rows, begun, faults>>

-----------------------------------------------------------------------------
(* Statements under row-level security. *)

\* USING: the rows a statement on this session sees.
Visible(c) == {row \in rows : row.tenant_id = current_setting(c)}

\* Mutant: a policy without WITH CHECK.
MayWriteAnything(c, row) == TRUE

\* WITH CHECK: the rows a statement on this session may write.
MayWrite(c, row) == row.tenant_id = current_setting(c)

\* A SELECT.
Select(t) ==
    /\ task[t].phase = "ready" /\ task[t].kind = "read"
    /\ task' = [task EXCEPT ![t].phase = "done", ![t].view = Visible(task[t].conn), ![t].committed = rows]
    /\ UNCHANGED <<rows, conn, begun, faults>>

\* An INSERT: accepted, or an error that drops the transaction.
Insert(t) ==
    /\ task[t].phase = "ready" /\ task[t].kind = "write"
    /\ IF MayWrite(task[t].conn, task[t].row)
       THEN task' = [task EXCEPT ![t].phase = "done"] /\ UNCHANGED conn
       ELSE Ended(t, "internal") /\ conn' = Released(task[t].conn)
    /\ UNCHANGED <<rows, begun, faults>>

\* COMMIT.  A handler with another transaction to run goes back to the pool.
Commit(t) ==
    /\ task[t].phase = "done"
    /\ rows' = IF task[t].kind = "write" THEN rows \union {task[t].row} ELSE rows
    /\ conn' = Released(task[t].conn)
    /\ task' = [task EXCEPT ![t].phase = IF task[t].left > 1 THEN "acquiring" ELSE "ok",
                            ![t].left = @ - 1, ![t].conn = None, ![t].applied = None]
    /\ UNCHANGED <<begun, faults>>

-----------------------------------------------------------------------------
(* Failures. *)

\* The client goes away, or a statement fails: the future is dropped, and with it
\* the transaction.  A connection that was lost is replaced by a new session.
Drop(t) ==
    /\ task[t].phase \in {"acquiring", "begun", "set", "ready", "done"}
    /\ faults < MaxFaults
    /\ faults' = faults + 1
    /\ Ended(t, "dropped")
    /\ conn' = IF task[t].conn = None THEN conn ELSE Released(task[t].conn)
    /\ UNCHANGED <<rows, begun>>

-----------------------------------------------------------------------------
Init ==
    /\ rows = {}
    /\ conn = [c \in Connections |-> IdleConnection]
    /\ task = [t \in Tasks |-> NewTask(None, "idle", None, None, 0, None)]
    /\ begun = 0 /\ faults = 0

Steps(t) == SetConfig(t) \/ Verify(t) \/ Select(t) \/ Insert(t) \/ Commit(t)

Next == \E t \in Tasks :
    \/ Request(t) \/ Write(t)
    \/ Acquire(t) \/ Steps(t)
    \/ SetConfigSwallowed(t) \/ Drop(t)

Spec == Init /\ [][Next]_vars

\* Every statement is answered, and the pool serves the tasks that wait for a
\* connection in order.
FairSpec == Spec /\ \A t \in Tasks : WF_vars(Steps(t)) /\ SF_vars(Acquire(t))

-----------------------------------------------------------------------------
(* Properties. *)

Connection == [session : Tenants \union {None}, local : Tenants \union {None},
               holder : Tasks \union {None}]

Task == [phase : Finished \union {"acquiring", "begun", "set", "ready", "done"},
         kind : {"read", "write", None}, tenant : Tenants \union {None},
         token : Tokens \union {None}, left : Int, conn : Connections \union {None},
         applied : Tenants \union {None}, row : Row \union {None},
         view : SUBSET Row, committed : SUBSET Row]

\* Every variable keeps its type.
TypeOK ==
    /\ rows \subseteq Row
    /\ conn \in [Connections -> Connection]
    /\ task \in [Tasks -> Task]
    /\ begun \in 0..MaxTasks /\ faults \in 0..MaxFaults

\* A request that is answered was answered with the rows of the tenant its
\* credential establishes: all that were committed when its statement ran, and
\* no other tenant's, whichever connection it got and whatever ran there before.
AnswersAreTheTenantsRows ==
    \A t \in Tasks :
        (task[t].kind = "read" /\ task[t].phase = "ok") =>
            /\ task[t].token # None /\ ContextOf[task[t].token] # None
            /\ task[t].view = {row \in task[t].committed :
                                  row.tenant_id = ContextOf[task[t].token].tenant_id}

\* A pooled connection carries no tenant between transactions, after commits,
\* rejections and dropped requests alike ("a connection returned to the pool
\* cannot carry one tenant's context into another tenant's query", db.rs).
IdleConnectionsCarryNoTenant ==
    \A c \in Connections : conn[c].holder = None => current_setting(c) = None

\* No transaction stores a row for a tenant other than the one it was begun for.
RowsBelongToTheirWriter == \A row \in rows : row.by = row.tenant_id

\* Every request that reaches the pool is answered or dropped, however few
\* connections there are: no handler holds one while it waits for another.
EveryTaskEnds == \A t \in Tasks : task[t].phase = "acquiring" ~> task[t].phase \in Finished

-----------------------------------------------------------------------------
(***************************************************************************)
(* The inductive invariant behind the safety properties.  A session never  *)
(* carries a tenant; a transaction's setting is None until it is set and   *)
(* the task's own tenant once it is verified; and a connection is held by  *)
(* the one task whose transaction runs on it.                              *)
(***************************************************************************)
InTransaction(t) == task[t].phase \in {"begun", "set", "ready", "done"}

ConnectionInv(c) ==
    /\ conn[c].session = None
    /\ conn[c].holder = None => conn[c].local = None
    /\ conn[c].holder # None => task[conn[c].holder].conn = c

HoldsConnection(t) ==
    /\ ~InTransaction(t) => task[t].conn = None
    /\ InTransaction(t) => /\ task[t].conn \in Connections
                           /\ conn[task[t].conn].holder = t

SettingInv(t) ==
    /\ task[t].phase = "begun" => conn[task[t].conn].local = None
    /\ task[t].phase = "set" => task[t].applied = conn[task[t].conn].local
    /\ task[t].phase \in {"ready", "done"} => conn[task[t].conn].local = task[t].tenant

\* The task acts for the tenant that its credential or its caller names.
IdentityInv(t) ==
    /\ InTransaction(t) \/ task[t].phase = "acquiring" => task[t].tenant \in Tenants
    /\ task[t].kind = "write" => task[t].row \in Row /\ task[t].row.by = task[t].tenant
    /\ task[t].kind = "read" /\ (InTransaction(t) \/ task[t].phase \in {"acquiring", "ok"}) =>
          /\ task[t].token # None /\ ContextOf[task[t].token] # None
          /\ task[t].tenant = ContextOf[task[t].token].tenant_id

OutcomeInv(t) ==
    /\ task[t].kind = "write" /\ task[t].phase = "done" =>
          task[t].row.tenant_id = task[t].tenant
    /\ task[t].kind = "read" /\ task[t].phase \in {"done", "ok"} =>
          task[t].view = {row \in task[t].committed : row.tenant_id = task[t].tenant}

TaskInv(t) == HoldsConnection(t) /\ SettingInv(t) /\ IdentityInv(t) /\ OutcomeInv(t)

IndInv ==
    /\ TypeOK
    /\ \A c \in Connections : ConnectionInv(c)
    /\ \A t \in Tasks : TaskInv(t)
    /\ RowsBelongToTheirWriter

=============================================================================
