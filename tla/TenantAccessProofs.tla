------------------------- MODULE TenantAccessProofs -------------------------
(***************************************************************************)
(* Tenants stay apart for any number of tenants, tasks, pooled connections *)
(* and faults.                                                             *)
(***************************************************************************)
EXTENDS TenantAccess, TLAPS

-----------------------------------------------------------------------------
(* What a step of one task leaves alone. *)

\* Only task t moves, and only on a connection that is its own or free.
StepOf(t) ==
    /\ rows' \subseteq Row
    /\ conn' \in [Connections -> Connection]
    /\ task' \in [Tasks -> Task]
    /\ begun' \in 0..MaxTasks /\ faults' \in 0..MaxFaults
    /\ \A u \in Tasks \ {t} : task'[u] = task[u]
    /\ \A c \in Connections : conn[c].holder \in Tasks \ {t} => conn'[c] = conn[c]

\* A task keeps its invariant while another one moves: what it relies on is its
\* own record and a connection that it holds.
LEMMA OtherTask ==
  ASSUME IndInv, NEW t \in Tasks, StepOf(t), NEW u \in Tasks \ {t}
  PROVE  TaskInv(u)'
<1>1. TaskInv(u) /\ task'[u] = task[u]
  BY DEF IndInv, StepOf
<1>2. InTransaction(u) => conn'[task[u].conn] = conn[task[u].conn]
  BY <1>1 DEF TaskInv, HoldsConnection, StepOf
<1>3. HoldsConnection(u)'
  BY <1>1, <1>2 DEF TaskInv, HoldsConnection, InTransaction
<1>4. SettingInv(u)'
  BY <1>1, <1>2 DEF TaskInv, SettingInv, InTransaction
<1>5. IdentityInv(u)' /\ OutcomeInv(u)'
  BY <1>1 DEF TaskInv, IdentityInv, OutcomeInv, InTransaction
<1> QED BY <1>3, <1>4, <1>5 DEF TaskInv

LEMMA Combine ==
  ASSUME IndInv, NEW t \in Tasks, StepOf(t), TaskInv(t)',
         \A c \in Connections : ConnectionInv(c)', RowsBelongToTheirWriter'
  PROVE  IndInv'
<1>1. \A u \in Tasks : TaskInv(u)'
  BY OtherTask
<1>2. TypeOK'
  BY DEF StepOf, TypeOK
<1> QED BY <1>1, <1>2 DEF IndInv

\* The pool is untouched by a step that neither takes nor returns a connection.
LEMMA PoolKept ==
  ASSUME IndInv, NEW t \in Tasks, StepOf(t), task'[t].conn = task[t].conn, conn' = conn
  PROVE  \A c \in Connections : ConnectionInv(c)'
<1> SUFFICES ASSUME NEW c \in Connections PROVE ConnectionInv(c)'
  OBVIOUS
<1>1. ConnectionInv(c) /\ conn[c].holder \in Tasks \union {None}
  BY DEF IndInv, TypeOK, Connection
<1>2. conn[c].holder # None => task'[conn[c].holder].conn = task[conn[c].holder].conn
  BY <1>1 DEF StepOf
<1> QED BY <1>1, <1>2 DEF ConnectionInv

\* A task holds one connection at most.
LEMMA OneConnection ==
  ASSUME IndInv, NEW t \in Tasks, NEW c \in Connections, conn[c].holder = t
  PROVE  task[t].conn = c
<1>1. t # None
  BY TenantAccessAssumption
<1> QED BY <1>1 DEF IndInv, ConnectionInv

\* After COMMIT, ROLLBACK or a drop the connection is as good as new.
LEMMA PoolReleased ==
  ASSUME IndInv, NEW t \in Tasks, StepOf(t), InTransaction(t),
         conn' = Released(task[t].conn)
  PROVE  \A c \in Connections : ConnectionInv(c)'
<1> SUFFICES ASSUME NEW c \in Connections PROVE ConnectionInv(c)'
  OBVIOUS
<1>1. ConnectionInv(c) /\ conn[c] \in Connection /\ conn \in [Connections -> Connection]
  BY DEF IndInv, TypeOK
<1>2. CASE c = task[t].conn
  <2>1. conn'[c].session = conn[c].session /\ conn'[c].local = None /\ conn'[c].holder = None
    BY <1>1, <1>2 DEF Released, Connection
  <2> QED BY <1>1, <2>1 DEF ConnectionInv
<1>3. CASE c # task[t].conn
  <2>1. conn'[c] = conn[c]
    BY <1>1, <1>3 DEF Released
  <2>2. conn[c].holder # t
    BY <1>3, OneConnection
  <2>3. conn[c].holder \in Tasks \union {None}
    BY <1>1 DEF Connection
  <2>4. conn[c].holder # None => task'[conn[c].holder] = task[conn[c].holder]
    BY <2>2, <2>3 DEF StepOf
  <2> QED BY <1>1, <2>1, <2>4 DEF ConnectionInv
<1> QED BY <1>2, <1>3

\* A released connection was the task's own.
LEMMA ReleasedIsOwn ==
  ASSUME IndInv, NEW t \in Tasks, InTransaction(t), conn' = Released(task[t].conn)
  PROVE  /\ conn' \in [Connections -> Connection]
         /\ \A c \in Connections : conn[c].holder \in Tasks \ {t} => conn'[c] = conn[c]
<1>1. task[t].conn \in Connections /\ conn[task[t].conn].holder = t
  BY DEF IndInv, TaskInv, HoldsConnection
<1>2. conn \in [Connections -> Connection]
  BY DEF IndInv, TypeOK
<1>3. conn'[task[t].conn] \in Connection
  BY <1>1, <1>2 DEF Released, Connection
<1>4. \A c \in Connections : c # task[t].conn => conn'[c] = conn[c]
  BY <1>2 DEF Released
<1>5. conn' \in [Connections -> Connection]
  BY <1>2, <1>3, <1>4 DEF Released
<1> QED BY <1>1, <1>4, <1>5

-----------------------------------------------------------------------------
(* Every action keeps the invariant. *)

\* A task that is about to begin holds nothing.
LEMMA RequestKeeps ==
  ASSUME IndInv, NEW t \in Tasks, Request(t)
  PROVE  IndInv'
<1>0. rows' = rows /\ conn' = conn /\ faults' = faults /\ begun' \in 0..MaxTasks
  BY TenantAccessAssumption DEF Request, IndInv, TypeOK
<1>1. PICK token \in Tokens \union {None}, route \in Routes :
        LET ctx == IF token = None THEN None ELSE ContextOf[token]
            phase == IF ctx = None THEN "unauthenticated"
                     ELSE IF "Read" \notin ctx.scopes THEN "forbidden" ELSE "acquiring"
            tenant == IF phase = "acquiring" THEN ctx.tenant_id ELSE None
        IN  task' = [task EXCEPT ![t] =
                        NewTask("read", phase, tenant, token, TransactionsOf[route], None)]
  BY DEF Request
<1>2. PICK ctx : ctx = (IF token = None THEN None ELSE ContextOf[token])
  OBVIOUS
<1>3. PICK phase, tenant :
        /\ phase = (IF ctx = None THEN "unauthenticated"
                    ELSE IF "Read" \notin ctx.scopes THEN "forbidden" ELSE "acquiring")
        /\ tenant = (IF phase = "acquiring" THEN ctx.tenant_id ELSE None)
  OBVIOUS
<1>4. TransactionsOf[route] \in Int
  BY TenantAccessAssumption
<1>5. ctx \in TenantContext \union {None}
  BY <1>2, TenantAccessAssumption
<1>6. /\ phase \in {"unauthenticated", "forbidden", "acquiring"}
      /\ tenant \in Tenants \union {None}
      /\ phase = "acquiring" =>
            /\ token # None /\ ContextOf[token] # None
            /\ tenant = ContextOf[token].tenant_id /\ tenant \in Tenants
  BY <1>2, <1>3, <1>5 DEF TenantContext
<1>7. task' = [task EXCEPT ![t] =
                NewTask("read", phase, tenant, token, TransactionsOf[route], None)]
  BY <1>1, <1>2, <1>3
<1>8. task \in [Tasks -> Task] /\ TypeOK /\ RowsBelongToTheirWriter
  BY DEF IndInv, TypeOK
<1>9. task'[t] = [phase |-> phase, kind |-> "read", tenant |-> tenant, token |-> token,
                  left |-> TransactionsOf[route], conn |-> None, applied |-> None,
                  row |-> None, view |-> {}, committed |-> {}]
  BY <1>7, <1>8 DEF NewTask
<1>10. task'[t] \in Task
  BY <1>4, <1>6, <1>9 DEF Task, Finished
<1>11. StepOf(t)
  BY <1>0, <1>7, <1>8, <1>10 DEF StepOf, TypeOK
<1>12. TaskInv(t)'
  BY <1>6, <1>9 DEF TaskInv, HoldsConnection, SettingInv, IdentityInv, OutcomeInv, InTransaction
<1>13. task[t].conn = None
  BY DEF Request, Finished, IndInv, TaskInv, HoldsConnection, InTransaction
<1>14. \A c \in Connections : ConnectionInv(c)'
  BY <1>0, <1>9, <1>11, <1>13, PoolKept
<1> QED BY <1>0, <1>8, <1>11, <1>12, <1>14, Combine DEF RowsBelongToTheirWriter

LEMMA WriteKeeps ==
  ASSUME IndInv, NEW t \in Tasks, Write(t)
  PROVE  IndInv'
<1>0. rows' = rows /\ conn' = conn /\ faults' = faults /\ begun' \in 0..MaxTasks
  BY TenantAccessAssumption DEF Write, IndInv, TypeOK
<1>1. PICK tenant \in Tenants, column \in Tenants, id \in Rows :
        task' = [task EXCEPT ![t] = NewTask("write", "acquiring", tenant, None, 1,
                   [tenant_id |-> column, id |-> id, by |-> tenant])]
  BY DEF Write
<1>2. PICK row : row = [tenant_id |-> column, id |-> id, by |-> tenant]
  OBVIOUS
<1>3. row \in Row /\ row.by = tenant
  BY <1>2 DEF Row
<1>4. task \in [Tasks -> Task] /\ TypeOK /\ RowsBelongToTheirWriter
  BY DEF IndInv, TypeOK
<1>5. task' = [task EXCEPT ![t] = NewTask("write", "acquiring", tenant, None, 1, row)]
  BY <1>1, <1>2
<1>6. task'[t] = [phase |-> "acquiring", kind |-> "write", tenant |-> tenant, token |-> None,
                  left |-> 1, conn |-> None, applied |-> None, row |-> row,
                  view |-> {}, committed |-> {}]
  BY <1>4, <1>5 DEF NewTask
<1>7. task'[t] \in Task
  BY <1>3, <1>6 DEF Task
<1>8. StepOf(t)
  BY <1>0, <1>4, <1>5, <1>7 DEF StepOf, TypeOK
<1>9. TaskInv(t)'
  BY <1>3, <1>6 DEF TaskInv, HoldsConnection, SettingInv, IdentityInv, OutcomeInv, InTransaction
<1>10. task[t].conn = None
  BY DEF Write, Finished, IndInv, TaskInv, HoldsConnection, InTransaction
<1>11. \A c \in Connections : ConnectionInv(c)'
  BY <1>0, <1>6, <1>8, <1>10, PoolKept
<1> QED BY <1>0, <1>4, <1>8, <1>9, <1>11, Combine DEF RowsBelongToTheirWriter

\* BEGIN runs on a connection that carries nothing.
LEMMA AcquireKeeps ==
  ASSUME IndInv, NEW t \in Tasks, Acquire(t)
  PROVE  IndInv'
<1>1. PICK c \in Connections :
        /\ conn[c].holder = None
        /\ conn' = [conn EXCEPT ![c].holder = t]
        /\ task' = [task EXCEPT ![t].phase = "begun", ![t].conn = c]
  BY DEF Acquire
<1>2. task \in [Tasks -> Task] /\ conn \in [Connections -> Connection] /\ TypeOK
      /\ RowsBelongToTheirWriter /\ TaskInv(t) /\ t # None
  BY TenantAccessAssumption DEF IndInv, TypeOK
<1>3. /\ conn'[c] = [conn[c] EXCEPT !.holder = t]
      /\ \A d \in Connections : d # c => conn'[d] = conn[d]
      /\ conn' \in [Connections -> Connection]
  BY <1>1, <1>2 DEF Connection
<1>4. /\ task'[t] = [task[t] EXCEPT !.phase = "begun", !.conn = c]
      /\ \A u \in Tasks \ {t} : task'[u] = task[u]
      /\ task' \in [Tasks -> Task]
  <2>1. [task[t] EXCEPT !.phase = "begun", !.conn = c] \in Task
    BY <1>2 DEF Task
  <2>2. task' = [task EXCEPT ![t] = [task[t] EXCEPT !.phase = "begun", !.conn = c]]
    BY <1>1
  <2> QED BY <1>2, <2>1, <2>2
<1>5. StepOf(t)
  <2>1. \A d \in Connections : conn[d].holder \in Tasks \ {t} => conn'[d] = conn[d]
    BY <1>1, <1>3, TenantAccessAssumption
  <2> QED BY <1>2, <1>3, <1>4, <2>1 DEF StepOf, Acquire, TypeOK
<1>6. /\ conn[c].session = None /\ conn[c].local = None
      /\ conn'[c].session = None /\ conn'[c].local = None /\ conn'[c].holder = t
  <2>1. conn[c].session = None /\ conn[c].local = None
    BY <1>1 DEF IndInv, ConnectionInv
  <2> QED BY <1>2, <1>3, <2>1 DEF Connection
<1>7. /\ task'[t].phase = "begun" /\ task'[t].conn = c
      /\ task'[t].kind = task[t].kind /\ task'[t].tenant = task[t].tenant
      /\ task'[t].token = task[t].token /\ task'[t].row = task[t].row
  BY <1>2, <1>4 DEF Task
<1>8. TaskInv(t)'
  BY <1>2, <1>6, <1>7
  DEF Acquire, TaskInv, HoldsConnection, SettingInv, IdentityInv, OutcomeInv, InTransaction
<1>9. ASSUME NEW d \in Connections PROVE ConnectionInv(d)'
  <2>1. CASE d = c
    BY <1>6, <1>7, <2>1, <1>2 DEF ConnectionInv
  <2>2. CASE d # c
    <3>1. conn'[d] = conn[d] /\ ConnectionInv(d) /\ conn[d].holder \in Tasks \union {None}
      BY <1>2, <1>3, <2>2 DEF IndInv, Connection
    <3>2. task[t].conn = None
      BY <1>2 DEF Acquire, TaskInv, HoldsConnection, InTransaction
    <3>3. conn[d].holder # t
      BY <3>2, OneConnection, TenantAccessAssumption
    <3> QED BY <1>4, <3>1, <3>3 DEF ConnectionInv
  <2> QED BY <2>1, <2>2
<1> QED BY <1>2, <1>5, <1>8, <1>9, Combine DEF Acquire, RowsBelongToTheirWriter

LEMMA SetConfigKeeps ==
  ASSUME IndInv, NEW t \in Tasks, SetConfig(t)
  PROVE  IndInv'
<1>1. task \in [Tasks -> Task] /\ conn \in [Connections -> Connection] /\ TypeOK
      /\ RowsBelongToTheirWriter /\ TaskInv(t)
  BY DEF IndInv, TypeOK
<1>2. PICK c \in Connections : c = task[t].conn /\ conn[c].holder = t
  BY <1>1 DEF SetConfig, TaskInv, HoldsConnection, InTransaction
<1>3. task[t].tenant \in Tenants
  BY <1>1 DEF SetConfig, TaskInv, IdentityInv, InTransaction
<1>4. conn' = [conn EXCEPT ![c] = [conn[c] EXCEPT !.local = task[t].tenant]]
  BY <1>2 DEF SetConfig
<1>5. /\ conn'[c].session = conn[c].session /\ conn'[c].local = task[t].tenant
      /\ conn'[c].holder = t
      /\ \A d \in Connections : d # c => conn'[d] = conn[d]
      /\ conn' \in [Connections -> Connection]
  BY <1>1, <1>2, <1>3, <1>4 DEF Connection
<1>6. task' = [task EXCEPT ![t] = [task[t] EXCEPT !.phase = "set", !.applied = task[t].tenant]]
  BY DEF SetConfig
<1>7. /\ task'[t].phase = "set" /\ task'[t].applied = task[t].tenant
      /\ task'[t].conn = c /\ task'[t].kind = task[t].kind
      /\ task'[t].tenant = task[t].tenant /\ task'[t].token = task[t].token
      /\ task'[t].row = task[t].row
      /\ \A u \in Tasks \ {t} : task'[u] = task[u]
      /\ task' \in [Tasks -> Task]
  <2>1. PICK new : new = [task[t] EXCEPT !.phase = "set", !.applied = task[t].tenant]
    OBVIOUS
  <2>2. new \in Task /\ new.phase = "set" /\ new.applied = task[t].tenant /\ new.conn = task[t].conn
                        /\ new.kind = task[t].kind /\ new.tenant = task[t].tenant
                        /\ new.token = task[t].token /\ new.row = task[t].row
    BY <1>1, <1>3, <2>1 DEF Task
  <2>3. task' = [task EXCEPT ![t] = new]
    BY <1>6, <2>1
  <2> QED BY <1>1, <1>2, <2>2, <2>3
<1>8. StepOf(t)
  <2>1. \A d \in Connections : conn[d].holder \in Tasks \ {t} => conn'[d] = conn[d]
    BY <1>2, <1>5
  <2> QED BY <1>1, <1>5, <1>7, <2>1 DEF StepOf, SetConfig, TypeOK
<1>9. TaskInv(t)'
  BY <1>1, <1>2, <1>5, <1>7
  DEF SetConfig, TaskInv, HoldsConnection, SettingInv, IdentityInv, OutcomeInv, InTransaction
<1>10. ASSUME NEW d \in Connections PROVE ConnectionInv(d)'
  <2>1. ConnectionInv(d) /\ conn[d].holder \in Tasks \union {None} /\ t # None
    BY <1>1, TenantAccessAssumption DEF IndInv, Connection
  <2>2. CASE d = c
    BY <1>5, <1>7, <2>1, <2>2 DEF ConnectionInv
  <2>3. CASE d # c
    <3>1. conn'[d] = conn[d]
      BY <1>5, <2>3
    <3>2. conn[d].holder # t
      BY <1>2, <2>3, OneConnection
    <3> QED BY <1>7, <2>1, <3>1, <3>2 DEF ConnectionInv
  <2> QED BY <2>2, <2>3
<1> QED BY <1>1, <1>8, <1>9, <1>10, Combine DEF SetConfig, RowsBelongToTheirWriter

\* A setting that was swallowed reads back as what the connection carries: nothing.
LEMMA SetConfigSwallowedKeeps ==
  ASSUME IndInv, NEW t \in Tasks, SetConfigSwallowed(t)
  PROVE  IndInv'
<1>1. task \in [Tasks -> Task] /\ conn \in [Connections -> Connection] /\ TypeOK
      /\ RowsBelongToTheirWriter /\ TaskInv(t)
  BY DEF IndInv, TypeOK
<1>2. PICK c \in Connections : c = task[t].conn /\ conn[c].holder = t
  BY <1>1 DEF SetConfigSwallowed, TaskInv, HoldsConnection, InTransaction
<1>3. conn[c].session = None /\ conn[c].local = None /\ current_setting(c) = None
  BY <1>1, <1>2
  DEF SetConfigSwallowed, IndInv, ConnectionInv, TaskInv, SettingInv, current_setting
<1>4. task' = [task EXCEPT ![t] = [task[t] EXCEPT !.phase = "set", !.applied = None]]
  BY <1>2, <1>3 DEF SetConfigSwallowed
<1>5. /\ task'[t].phase = "set" /\ task'[t].applied = None
      /\ task'[t].conn = c /\ task'[t].kind = task[t].kind
      /\ task'[t].tenant = task[t].tenant /\ task'[t].token = task[t].token
      /\ task'[t].row = task[t].row
      /\ \A u \in Tasks \ {t} : task'[u] = task[u]
      /\ task' \in [Tasks -> Task]
  <2>1. PICK new : new = [task[t] EXCEPT !.phase = "set", !.applied = None]
    OBVIOUS
  <2>2. new \in Task /\ new.phase = "set" /\ new.applied = None /\ new.conn = task[t].conn
                        /\ new.kind = task[t].kind /\ new.tenant = task[t].tenant
                        /\ new.token = task[t].token /\ new.row = task[t].row
    BY <1>1, <2>1 DEF Task
  <2>3. task' = [task EXCEPT ![t] = new]
    BY <1>4, <2>1
  <2> QED BY <1>1, <1>2, <2>2, <2>3
<1>6. /\ rows' = rows /\ conn' = conn /\ begun' = begun /\ faults' \in 0..MaxFaults
  BY <1>1, TenantAccessAssumption DEF SetConfigSwallowed, TypeOK
<1>7. StepOf(t)
  BY <1>1, <1>5, <1>6 DEF StepOf, TypeOK
<1>8. TaskInv(t)'
  BY <1>1, <1>2, <1>3, <1>5, <1>6
  DEF SetConfigSwallowed, TaskInv, HoldsConnection, SettingInv, IdentityInv, OutcomeInv,
      InTransaction
<1>9. \A c_1 \in Connections : ConnectionInv(c_1)'
  BY <1>2, <1>5, <1>6, <1>7, PoolKept
<1> QED BY <1>1, <1>6, <1>7, <1>8, <1>9, Combine DEF RowsBelongToTheirWriter

\* A transaction that is given up leaves neither a setting nor a holder.
LEMMA EndedKeeps ==
  ASSUME IndInv, NEW t \in Tasks, InTransaction(t),
         NEW answer \in {"internal", "dropped"}, Ended(t, answer),
         conn' = Released(task[t].conn), rows' = rows,
         begun' \in 0..MaxTasks, faults' \in 0..MaxFaults
  PROVE  IndInv'
<1>1. task \in [Tasks -> Task] /\ TypeOK /\ RowsBelongToTheirWriter /\ TaskInv(t)
  BY DEF IndInv, TypeOK
<1>2. task' = [task EXCEPT ![t] = [task[t] EXCEPT !.phase = answer, !.conn = None,
                                                  !.applied = None]]
  BY DEF Ended
<1>3. /\ task'[t].phase = answer /\ task'[t].conn = None /\ task'[t].applied = None
      /\ task'[t].kind = task[t].kind
      /\ task'[t].tenant = task[t].tenant /\ task'[t].row = task[t].row
      /\ \A u \in Tasks \ {t} : task'[u] = task[u]
      /\ task' \in [Tasks -> Task]
  <2>1. PICK new : new = [task[t] EXCEPT !.phase = answer, !.conn = None, !.applied = None]
    OBVIOUS
  <2>2. new \in Task /\ new.phase = answer /\ new.conn = None /\ new.applied = None
                        /\ new.kind = task[t].kind /\ new.tenant = task[t].tenant
                        /\ new.token = task[t].token /\ new.row = task[t].row
    BY <1>1, <2>1 DEF Task, Finished
  <2>3. task' = [task EXCEPT ![t] = new]
    BY <1>2, <2>1
  <2> QED BY <1>1, <2>2, <2>3
<1>4. StepOf(t)
  BY <1>1, <1>3, ReleasedIsOwn DEF StepOf, TypeOK
<1>5. TaskInv(t)'
  BY <1>1, <1>3
  DEF TaskInv, HoldsConnection, SettingInv, IdentityInv, OutcomeInv, InTransaction
<1>6. \A c \in Connections : ConnectionInv(c)'
  BY <1>4, PoolReleased
<1> QED BY <1>1, <1>4, <1>5, <1>6, Combine DEF RowsBelongToTheirWriter

\* A transaction goes on to its statement only under its own tenant's setting.
LEMMA VerifyKeeps ==
  ASSUME IndInv, NEW t \in Tasks, Verify(t)
  PROVE  IndInv'
<1>1. task \in [Tasks -> Task] /\ TypeOK /\ RowsBelongToTheirWriter /\ TaskInv(t)
      /\ InTransaction(t)
  BY DEF IndInv, TypeOK, Verify, InTransaction
<1>2. rows' = rows /\ begun' = begun /\ faults' = faults
  BY DEF Verify
<1>3. CASE task[t].applied = task[t].tenant
  <2>1. conn' = conn /\ task' = [task EXCEPT ![t] = [task[t] EXCEPT !.phase = "ready"]]
    BY <1>3 DEF Verify
  <2>2. /\ task'[t].phase = "ready" /\ task'[t].conn = task[t].conn
        /\ task'[t].kind = task[t].kind /\ task'[t].tenant = task[t].tenant
        /\ task'[t].token = task[t].token /\ task'[t].row = task[t].row
        /\ \A u \in Tasks \ {t} : task'[u] = task[u]
        /\ task' \in [Tasks -> Task]
    BY <1>1, <2>1 DEF Task
  <2>3. StepOf(t)
    BY <1>1, <1>2, <2>1, <2>2 DEF StepOf, TypeOK
  <2>4. TaskInv(t)'
    BY <1>1, <1>3, <2>1, <2>2
    DEF Verify, TaskInv, HoldsConnection, SettingInv, IdentityInv, OutcomeInv, InTransaction
  <2>5. \A c \in Connections : ConnectionInv(c)'
    BY <2>1, <2>2, <2>3, PoolKept
  <2> QED BY <1>1, <1>2, <2>3, <2>4, <2>5, Combine DEF RowsBelongToTheirWriter
<1>4. CASE task[t].applied # task[t].tenant
  BY <1>1, <1>2, <1>4, EndedKeeps DEF Verify, TypeOK
<1> QED BY <1>3, <1>4

\* The rows that a SELECT sees are the committed rows of the task's tenant.
LEMMA SelectKeeps ==
  ASSUME IndInv, NEW t \in Tasks, Select(t)
  PROVE  IndInv'
<1>1. task \in [Tasks -> Task] /\ TypeOK /\ RowsBelongToTheirWriter /\ TaskInv(t)
      /\ InTransaction(t) /\ rows \subseteq Row
  BY DEF IndInv, TypeOK, Select, InTransaction
<1>2. PICK view : view = {row \in rows : row.tenant_id = task[t].tenant}
  OBVIOUS
<1>3. Visible(task[t].conn) = view
  <2>1. conn[task[t].conn].local = task[t].tenant /\ task[t].tenant # None
    BY <1>1, TenantAccessAssumption DEF Select, TaskInv, SettingInv, IdentityInv, InTransaction
  <2> QED BY <1>2, <2>1 DEF Visible, current_setting
<1>4. view \subseteq Row
  BY <1>1, <1>2
<1>5. task' = [task EXCEPT ![t] = [task[t] EXCEPT !.phase = "done", !.view = view,
                                                  !.committed = rows]]
  BY <1>3 DEF Select
<1>6. /\ task'[t].phase = "done" /\ task'[t].view = view /\ task'[t].committed = rows
      /\ task'[t].conn = task[t].conn /\ task'[t].kind = task[t].kind
      /\ task'[t].tenant = task[t].tenant /\ task'[t].token = task[t].token
      /\ task'[t].row = task[t].row
      /\ \A u \in Tasks \ {t} : task'[u] = task[u]
      /\ task' \in [Tasks -> Task]
  <2>1. PICK new : new = [task[t] EXCEPT !.phase = "done", !.view = view, !.committed = rows]
    OBVIOUS
  <2>2. new \in Task /\ new.phase = "done" /\ new.view = view /\ new.committed = rows
                        /\ new.conn = task[t].conn
                        /\ new.kind = task[t].kind /\ new.tenant = task[t].tenant
                        /\ new.token = task[t].token /\ new.row = task[t].row
    BY <1>1, <1>4, <2>1 DEF Task
  <2>3. task' = [task EXCEPT ![t] = new]
    BY <1>5, <2>1
  <2> QED BY <1>1, <2>2, <2>3
<1>7. rows' = rows /\ conn' = conn /\ begun' = begun /\ faults' = faults
  BY DEF Select
<1>8. StepOf(t)
  BY <1>1, <1>6, <1>7 DEF StepOf, TypeOK
<1>9. TaskInv(t)'
  BY <1>1, <1>2, <1>6, <1>7
  DEF Select, TaskInv, HoldsConnection, SettingInv, IdentityInv, OutcomeInv, InTransaction
<1>10. \A c \in Connections : ConnectionInv(c)'
  BY <1>6, <1>7, <1>8, PoolKept
<1> QED BY <1>1, <1>7, <1>8, <1>9, <1>10, Combine DEF RowsBelongToTheirWriter

\* An INSERT that the policy accepts is of a row of the task's tenant.
LEMMA InsertKeeps ==
  ASSUME IndInv, NEW t \in Tasks, Insert(t)
  PROVE  IndInv'
<1>1. task \in [Tasks -> Task] /\ TypeOK /\ RowsBelongToTheirWriter /\ TaskInv(t)
      /\ InTransaction(t)
  BY DEF IndInv, TypeOK, Insert, InTransaction
<1>2. rows' = rows /\ begun' = begun /\ faults' = faults
  BY DEF Insert
<1>3. CASE MayWrite(task[t].conn, task[t].row)
  <2>1. conn' = conn /\ task' = [task EXCEPT ![t] = [task[t] EXCEPT !.phase = "done"]]
    BY <1>3 DEF Insert
  <2>2. /\ task'[t].phase = "done" /\ task'[t].conn = task[t].conn
        /\ task'[t].kind = task[t].kind /\ task'[t].tenant = task[t].tenant
        /\ task'[t].token = task[t].token /\ task'[t].row = task[t].row
        /\ \A u \in Tasks \ {t} : task'[u] = task[u]
        /\ task' \in [Tasks -> Task]
    BY <1>1, <2>1 DEF Task
  <2>3. StepOf(t)
    BY <1>1, <1>2, <2>1, <2>2 DEF StepOf, TypeOK
  <2>4. task[t].row.tenant_id = task[t].tenant
    <3>1. conn[task[t].conn].local = task[t].tenant /\ task[t].tenant # None
      BY <1>1, TenantAccessAssumption
      DEF Insert, TaskInv, SettingInv, IdentityInv, InTransaction
    <3> QED BY <1>3, <3>1 DEF MayWrite, current_setting
  <2>5. TaskInv(t)'
    BY <1>1, <2>1, <2>2, <2>4
    DEF Insert, TaskInv, HoldsConnection, SettingInv, IdentityInv, OutcomeInv, InTransaction
  <2>6. \A c \in Connections : ConnectionInv(c)'
    BY <2>1, <2>2, <2>3, PoolKept
  <2> QED BY <1>1, <1>2, <2>3, <2>5, <2>6, Combine DEF RowsBelongToTheirWriter
<1>4. CASE ~MayWrite(task[t].conn, task[t].row)
  BY <1>1, <1>2, <1>4, EndedKeeps DEF Insert, TypeOK
<1> QED BY <1>3, <1>4

LEMMA CommitKeeps ==
  ASSUME IndInv, NEW t \in Tasks, Commit(t)
  PROVE  IndInv'
<1>1. task \in [Tasks -> Task] /\ TypeOK /\ RowsBelongToTheirWriter /\ TaskInv(t)
      /\ InTransaction(t) /\ rows \subseteq Row
  BY DEF IndInv, TypeOK, Commit, InTransaction
<1>2. PICK answer : answer = (IF task[t].left > 1 THEN "acquiring" ELSE "ok")
  OBVIOUS
<1>3. task' = [task EXCEPT ![t] = [task[t] EXCEPT !.phase = answer, !.left = task[t].left - 1,
                                                  !.conn = None, !.applied = None]]
  BY <1>2 DEF Commit
<1>4. /\ task'[t].phase \in {"acquiring", "ok"} /\ task'[t].conn = None
      /\ task'[t].kind = task[t].kind /\ task'[t].tenant = task[t].tenant
      /\ task'[t].token = task[t].token /\ task'[t].row = task[t].row
      /\ task'[t].view = task[t].view /\ task'[t].committed = task[t].committed
      /\ \A u \in Tasks \ {t} : task'[u] = task[u]
      /\ task' \in [Tasks -> Task]
  <2>1. PICK left : left = task[t].left - 1
    OBVIOUS
  <2>2. task[t] \in Task /\ left \in Int /\ answer \in {"acquiring", "ok"}
    BY <1>1, <1>2, <2>1 DEF Task
  <2>3. PICK new : new = [task[t] EXCEPT !.phase = answer, !.left = left,
                                         !.conn = None, !.applied = None]
    OBVIOUS
  <2>4. new \in Task /\ new.phase \in {"acquiring", "ok"} /\ new.conn = None
                        /\ new.view = task[t].view /\ new.committed = task[t].committed
                        /\ new.kind = task[t].kind /\ new.tenant = task[t].tenant
                        /\ new.token = task[t].token /\ new.row = task[t].row
    BY <2>3, <2>2 DEF Task, Finished
  <2>5. task' = [task EXCEPT ![t] = new]
    BY <1>3, <2>1, <2>3
  <2> QED BY <1>1, <2>4, <2>5
<1>5. conn' = Released(task[t].conn) /\ begun' = begun /\ faults' = faults
  BY DEF Commit
<1>6. rows' \subseteq Row /\ RowsBelongToTheirWriter'
  <2>1. CASE task[t].kind = "write"
    <3>1. rows' = rows \union {task[t].row}
      BY <2>1 DEF Commit
    <3>2. task[t].row \in Row /\ task[t].row.by = task[t].row.tenant_id
      BY <1>1, <2>1 DEF Commit, TaskInv, IdentityInv, OutcomeInv
    <3> QED BY <1>1, <3>1, <3>2 DEF RowsBelongToTheirWriter
  <2>2. CASE task[t].kind # "write"
    BY <1>1, <2>2 DEF Commit, RowsBelongToTheirWriter
  <2> QED BY <2>1, <2>2
<1>7. StepOf(t)
  BY <1>1, <1>4, <1>5, <1>6, ReleasedIsOwn DEF StepOf, TypeOK
<1>8. TaskInv(t)'
  BY <1>1, <1>4
  DEF Commit, TaskInv, HoldsConnection, SettingInv, IdentityInv, OutcomeInv, InTransaction
<1>9. \A c \in Connections : ConnectionInv(c)'
  BY <1>1, <1>5, <1>7, PoolReleased
<1> QED BY <1>6, <1>7, <1>8, <1>9, Combine

LEMMA DropKeeps ==
  ASSUME IndInv, NEW t \in Tasks, Drop(t)
  PROVE  IndInv'
<1>1. task \in [Tasks -> Task] /\ TypeOK /\ RowsBelongToTheirWriter /\ TaskInv(t)
  BY DEF IndInv, TypeOK
<1>2. rows' = rows /\ begun' \in 0..MaxTasks /\ faults' \in 0..MaxFaults
  BY <1>1, TenantAccessAssumption DEF Drop, TypeOK
<1>3. CASE InTransaction(t)
  <2>1. task[t].conn # None
    BY <1>1, <1>3, TenantAccessAssumption DEF TaskInv, HoldsConnection
  <2> QED BY <1>2, <1>3, <2>1, EndedKeeps DEF Drop
<1>4. CASE ~InTransaction(t)
  <2>1. task[t].conn = None /\ conn' = conn
    BY <1>1, <1>4 DEF Drop, TaskInv, HoldsConnection
  <2>2. task' = [task EXCEPT ![t] = [task[t] EXCEPT !.phase = "dropped", !.conn = None,
                                                    !.applied = None]]
    BY DEF Drop, Ended
  <2>3. /\ task'[t].phase = "dropped" /\ task'[t].conn = None
        /\ task'[t].kind = task[t].kind
        /\ task'[t].tenant = task[t].tenant /\ task'[t].row = task[t].row
        /\ \A u \in Tasks \ {t} : task'[u] = task[u]
        /\ task' \in [Tasks -> Task]
    <3>1. PICK new : new = [task[t] EXCEPT !.phase = "dropped", !.conn = None, !.applied = None]
      OBVIOUS
    <3>2. new \in Task /\ new.phase = "dropped" /\ new.conn = None
                       /\ new.kind = task[t].kind /\ new.tenant = task[t].tenant
                       /\ new.row = task[t].row
      BY <1>1, <3>1 DEF Task, Finished
    <3>3. task' = [task EXCEPT ![t] = new]
      BY <2>2, <3>1
    <3> QED BY <1>1, <3>2, <3>3
  <2>4. StepOf(t)
    BY <1>1, <1>2, <2>1, <2>3 DEF StepOf, TypeOK
  <2>5. TaskInv(t)'
    BY <1>1, <2>3
    DEF TaskInv, HoldsConnection, SettingInv, IdentityInv, OutcomeInv, InTransaction
  <2>6. \A c \in Connections : ConnectionInv(c)'
    BY <2>1, <2>3, <2>4, PoolKept
  <2> QED BY <1>1, <1>2, <2>4, <2>5, <2>6, Combine DEF RowsBelongToTheirWriter
<1> QED BY <1>3, <1>4

-----------------------------------------------------------------------------
(* The theorems. *)

LEMMA InitInv == Init => IndInv
<1> SUFFICES ASSUME Init PROVE IndInv
  OBVIOUS
<1>1. TypeOK
  <2>1. NewTask(None, "idle", None, None, 0, None) \in Task
    BY DEF NewTask, Task, Finished
  <2>2. IdleConnection \in Connection
    BY DEF IdleConnection, Connection
  <2> QED BY <2>1, <2>2, TenantAccessAssumption DEF Init, TypeOK
<1>2. ASSUME NEW t \in Tasks PROVE TaskInv(t)
  <2>1. task[t].phase = "idle" /\ task[t].kind = None /\ task[t].conn = None
    BY DEF Init, NewTask
  <2>2. task[t].kind # "read" /\ task[t].kind # "write"
    BY <2>1, TenantAccessAssumption
  <2> QED BY <2>1, <2>2
      DEF TaskInv, HoldsConnection, SettingInv, IdentityInv, OutcomeInv, InTransaction
<1>3. \A c \in Connections : ConnectionInv(c)
  BY DEF Init, IdleConnection, ConnectionInv
<1>4. RowsBelongToTheirWriter
  BY DEF Init, RowsBelongToTheirWriter
<1> QED BY <1>1, <1>2, <1>3, <1>4 DEF IndInv

LEMMA StepInv == IndInv /\ [Next]_vars => IndInv'
<1> SUFFICES ASSUME IndInv, [Next]_vars PROVE IndInv'
  OBVIOUS
<1>1. CASE Next
  <2>1. PICK t \in Tasks : \/ Request(t) \/ Write(t) \/ Acquire(t) \/ Steps(t)
                           \/ SetConfigSwallowed(t) \/ Drop(t)
    BY <1>1 DEF Next
  <2>2. CASE Request(t)
    BY <2>2, RequestKeeps
  <2>3. CASE Write(t)
    BY <2>3, WriteKeeps
  <2>4. CASE Acquire(t)
    BY <2>4, AcquireKeeps
  <2>5. CASE Steps(t)
    BY <2>5, SetConfigKeeps, VerifyKeeps, SelectKeeps, InsertKeeps, CommitKeeps DEF Steps
  <2>6. CASE SetConfigSwallowed(t)
    BY <2>6, SetConfigSwallowedKeeps
  <2>7. CASE Drop(t)
    BY <2>7, DropKeeps
  <2> QED BY <2>1, <2>2, <2>3, <2>4, <2>5, <2>6, <2>7
<1>2. CASE UNCHANGED vars
  BY <1>2
  DEF vars, IndInv, TypeOK, ConnectionInv, TaskInv, HoldsConnection, SettingInv, IdentityInv,
      OutcomeInv, InTransaction, RowsBelongToTheirWriter
<1> QED BY <1>1, <1>2

LEMMA Invariance == Spec => []IndInv
BY InitInv, StepInv, PTL DEF Spec

\* However many tenants share the pool, a connection between two transactions is
\* under no tenant's policy.
THEOREM PooledConnectionsAreClean == Spec => []IdleConnectionsCarryNoTenant
<1>1. IndInv => IdleConnectionsCarryNoTenant
  BY DEF IndInv, ConnectionInv, IdleConnectionsCarryNoTenant, current_setting
<1> QED BY <1>1, Invariance, PTL

\* No write lands under another tenant than the one its transaction was begun for,
\* whatever tenant_id its row is bound to.
THEOREM WritesStayWithTheirTenant == Spec => []RowsBelongToTheirWriter
<1>1. IndInv => RowsBelongToTheirWriter
  BY DEF IndInv
<1> QED BY <1>1, Invariance, PTL

\* Every answer is exactly what was committed for the tenant of its credential, for
\* every schedule of requests over the pool and every setting that is swallowed.
THEOREM AnswersStayWithTheirTenant == Spec => []AnswersAreTheTenantsRows
<1>1. IndInv => AnswersAreTheTenantsRows
  <2> SUFFICES ASSUME IndInv, NEW t \in Tasks, task[t].kind = "read", task[t].phase = "ok"
               PROVE  /\ task[t].token # None /\ ContextOf[task[t].token] # None
                      /\ task[t].view = {row \in task[t].committed :
                              row.tenant_id = ContextOf[task[t].token].tenant_id}
    BY DEF AnswersAreTheTenantsRows
  <2>1. IdentityInv(t) /\ OutcomeInv(t)
    BY DEF IndInv, TaskInv
  <2> QED BY <2>1 DEF IdentityInv, OutcomeInv
<1> QED BY <1>1, Invariance, PTL

=============================================================================
