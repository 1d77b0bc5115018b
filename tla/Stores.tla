------------------------------- MODULE Stores -------------------------------
(***************************************************************************)
(* The two implementations of store.Store under the same calls, as in      *)
(* internal/store/store_contract_test.go: a server's calls are made on a   *)
(* SQLite and on a Postgres database, both migrated, and the answers are   *)
(* compared.  Methods touch the tables of one group only, so a behaviour   *)
(* calls the methods of one group, in any order and with any arguments.    *)
(* Each is one statement, except AcquireLease and RenewLease, which read   *)
(* the row back: LeaseStore has their statements apart, as group "lease".  *)
(***************************************************************************)
EXTENDS LeaseStore, Migrations, SequencesExt

CONSTANTS
  Ids,         \* identifiers and names of rows: numbers, in the order of sorting
               \* (of bytes in SQLite; of a Postgres database whose collation is C)
  MaxRows,     \* bound: the rows of a table without a bound of its own
  DefaultLimit, MaxLimit   \* 100 and 500 in the code

Lite == INSTANCE SQLiteStore WITH ForeignKeys <- FALSE
Pg == INSTANCE PostgresStore WITH ForeignKeys <- TRUE

ASSUME StoresAssumption ==
  /\ Ids \subseteq Nat \ {0}
  /\ MaxRows \in Nat /\ DefaultLimit \in Nat /\ MaxLimit \in Nat

VARIABLES
  lite, pg,   \* the databases
  group,      \* the group of methods that is called
  refused,    \* Postgres has refused a call for a foreign key
  parted      \* history: calls answered differently until then

storeVars == <<lite, pg, group, refused, parted>>
\* leaseVars: the row of one lease under overlapping calls
allVars == <<leaseVars, migrationVars, storeVars>>

Groups == {"lease", "sandboxes", "quotas", "admin audit", "operation audit", "workers", "leases",
           "templates", "specs", "builds", "registry", "tenants", "policies"}

StoresInit ==
  /\ LeaseInit
  /\ MigrationsInit
  /\ lite = Lite!Empty(Lite!schema)
  /\ pg = Pg!Empty(Pg!schema)
  /\ group = "none"
  /\ refused = FALSE
  /\ parted = {}

-----------------------------------------------------------------------------
\* one call on both stores, with the answer of each
Call(name, a, b) ==
  /\ lite' = a.db
  /\ pg' = b.db
  /\ refused' = (refused \/ b.err = "foreign key")
  /\ parted' = IF refused' \/ (a.err = b.err /\ a.rows = b.rows) THEN parted ELSE parted \cup {name}

SandboxMethods ==
  \/ \E id \in Ids, owner \in {"a", "b"}, vm \in {"", "vm"}, until \in {1, 2} :
       LET sb == [id |-> id, state |-> "running", owner_id |-> owner, vm_id |-> vm,
                  worker_id |-> IF vm = "" THEN "w" ELSE "", tenant_id |-> "", expires_at |-> until]
       IN Call("CreateSandbox", Lite!CreateSandbox(lite, sb), Pg!CreateSandbox(pg, sb))
  \/ \E id \in Ids : Call("GetSandbox", Lite!GetSandbox(lite, id), Pg!GetSandbox(pg, id))
  \/ Call("ListSandboxes", Lite!ListSandboxes(lite), Pg!ListSandboxes(pg))
  \/ \E id \in Ids, state \in {"running", "error"} :
       Call("UpdateSandboxState", Lite!UpdateSandboxState(lite, id, state), Pg!UpdateSandboxState(pg, id, state))
  \/ \E id \in Ids, until \in {1, 2} :
       Call("UpdateSandboxExpiresAt", Lite!UpdateSandboxExpiresAt(lite, id, until),
                                      Pg!UpdateSandboxExpiresAt(pg, id, until))
  \/ \E id \in Ids : Call("DeleteSandbox", Lite!DeleteSandbox(lite, id), Pg!DeleteSandbox(pg, id))
  \/ \E t \in {1, 2, 3} :
       Call("ListExpiredSandboxes", Lite!ListExpiredSandboxes(lite, t), Pg!ListExpiredSandboxes(pg, t))
  \/ \E owner \in {"a", "b"} :
       Call("ListSandboxesByOwner", Lite!ListSandboxesByOwner(lite, owner), Pg!ListSandboxesByOwner(pg, owner))
  \/ \E vm \in {"", "vm"} :
       Call("CountSandboxesByVM", Lite!CountSandboxesByVM(lite, vm), Pg!CountSandboxesByVM(pg, vm))
  \/ \E id \in Ids :
       /\ Len(lite.exec_logs) < MaxRows
       /\ LET log == [sandbox_id |-> id, command |-> "c"]
          IN Call("CreateExecLog", Lite!CreateExecLog(lite, log), Pg!CreateExecLog(pg, log))
  \/ \E id \in Ids : Call("ListExecLogs", Lite!ListExecLogs(lite, id), Pg!ListExecLogs(pg, id))

QuotaMethods ==
  \/ \E id \in Ids, n \in {1, 2} :
       LET quota == [owner_id |-> id, max_sandboxes |-> n]
       IN Call("SaveOwnerQuota", Lite!SaveOwnerQuota(lite, quota), Pg!SaveOwnerQuota(pg, quota))
  \/ \E id \in Ids : Call("GetOwnerQuota", Lite!GetOwnerQuota(lite, id), Pg!GetOwnerQuota(pg, id))
  \/ Call("ListOwnerQuotas", Lite!ListOwnerQuotas(lite), Pg!ListOwnerQuotas(pg))
  \/ \E id \in Ids : Call("DeleteOwnerQuota", Lite!DeleteOwnerQuota(lite, id), Pg!DeleteOwnerQuota(pg, id))
  \/ \E id \in Ids, c \in {1, 2} :
       LET cfg == [name |-> id, config |-> c]
       IN Call("SaveProviderConfig", Lite!SaveProviderConfig(lite, cfg), Pg!SaveProviderConfig(pg, cfg))
  \/ \E id \in Ids : Call("GetProviderConfig", Lite!GetProviderConfig(lite, id), Pg!GetProviderConfig(pg, id))
  \/ Call("ListProviderConfigs", Lite!ListProviderConfigs(lite), Pg!ListProviderConfigs(pg))

\* a path is its letters and their case
Paths == {<<"p", "lower">>, <<"p", "upper">>, <<"q", "lower">>}

AdminAuditMethods ==
  \/ \E actor \in {"x", "y"}, path \in Paths, tenant \in {"", "t"}, at_ \in {1, 2} :
       /\ Len(lite.admin_audit_logs) < MaxRows
       /\ LET rec == [actor |-> actor, path |-> path, tenant_id |-> tenant, created_at |-> at_]
          IN Call("CreateAdminAudit", Lite!CreateAdminAudit(lite, rec), Pg!CreateAdminAudit(pg, rec))
  \/ \E limit \in {0, 1, MaxLimit + 1}, actor \in {"", "x"}, path \in Paths \cup {<<>>}, tenant \in {"", "t"} :
       LET query == [limit |-> limit, actor |-> actor, path |-> path, tenant_id |-> tenant]
       IN Call(IF path = <<>> THEN "ListAdminAudit" ELSE "ListAdminAudit of a path",
               Lite!ListAdminAudit(lite, query, DefaultLimit, MaxLimit),
               Pg!ListAdminAudit(pg, query, DefaultLimit, MaxLimit))
  \/ \E t \in {1, 2, 3} :
       Call("DeleteAdminAuditBefore", Lite!DeleteAdminAuditBefore(lite, t), Pg!DeleteAdminAuditBefore(pg, t))

OperationAuditMethods ==
  \/ \E actor \in {"x", "y"}, action \in {"spawn", "exec"}, tenant \in {"", "t"} :
       /\ Len(lite.operation_audit_logs) < MaxRows
       /\ LET rec == [actor |-> actor, action |-> action, tenant_id |-> tenant]
          IN Call("CreateOperationAudit", Lite!CreateOperationAudit(lite, rec), Pg!CreateOperationAudit(pg, rec))
  \/ \E limit \in {0, 1, MaxLimit + 1}, actor \in {"", "x"}, action \in {"", "exec"}, tenant \in {"", "t"} :
       LET query == [limit |-> limit, actor |-> actor, action |-> action, tenant_id |-> tenant]
       IN Call("ListOperationAudit", Lite!ListOperationAudit(lite, query, DefaultLimit, MaxLimit),
                                     Pg!ListOperationAudit(pg, query, DefaultLimit, MaxLimit))

WorkerMethods ==
  \/ \E id \in Ids, status \in {"online", "draining"} :
       LET rec == [id |-> id, status |-> status]
       IN Call("SaveWorker", Lite!SaveWorker(lite, rec), Pg!SaveWorker(pg, rec))
  \/ \E id \in Ids : Call("GetWorker", Lite!GetWorker(lite, id), Pg!GetWorker(pg, id))
  \/ Call("ListWorkers", Lite!ListWorkers(lite), Pg!ListWorkers(pg))
  \/ \E id \in Ids : Call("DeleteWorker", Lite!DeleteWorker(lite, id), Pg!DeleteWorker(pg, id))

\* generations are counted to MaxRows only
LeaseMethods ==
  \/ \E id \in Ids \cup {0}, h \in 0 .. 2, t \in 0 .. 1, now \in {1, 2} :
       /\ \A r \in ToSet(lite.leases) : r.generation < MaxRows
       /\ \/ Call("AcquireLease", Lite!AcquireLease(lite, id, h, t, now),
                                  Pg!AcquireLease(pg, id, h, t, now))
          \/ Call("RenewLease", Lite!RenewLease(lite, id, h, t, now),
                                Pg!RenewLease(pg, id, h, t, now))
  \/ \E id \in Ids : Call("GetLease", Lite!GetLease(lite, id), Pg!GetLease(pg, id))
  \/ Call("ListLeases", Lite!ListLeases(lite), Pg!ListLeases(pg))
  \/ \E id \in Ids, h \in 1 .. 2 :
       Call("ReleaseLease", Lite!ReleaseLease(lite, id, h), Pg!ReleaseLease(pg, id, h))

TemplateMethods ==
  \/ \E id \in Ids, image \in {"i", "j"} :
       LET t == [name |-> id, image |-> image]
       IN \/ Call("CreateTemplate", Lite!CreateTemplate(lite, t), Pg!CreateTemplate(pg, t))
          \/ Call("UpdateTemplate", Lite!UpdateTemplate(lite, t), Pg!UpdateTemplate(pg, t))
  \/ \E id \in Ids : Call("GetTemplate", Lite!GetTemplate(lite, id), Pg!GetTemplate(pg, id))
  \/ Call("ListTemplates", Lite!ListTemplates(lite), Pg!ListTemplates(pg))
  \/ \E id \in Ids : Call("DeleteTemplate", Lite!DeleteTemplate(lite, id), Pg!DeleteTemplate(pg, id))

SpecMethods ==
  \/ \E id \in Ids, owner \in {"a", "b"}, name \in {"n", "m"} :
       LET spec == [id |-> id, owner_id |-> owner, name |-> name]
       IN \/ Call("CreateEnvironmentSpec", Lite!CreateEnvironmentSpec(lite, spec), Pg!CreateEnvironmentSpec(pg, spec))
          \/ Call("UpdateEnvironmentSpec", Lite!UpdateEnvironmentSpec(lite, spec), Pg!UpdateEnvironmentSpec(pg, spec))
  \/ \E id \in Ids :
       Call("GetEnvironmentSpec", Lite!GetEnvironmentSpec(lite, id), Pg!GetEnvironmentSpec(pg, id))
  \/ \E owner \in {"a", "b"} :
       Call("ListEnvironmentSpecs", Lite!ListEnvironmentSpecs(lite, owner), Pg!ListEnvironmentSpecs(pg, owner))
  \/ \E id \in Ids :
       Call("DeleteEnvironmentSpec", Lite!DeleteEnvironmentSpec(lite, id), Pg!DeleteEnvironmentSpec(pg, id))

\* builds and artifacts under one specification, which may be gone
BuildMethods ==
  \/ LET spec == [id |-> 1, owner_id |-> "a", name |-> "n"]
     IN \/ Call("CreateEnvironmentSpec", Lite!CreateEnvironmentSpec(lite, spec), Pg!CreateEnvironmentSpec(pg, spec))
        \/ Call("DeleteEnvironmentSpec", Lite!DeleteEnvironmentSpec(lite, 1), Pg!DeleteEnvironmentSpec(pg, 1))
  \/ \E id \in Ids, status \in {"queued", "ready"} :
       LET build == [id |-> id, spec_id |-> 1, status |-> status]
       IN \/ Call("CreateEnvironmentBuild", Lite!CreateEnvironmentBuild(lite, build),
                                            Pg!CreateEnvironmentBuild(pg, build))
          \/ Call("UpdateEnvironmentBuild", Lite!UpdateEnvironmentBuild(lite, build),
                                            Pg!UpdateEnvironmentBuild(pg, build))
  \/ \E id \in Ids :
       Call("GetEnvironmentBuild", Lite!GetEnvironmentBuild(lite, id), Pg!GetEnvironmentBuild(pg, id))
  \/ Call("ListEnvironmentBuilds", Lite!ListEnvironmentBuilds(lite, 1), Pg!ListEnvironmentBuilds(pg, 1))
  \/ \E id \in Ids, target \in {"local", "ghcr"}, status \in {"pending", "pushed"} :
       /\ Len(lite.environment_artifacts) < MaxRows
       /\ LET artifact == [build_id |-> id, target |-> target, status |-> status]
          IN Call("SaveEnvironmentArtifact", Lite!SaveEnvironmentArtifact(lite, artifact),
                                             Pg!SaveEnvironmentArtifact(pg, artifact))
  \/ \E id \in Ids :
       Call("ListEnvironmentArtifacts", Lite!ListEnvironmentArtifacts(lite, id), Pg!ListEnvironmentArtifacts(pg, id))

RegistryMethods ==
  \/ \E id \in Ids, owner \in {"a", "b"}, user \in {"u", "v"}, secret \in {"s", "t"} :
       LET conn == [id |-> id, owner_id |-> owner, username |-> user, secret_ref |-> secret]
       IN Call("SaveRegistryConnection", Lite!SaveRegistryConnection(lite, conn), Pg!SaveRegistryConnection(pg, conn))
  \/ \E id \in Ids :
       Call("GetRegistryConnection", Lite!GetRegistryConnection(lite, id), Pg!GetRegistryConnection(pg, id))
  \/ \E owner \in {"a", "b"} :
       Call("ListRegistryConnections", Lite!ListRegistryConnections(lite, owner), Pg!ListRegistryConnections(pg, owner))
  \/ \E id \in Ids :
       Call("DeleteRegistryConnection", Lite!DeleteRegistryConnection(lite, id), Pg!DeleteRegistryConnection(pg, id))

TenantMethods ==
  \/ \E id \in Ids, name \in {"n", "m"} :
       LET t == [id |-> id, name |-> name]
       IN \/ Call("CreateTenant", Lite!CreateTenant(lite, t), Pg!CreateTenant(pg, t))
          \/ Call("UpdateTenant", Lite!UpdateTenant(lite, t), Pg!UpdateTenant(pg, t))
  \/ \E id \in Ids : Call("GetTenant", Lite!GetTenant(lite, id), Pg!GetTenant(pg, id))
  \/ Call("ListTenants", Lite!ListTenants(lite), Pg!ListTenants(pg))
  \/ \E id \in Ids : Call("DeleteTenant", Lite!DeleteTenant(lite, id), Pg!DeleteTenant(pg, id))
  \/ \E id \in Ids, user \in {"u", "v"}, role \in {"viewer", "admin"} :
       /\ Len(lite.tenant_members) < MaxRows
       /\ LET m == [tenant_id |-> id, user_id |-> user, role |-> role]
          IN Call("SaveTenantMember", Lite!SaveTenantMember(lite, m), Pg!SaveTenantMember(pg, m))
  \/ \E id \in Ids, user \in {"u", "v"} :
       \/ Call("GetTenantMember", Lite!GetTenantMember(lite, id, user), Pg!GetTenantMember(pg, id, user))
       \/ Call("DeleteTenantMember", Lite!DeleteTenantMember(lite, id, user), Pg!DeleteTenantMember(pg, id, user))
  \/ \E id \in Ids : Call("ListTenantMembers", Lite!ListTenantMembers(lite, id), Pg!ListTenantMembers(pg, id))

PolicyMethods ==
  \/ \E id \in Ids, tenant \in {"", "t"}, type \in {"image", "network"}, priority \in {1, 2} :
       LET p == [id |-> id, tenant_id |-> tenant, resource_type |-> type, priority |-> priority]
       IN Call("CreatePolicy", Lite!CreatePolicy(lite, p), Pg!CreatePolicy(pg, p))
  \/ \E id \in Ids : Call("GetPolicy", Lite!GetPolicy(lite, id), Pg!GetPolicy(pg, id))
  \/ \E tenant \in {"", "t"}, type \in {"", "image"} :
       LET query == [tenant_id |-> tenant, resource_type |-> type]
       IN Call("ListPolicies", Lite!ListPolicies(lite, query), Pg!ListPolicies(pg, query))
  \/ \E id \in Ids : Call("DeletePolicy", Lite!DeletePolicy(lite, id), Pg!DeletePolicy(pg, id))

-----------------------------------------------------------------------------
Serving == \A s \in Servers : stage[s] = "up"

\* the servers start; none fails once the stores are called
Migrate == group = "none" /\ MigrationsNext /\ UNCHANGED <<leaseVars, storeVars>>

Choose ==
  /\ Serving
  /\ group = "none"
  /\ group' \in Groups
  /\ failures' = MaxFailures
  /\ UNCHANGED <<leaseVars, applied, ran, stage, version, lite, pg, refused, parted>>

GroupCalls ==
  \/ group = "sandboxes" /\ SandboxMethods
  \/ group = "quotas" /\ QuotaMethods
  \/ group = "admin audit" /\ AdminAuditMethods
  \/ group = "operation audit" /\ OperationAuditMethods
  \/ group = "workers" /\ WorkerMethods
  \/ group = "leases" /\ LeaseMethods
  \/ group = "templates" /\ TemplateMethods
  \/ group = "specs" /\ SpecMethods
  \/ group = "builds" /\ BuildMethods
  \/ group = "registry" /\ RegistryMethods
  \/ group = "tenants" /\ TenantMethods
  \/ group = "policies" /\ PolicyMethods

\* overlapping calls on one lease, statement by statement (LeaseStore)
LeaseCalls == group = "lease" /\ LeaseNext /\ UNCHANGED <<migrationVars, storeVars>>

\* the databases differ once a call was refused, and are no longer compared
StoreCalls == ~refused /\ GroupCalls /\ UNCHANGED <<leaseVars, migrationVars, group>>

StoresNext == Migrate \/ Choose \/ LeaseCalls \/ StoreCalls

StoresSpec == StoresInit /\ [][StoresNext]_allVars /\ MigrationsFairness

-----------------------------------------------------------------------------
(* The two stores answer every call alike, error and rows, after any calls *)
(* before it, until Postgres has refused a row that refers to one that is  *)
(* not there, and but for the case of letters in the path that an audit    *)
(* query looks for (sqlite.go and postgres.go, method by method).          *)
SameAnswers == parted \subseteq {"ListAdminAudit of a path"}

=============================================================================
