---------------------------- MODULE PostgresStore ----------------------------
(***************************************************************************)
(* internal/store/postgres.go and postgres_migrations.go: the other        *)
(* implementation of the Store interface, method by method as in           *)
(* SQLiteStore.  Every statement goes through rebindPostgres, which        *)
(* numbers its placeholders, so the arguments stay in order.  Postgres     *)
(* enforces foreign keys, and its LIKE distinguishes the case of letters.  *)
(***************************************************************************)
EXTENDS SqlTables

Local == "local"   \* the worker of a sandbox that names none

-----------------------------------------------------------------------------
(* postgresMigrations: the schema they leave.                              *)

Migration1(s) ==
  CreateTable(CreateTable(CreateTable(s,
    "sandboxes", {"id", "state", "expires_at"}, {{"id"}}, {}),
    "exec_logs", {"sandbox_id", "command"}, {}, {[column |-> "sandbox_id", table |-> "sandboxes"]}),
    "provider_configs", {"name", "config"}, {{"name"}}, {})

Migration2(s) ==
  AddColumns(CreateTable(s, "templates", {"name", "image"}, {{"name"}}, {}), "sandboxes", {"template"})

Migration3(s) ==
  CreateTable(CreateTable(CreateTable(CreateTable(s,
    "environment_specs", {"id", "owner_id", "name"}, {{"id"}, {"owner_id", "name"}}, {}),
    "environment_builds", {"id", "spec_id", "status"}, {{"id"}},
      {[column |-> "spec_id", table |-> "environment_specs"]}),
    "environment_artifacts", {"build_id", "target", "status"}, {{"build_id", "target"}},
      {[column |-> "build_id", table |-> "environment_builds"]}),
    "registry_connections", {"id", "owner_id", "username", "secret_ref"},
      {{"id"}, {"owner_id", "username"}}, {})

Migration4(s) == AddColumns(s, "sandboxes", {"owner_id", "vm_id"})

Migration5(s) == CreateTable(s, "owner_quotas", {"owner_id", "max_sandboxes"}, {{"owner_id"}}, {})

Migration6(s) == CreateTable(s, "admin_audit_logs", {"actor", "path", "created_at"}, {}, {})

Migration7(s) == CreateTable(s, "operation_audit_logs", {"actor", "action"}, {}, {})

Migration8(s) == CreateTable(s, "workers", {"id", "status"}, {{"id"}}, {})

Migration9(s) == AddColumns(s, "sandboxes", {"worker_id"})

Migration10(s) ==
  CreateTable(s, "leases", {"resource_id", "holder_id", "generation", "expires_at"}, {{"resource_id"}}, {})

Migration11(s) ==
  AddColumns(AddColumns(AddColumns(CreateTable(CreateTable(CreateTable(s,
    "tenants", {"id", "name"}, {{"id"}}, {}),
    "tenant_members", {"tenant_id", "user_id", "role"}, {{"tenant_id", "user_id"}}, {}),
    "policies", {"id", "tenant_id", "resource_type", "priority"}, {{"id"}}, {}),
    "admin_audit_logs", {"tenant_id"}), "operation_audit_logs", {"tenant_id"}), "sandboxes", {"tenant_id"})

schema ==
  Migration11(Migration10(Migration9(Migration8(Migration7(Migration6(
    Migration5(Migration4(Migration3(Migration2(Migration1(NoTables)))))))))))

-----------------------------------------------------------------------------
(* Sandboxes.                                                              *)

CreateSandbox(db, sb) ==
  Done(InsertInto(schema, db, "sandboxes",
         IF sb.worker_id = "" THEN [sb EXCEPT !.worker_id = Local] ELSE sb))

GetSandbox(db, id) == One(db, Select(db, "sandboxes", LAMBDA r : r.id = id))

ListSandboxes(db) == Many(db, Reverse(Select(db, "sandboxes", LAMBDA r : r.state # "destroyed")))

UpdateSandboxState(db, id, state) ==
  DoneOrNotFound(Update(schema, db, "sandboxes", LAMBDA r : r.id = id, LAMBDA r : [r EXCEPT !.state = state]))

\* Faulty variant of UpdateSandboxExpiresAt: the state of the row is not looked at
ExtendAnySandbox(db, id, expiresAt) ==
  DoneOrNotFound(Update(schema, db, "sandboxes", LAMBDA r : r.id = id,
                        LAMBDA r : [r EXCEPT !.expires_at = expiresAt]))

UpdateSandboxExpiresAt(db, id, expiresAt) ==
  DoneOrNotFound(Update(schema, db, "sandboxes", LAMBDA r : r.id = id /\ r.state # "destroyed",
                        LAMBDA r : [r EXCEPT !.expires_at = expiresAt]))

DeleteSandbox(db, id) == UpdateSandboxState(db, id, "destroyed")

\* in no order
ListExpiredSandboxes(db, before) ==
  Many(db, ToSet(Select(db, "sandboxes", LAMBDA r : r.state # "destroyed" /\ r.expires_at < before)))

ListSandboxesByOwner(db, ownerID) ==
  Many(db, Reverse(Select(db, "sandboxes", LAMBDA r : r.state # "destroyed" /\ r.owner_id = ownerID)))

CountSandboxesByVM(db, vmID) ==
  Many(db, Len(Select(db, "sandboxes", LAMBDA r : r.state # "destroyed" /\ r.vm_id = vmID)))

-----------------------------------------------------------------------------
(* Quotas, audit logs, workers.                                            *)

SaveOwnerQuota(db, quota) ==
  Done(Upsert(schema, db, "owner_quotas", quota, {"owner_id"},
              LAMBDA r : [r EXCEPT !.max_sandboxes = quota.max_sandboxes]))

GetOwnerQuota(db, ownerID) == One(db, Select(db, "owner_quotas", LAMBDA r : r.owner_id = ownerID))

ListOwnerQuotas(db) == Many(db, OrderBy(db.owner_quotas, "owner_id"))

DeleteOwnerQuota(db, ownerID) ==
  DoneOrNotFound(DeleteFrom(schema, db, "owner_quotas", LAMBDA r : r.owner_id = ownerID))

CreateAdminAudit(db, rec) == Done(InsertInto(schema, db, "admin_audit_logs", rec))

\* path: the letters searched for and their case, matched as they are
ListAdminAudit(db, query, defaultLimit, maxLimit) ==
  LET limit == IF query.limit <= 0 THEN defaultLimit
               ELSE IF query.limit > maxLimit THEN maxLimit ELSE query.limit
      Where(r) == /\ query.actor # "" => r.actor = query.actor
                  /\ query.tenant_id # "" => r.tenant_id = query.tenant_id
      rows == Select(db, "admin_audit_logs", Where)
      found == IF query.path = <<>> THEN rows ELSE SelectSeq(rows, LAMBDA r : r.path = query.path)
  IN Many(db, Limit(Reverse(OrderBy(found, "created_at")), limit))

DeleteAdminAuditBefore(db, before) ==
  LET o == DeleteFrom(schema, db, "admin_audit_logs", LAMBDA r : r.created_at < before)
  IN Reply(o.db, o.err, o.n)

CreateOperationAudit(db, rec) == Done(InsertInto(schema, db, "operation_audit_logs", rec))

ListOperationAudit(db, query, defaultLimit, maxLimit) ==
  LET limit == IF query.limit <= 0 THEN defaultLimit
               ELSE IF query.limit > maxLimit THEN maxLimit ELSE query.limit
      Where(r) == /\ query.actor # "" => r.actor = query.actor
                  /\ query.action # "" => r.action = query.action
                  /\ query.tenant_id # "" => r.tenant_id = query.tenant_id
  IN Many(db, Limit(Reverse(Select(db, "operation_audit_logs", Where)), limit))

SaveWorker(db, rec) ==
  Done(Upsert(schema, db, "workers", rec, {"id"}, LAMBDA r : [r EXCEPT !.status = rec.status]))

GetWorker(db, id) == One(db, Select(db, "workers", LAMBDA r : r.id = id))

ListWorkers(db) == Many(db, OrderBy(db.workers, "id"))

DeleteWorker(db, id) == DoneOrNotFound(DeleteFrom(schema, db, "workers", LAMBDA r : r.id = id))

-----------------------------------------------------------------------------
(* Leases, at time now.  0 is no identifier.                               *)

GetLease(db, resourceID) == One(db, Select(db, "leases", LAMBDA r : r.resource_id = resourceID))

AcquireLease(db, resourceID, holderID, ttl, now) ==
  LET row == [resource_id |-> resourceID, holder_id |-> holderID, generation |-> 1, expires_at |-> now + ttl]
      Free(r) == r.expires_at <= now \/ r.holder_id = holderID
      held == \E r \in ToSet(db.leases) : r.resource_id = resourceID /\ ~Free(r)
      o == Upsert(schema, db, "leases", row, {"resource_id"},
                  LAMBDA r : [row EXCEPT !.generation = r.generation + 1])
  IN IF resourceID = 0 \/ holderID = 0 \/ ttl <= 0 \/ held THEN ConflictError(db)
     ELSE GetLease(o.db, resourceID)

RenewLease(db, resourceID, holderID, ttl, now) ==
  LET o == Update(schema, db, "leases",
             LAMBDA r : r.resource_id = resourceID /\ r.holder_id = holderID /\ r.expires_at > now,
             LAMBDA r : [r EXCEPT !.generation = @ + 1, !.expires_at = now + ttl])
  IN IF ttl <= 0 \/ o.n = 0 THEN ConflictError(db) ELSE GetLease(o.db, resourceID)

ListLeases(db) == Many(db, OrderBy(db.leases, "resource_id"))

ReleaseLease(db, resourceID, holderID) ==
  DoneOrNotFound(DeleteFrom(schema, db, "leases",
                   LAMBDA r : r.resource_id = resourceID /\ r.holder_id = holderID))

-----------------------------------------------------------------------------
(* Exec logs, provider configurations, templates.                          *)

CreateExecLog(db, log) == Done(InsertInto(schema, db, "exec_logs", log))

ListExecLogs(db, sandboxID) ==
  Many(db, Reverse(Select(db, "exec_logs", LAMBDA r : r.sandbox_id = sandboxID)))

GetProviderConfig(db, name) == One(db, Select(db, "provider_configs", LAMBDA r : r.name = name))

SaveProviderConfig(db, cfg) ==
  Done(Upsert(schema, db, "provider_configs", cfg, {"name"}, LAMBDA r : [r EXCEPT !.config = cfg.config]))

\* in no order
ListProviderConfigs(db) == Many(db, ToSet(db.provider_configs))

CreateTemplate(db, t) ==
  LET o == InsertInto(schema, db, "templates", t)
  IN IF IsConstraintError(o) THEN ConflictError(db) ELSE Done(o)

GetTemplate(db, name) == One(db, Select(db, "templates", LAMBDA r : r.name = name))

ListTemplates(db) == Many(db, OrderBy(db.templates, "name"))

UpdateTemplate(db, t) ==
  DoneOrNotFound(Update(schema, db, "templates", LAMBDA r : r.name = t.name, LAMBDA r : [r EXCEPT !.image = t.image]))

DeleteTemplate(db, name) == DoneOrNotFound(DeleteFrom(schema, db, "templates", LAMBDA r : r.name = name))

-----------------------------------------------------------------------------
(* Environment specs, builds, artifacts, registry connections.             *)

CreateEnvironmentSpec(db, spec) ==
  LET o == InsertInto(schema, db, "environment_specs", spec)
  IN IF IsConstraintError(o) THEN ConflictError(db) ELSE Done(o)

GetEnvironmentSpec(db, id) == One(db, Select(db, "environment_specs", LAMBDA r : r.id = id))

ListEnvironmentSpecs(db, ownerID) ==
  Many(db, Reverse(Select(db, "environment_specs", LAMBDA r : r.owner_id = ownerID)))

UpdateEnvironmentSpec(db, spec) ==
  DoneOrNotFound(Update(schema, db, "environment_specs", LAMBDA r : r.id = spec.id,
                        LAMBDA r : [r EXCEPT !.name = spec.name]))

DeleteEnvironmentSpec(db, id) ==
  DoneOrNotFound(DeleteFrom(schema, db, "environment_specs", LAMBDA r : r.id = id))

CreateEnvironmentBuild(db, build) == Done(InsertInto(schema, db, "environment_builds", build))

GetEnvironmentBuild(db, id) == One(db, Select(db, "environment_builds", LAMBDA r : r.id = id))

ListEnvironmentBuilds(db, specID) ==
  Many(db, Reverse(Select(db, "environment_builds", LAMBDA r : r.spec_id = specID)))

UpdateEnvironmentBuild(db, build) ==
  DoneOrNotFound(Update(schema, db, "environment_builds", LAMBDA r : r.id = build.id,
                        LAMBDA r : [r EXCEPT !.status = build.status]))

SaveEnvironmentArtifact(db, artifact) ==
  Done(Upsert(schema, db, "environment_artifacts", artifact, {"build_id", "target"},
              LAMBDA r : [r EXCEPT !.status = artifact.status]))

ListEnvironmentArtifacts(db, buildID) ==
  Many(db, Select(db, "environment_artifacts", LAMBDA r : r.build_id = buildID))

SaveRegistryConnection(db, conn) ==
  LET o == Upsert(schema, db, "registry_connections", conn, {"id"}, LAMBDA r : conn)
  IN IF IsConstraintError(o) THEN ConflictError(db) ELSE Done(o)

GetRegistryConnection(db, id) == One(db, Select(db, "registry_connections", LAMBDA r : r.id = id))

ListRegistryConnections(db, ownerID) ==
  Many(db, Reverse(Select(db, "registry_connections", LAMBDA r : r.owner_id = ownerID)))

DeleteRegistryConnection(db, id) ==
  DoneOrNotFound(DeleteFrom(schema, db, "registry_connections", LAMBDA r : r.id = id))

-----------------------------------------------------------------------------
(* Tenants, members, policies.  "" is no tenant.                           *)

CreateTenant(db, t) == Done(InsertInto(schema, db, "tenants", t))

GetTenant(db, id) == One(db, Select(db, "tenants", LAMBDA r : r.id = id))

ListTenants(db) == Many(db, Reverse(db.tenants))

UpdateTenant(db, t) ==
  DoneOrNotFound(Update(schema, db, "tenants", LAMBDA r : r.id = t.id, LAMBDA r : [r EXCEPT !.name = t.name]))

DeleteTenant(db, id) == DoneOrNotFound(DeleteFrom(schema, db, "tenants", LAMBDA r : r.id = id))

SaveTenantMember(db, m) ==
  Done(Upsert(schema, db, "tenant_members", m, {"tenant_id", "user_id"}, LAMBDA r : [r EXCEPT !.role = m.role]))

GetTenantMember(db, tenantID, userID) ==
  One(db, Select(db, "tenant_members", LAMBDA r : r.tenant_id = tenantID /\ r.user_id = userID))

ListTenantMembers(db, tenantID) == Many(db, Select(db, "tenant_members", LAMBDA r : r.tenant_id = tenantID))

DeleteTenantMember(db, tenantID, userID) ==
  DoneOrNotFound(DeleteFrom(schema, db, "tenant_members",
                   LAMBDA r : r.tenant_id = tenantID /\ r.user_id = userID))

CreatePolicy(db, p) == Done(InsertInto(schema, db, "policies", p))

GetPolicy(db, id) == One(db, Select(db, "policies", LAMBDA r : r.id = id))

\* a tenant's policies and the global ones, or the global ones alone
ListPolicies(db, query) ==
  LET Where(r) == /\ r.tenant_id \in {query.tenant_id, ""}
                  /\ query.resource_type # "" => r.resource_type = query.resource_type
  IN Many(db, OrderBy(Select(db, "policies", Where), "priority"))

DeletePolicy(db, id) == DoneOrNotFound(DeleteFrom(schema, db, "policies", LAMBDA r : r.id = id))
=============================================================================
