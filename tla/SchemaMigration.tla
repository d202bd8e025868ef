-------------------------- MODULE SchemaMigration --------------------------
(***************************************************************************)
(* The schema of the trading database and its 48 migrations (db.ts).  Each *)
(* migration is given by what the upgrade logic and later migrations can   *)
(* tell apart: the tables it creates, the tables it adds columns to, the   *)
(* tables it rebuilds (create a copy, move the rows, drop, rename), the    *)
(* unique indexes and triggers ("guards") it drops and creates, and the    *)
(* tables that foreign keys of its tables point to.  migrateDatabase runs  *)
(* the pending ones, each in a transaction of its own; the process may die *)
(* anywhere and open the file again.                                       *)
(***************************************************************************)
EXTENDS Naturals, Sequences, FiniteSets

CONSTANTS Starts,     \* schema versions an existing database may come with
          MaxOpens    \* bound on process starts

On(table, names) == {<<name, table>> : name \in names}

None == [tables |-> {}, rebuilt |-> {}, keeps |-> {}, alters |-> {}, drops |-> {},
         guards |-> {}, parents |-> {}, foreignKeysOff |-> FALSE,
         ifNotExists |-> FALSE, preflight |-> "none"]

bootstrap_core_tables ==
    [None EXCEPT !.tables = {"signals", "pending_tasks", "media_group_buffer",
                             "forwarding_stats", "incoming_messages"},
                 !.ifNotExists = TRUE]

durable_outbox_ai_provenance ==
    [None EXCEPT !.tables = {"ai_usage_daily"},
                 !.alters = {"pending_tasks", "signals"},
                 !.ifNotExists = TRUE]

integrity_indexes_and_stats ==
    [None EXCEPT !.guards = On("incoming_messages", {"uq_incoming_chat_message"}),
                 !.ifNotExists = TRUE]

integrated_trading_control_plane ==
    [None EXCEPT !.tables = {"trading_strategy_versions", "trading_accounts",
                             "trading_routes", "trading_runtime_state",
                             "trading_trade_intents", "trading_orders",
                             "trading_fills", "trading_positions",
                             "trading_risk_events",
                             "trading_reconciliation_runs"},
                 !.guards = On("trading_positions", {"uq_trading_active_account_symbol"})
                     \cup On("trading_strategy_versions", {"trg_trading_strategy_immutable"}),
                 !.parents = {"signals", "trading_accounts", "trading_orders",
                              "trading_strategy_versions",
                              "trading_trade_intents"},
                 !.ifNotExists = TRUE]

isolated_paper_exchange_state ==
    [None EXCEPT !.tables = {"trading_paper_accounts",
                             "trading_paper_markets", "trading_paper_orders",
                             "trading_paper_fills", "trading_paper_positions"},
                 !.parents = {"trading_accounts", "trading_paper_orders"},
                 !.ifNotExists = TRUE]

bind_external_trading_account_identity ==
    [None EXCEPT !.alters = {"trading_accounts"},
                 !.guards = On("trading_accounts", {"uq_trading_external_account_identity"}),
                 !.ifNotExists = TRUE]

managed_trading_signal_schemas ==
    [None EXCEPT !.tables = {"trading_signal_schemas"},
                 !.ifNotExists = TRUE]

versioned_dynamic_signal_contracts ==
    [None EXCEPT !.tables = {"trading_signal_contracts",
                             "trading_signal_contract_versions"},
                 !.alters = {"trading_signal_schemas"},
                 !.guards = On("trading_signal_contract_versions", {"trg_signal_contract_version_immutable"}),
                 !.parents = {"trading_signal_contracts"},
                 !.ifNotExists = TRUE]

channel_risk_equity_and_execution_analytics ==
    [None EXCEPT !.tables = {"trading_channel_risk_policies",
                             "trading_channel_risk_evaluations",
                             "trading_equity_snapshots",
                             "trading_execution_events"},
                 !.parents = {"trading_accounts", "trading_trade_intents"},
                 !.ifNotExists = TRUE]

mcp_agent_control_plane ==
    [None EXCEPT !.tables = {"mcp_agents", "mcp_agent_sessions",
                             "mcp_agent_actions", "mcp_control_requests",
                             "mcp_event_deliveries"},
                 !.parents = {"mcp_agent_sessions", "mcp_agents",
                              "trading_execution_events"},
                 !.ifNotExists = TRUE]

mcp_agent_retirement ==
    [None EXCEPT !.alters = {"mcp_agents"},
                 !.ifNotExists = TRUE]

exchange_streams_mcp_approvals_trade_journal ==
    [None EXCEPT !.tables = {"trading_exchange_events",
                             "trading_exchange_stream_state",
                             "trading_journal_entries", "mcp_agent_proposals"},
                 !.parents = {"mcp_agent_sessions", "mcp_agents",
                              "trading_accounts", "trading_trade_intents"},
                 !.ifNotExists = TRUE]

empty_factory_distribution ==
    [None EXCEPT !.ifNotExists = TRUE]

persistent_mcp_runtime_modes ==
    [None EXCEPT !.tables = {"mcp_runtime_state"},
                 !.ifNotExists = TRUE]

versioned_visual_workflows_and_account_capacity ==
    [None EXCEPT !.tables = {"workflow_resource_versions",
                             "workflow_revisions", "workflow_active_revision",
                             "workflow_execution_paths",
                             "workflow_signal_runs"},
                 !.rebuilt = {"trading_accounts", "trading_exchange_events",
                              "trading_trade_intents"},
                 !.keeps = {<<"trading_accounts", 6>>},
                 !.guards = On("trading_accounts", {"uq_trading_external_account_identity"})
                     \cup On("workflow_resource_versions", {"trg_workflow_resource_immutable"})
                     \cup On("workflow_revisions", {"uq_workflow_active_revision",
                                         "trg_workflow_revision_immutable"})
                     \cup On("trading_trade_intents", {"uq_trading_intent_execution_path"}),
                 !.parents = {"signals", "trading_accounts",
                              "trading_strategy_versions",
                              "workflow_execution_paths",
                              "workflow_resource_versions",
                              "workflow_revisions", "workflow_signal_runs"},
                 !.foreignKeysOff = TRUE]

path_isolated_adaptive_risk ==
    [None EXCEPT !.tables = {"workflow_adaptive_risk_state",
                             "workflow_adaptive_risk_evaluations"},
                 !.parents = {"trading_accounts",
                              "workflow_adaptive_risk_state"}]

account_protection_incidents ==
    [None EXCEPT !.tables = {"trading_account_incidents"},
                 !.guards = On("trading_account_incidents", {"uq_trading_account_incident_open"}),
                 !.parents = {"trading_accounts"}]

ordered_account_fallback_execution ==
    [None EXCEPT !.tables = {"trading_fallback_runs",
                             "trading_fallback_candidates"},
                 !.alters = {"workflow_execution_paths"},
                 !.parents = {"signals", "trading_accounts",
                              "trading_fallback_runs", "trading_trade_intents",
                              "workflow_execution_paths", "workflow_revisions",
                              "workflow_signal_runs"}]

dynamic_ccxt_exchange_registry ==
    [None EXCEPT !.rebuilt = {"trading_accounts", "trading_exchange_events",
                              "trading_trade_intents"},
                 !.keeps = {<<"trading_accounts", 6>>},
                 !.guards = On("trading_accounts", {"uq_trading_external_account_identity"})
                     \cup On("trading_trade_intents", {"uq_trading_intent_execution_path"}),
                 !.parents = {"signals", "trading_accounts",
                              "trading_strategy_versions",
                              "workflow_execution_paths", "workflow_revisions",
                              "workflow_signal_runs"},
                 !.foreignKeysOff = TRUE]

server_persistent_workflow_builder_history ==
    [None EXCEPT !.tables = {"workflow_builder_history"}]

trading_notification_and_telegram_viewer_support ==
    [None EXCEPT !.tables = {"trading_notification_events",
                             "telegram_viewer_test_events"}]

configurable_account_fallback_policy ==
    [None EXCEPT !.alters = {"trading_fallback_candidates",
                             "workflow_execution_paths"}]

builder_signal_schema_definitions ==
    [None EXCEPT !.alters = {"trading_signal_schemas"}]

retirable_trading_accounts ==
    [None EXCEPT !.alters = {"trading_accounts"}]

guarded_trading_mutation_identity ==
    [None EXCEPT !.alters = {"trading_accounts", "trading_orders",
                             "trading_trade_intents"},
                 !.guards = On("trading_orders", {"uq_trading_remote_order_identity",
                                         "trading_order_state_version"})
                     \cup On("trading_trade_intents", {"trading_intent_terminal_guard",
                                         "trading_intent_state_version"})
                     \cup On("trading_accounts", {"trading_account_state_version"}),
                 !.preflight = "remote-order-identities-v1"]

durable_remote_execution_evidence ==
    [None EXCEPT !.tables = {"trading_remote_evidence"},
                 !.parents = {"trading_accounts"}]

durable_exchange_operation_journal ==
    [None EXCEPT !.tables = {"trading_operations",
                             "trading_order_generations"},
                 !.guards = On("trading_operations", {"uq_trading_operation_inflight"}),
                 !.parents = {"trading_accounts", "trading_trade_intents"}]

exchange_acquisition_and_recovery_evidence ==
    [None EXCEPT !.tables = {"trading_acquisition_evidence"},
                 !.alters = {"trading_orders"},
                 !.parents = {"trading_accounts"}]

resumable_exchange_history ==
    [None EXCEPT !.tables = {"trading_history_checkpoints"},
                 !.parents = {"trading_accounts"}]

durable_entry_drain_intent ==
    [None EXCEPT !.alters = {"trading_orders"}]

persistent_emergency_exit ==
    [None EXCEPT !.alters = {"trading_positions"}]

durable_take_profit_allocation ==
    [None EXCEPT !.tables = {"trading_take_profit_allocations"},
                 !.parents = {"trading_trade_intents"}]

proven_flat_account_baseline ==
    [None EXCEPT !.tables = {"trading_account_baselines"},
                 !.alters = {"trading_remote_evidence"},
                 !.parents = {"trading_accounts"}]

durable_ingress_pinned_workflow_ai_reservations ==
    [None EXCEPT !.tables = {"incoming_work", "incoming_album_groups",
                             "signal_parser_attempts", "ai_usage_legacy",
                             "ai_usage_reservations"},
                 !.alters = {"pending_tasks", "signals"},
                 !.parents = {"signals", "workflow_revisions"}]

immutable_monetary_events_and_currency_valuations ==
    [None EXCEPT !.tables = {"trading_money_bindings", "trading_money_events",
                             "trading_money_valuations",
                             "trading_money_conflicts"},
                 !.parents = {"trading_accounts", "trading_money_events"}]

fill_accounting_provenance_and_replayable_money_projection ==
    [None EXCEPT !.tables = {"trading_accounting_pending",
                             "trading_accounting_projections",
                             "trading_accounting_projection_evidence"},
                 !.alters = {"trading_fills", "trading_positions"},
                 !.guards = On("trading_fills", {"trading_accounting_fill_insert",
                                         "trading_accounting_fill_update"})
                     \cup On("trading_orders", {"trading_accounting_order_update"})
                     \cup On("trading_positions", {"trading_accounting_position_insert"})
                     \cup On("trading_money_bindings", {"trading_accounting_binding_insert"})
                     \cup On("trading_money_valuations", {"trading_accounting_valuation_insert"})
                     \cup On("trading_money_conflicts", {"trading_accounting_conflict_insert"}),
                 !.parents = {"trading_accounts", "trading_trade_intents"}]

derived_current_risk_reservations_with_provenance ==
    [None EXCEPT !.tables = {"trading_risk_contracts",
                             "trading_risk_observations",
                             "trading_risk_current"},
                 !.guards = On("trading_risk_contracts", {"trading_risk_contract_immutable"})
                     \cup On("trading_risk_observations", {"trading_risk_observation_immutable"}),
                 !.parents = {"trading_accounts", "trading_risk_observations",
                              "trading_trade_intents"}]

durable_account_log_receipts_and_independent_consumers ==
    [None EXCEPT !.tables = {"trading_account_log_checkpoints",
                             "trading_account_log_receipts",
                             "trading_account_log_records",
                             "trading_account_log_consumers"},
                 !.guards = On("trading_account_log_receipts", {"trading_account_log_receipt_immutable"})
                     \cup On("trading_account_log_records", {"trading_account_log_record_immutable"}),
                 !.parents = {"trading_account_log_receipts",
                              "trading_accounts"}]

observed_account_mode_and_explicit_baseline_origin ==
    [None EXCEPT !.tables = {"trading_account_mode_observations",
                             "trading_account_baseline_bindings"},
                 !.guards = On("trading_account_mode_observations", {"trading_account_mode_immutable"})
                     \cup On("trading_account_baseline_bindings", {"trading_account_baseline_binding_immutable"}),
                 !.parents = {"trading_account_baselines",
                              "trading_account_mode_observations",
                              "trading_accounts"}]

native_fill_namespaces_and_original_order_bindings ==
    [None EXCEPT !.tables = {"trading_order_identity_bindings"},
                 !.rebuilt = {"trading_fills", "trading_money_events"},
                 !.keeps = {<<"trading_fills", 36>>},
                 !.drops = {"trading_accounting_fill_insert",
                            "trading_accounting_fill_update",
                            "trading_accounting_valuation_insert",
                            "trading_accounting_conflict_insert"},
                 !.guards = On("trading_order_identity_bindings", {"trading_order_identity_immutable"})
                     \cup On("trading_fills", {"uq_trading_fill_native_identity",
                                         "trading_accounting_fill_insert",
                                         "trading_accounting_fill_update"})
                     \cup On("trading_money_events", {"uq_money_provider_identity",
                                         "uq_money_fill_identity"})
                     \cup On("trading_money_valuations", {"trading_accounting_valuation_insert"})
                     \cup On("trading_money_conflicts", {"trading_accounting_conflict_insert"}),
                 !.parents = {"trading_accounts", "trading_operations",
                              "trading_orders"},
                 !.foreignKeysOff = TRUE,
                 !.preflight = "fill-money-identities-v1"]

immutable_kraken_cashleg_native_asset_evidence ==
    [None EXCEPT !.tables = {"trading_kraken_log_occurrences",
                             "trading_kraken_cashleg_evidence"},
                 !.guards = On("trading_account_log_records", {"trading_kraken_occurrence_insert"})
                     \cup On("trading_kraken_log_occurrences", {"trading_kraken_occurrence_immutable",
                                         "trading_kraken_occurrence_no_delete"})
                     \cup On("trading_kraken_cashleg_evidence", {"trading_kraken_cashleg_immutable",
                                         "trading_kraken_cashleg_no_delete"}),
                 !.parents = {"trading_account_log_records",
                              "trading_accounts", "trading_fills",
                              "trading_kraken_log_occurrences",
                              "trading_money_events"}]

immutable_observed_fill_quantity_normalization ==
    [None EXCEPT !.tables = {"trading_fill_quantity_evidence"},
                 !.guards = On("trading_fill_quantity_evidence", {"trading_fill_quantity_immutable",
                                         "trading_fill_quantity_no_delete"}),
                 !.parents = {"trading_accounts", "trading_fills"}]

immutable_account_bound_fx_evidence ==
    [None EXCEPT !.tables = {"trading_fx_receipts", "trading_fx_conversions",
                             "trading_fx_conversion_receipts"},
                 !.guards = On("trading_fx_receipts", {"trading_fx_receipt_immutable",
                                         "trading_fx_receipt_no_delete"})
                     \cup On("trading_fx_conversions", {"trading_fx_conversion_immutable",
                                         "trading_fx_conversion_no_delete"})
                     \cup On("trading_fx_conversion_receipts", {"trading_fx_reference_immutable",
                                         "trading_fx_reference_no_delete"}),
                 !.parents = {"trading_accounts", "trading_fx_conversions",
                              "trading_fx_receipts"}]

durable_shared_recovery_schedule ==
    [None EXCEPT !.tables = {"trading_recovery_schedules",
                             "trading_recovery_schedule_attempts"},
                 !.guards = On("trading_recovery_schedule_attempts", {"idx_recovery_schedule_active",
                                         "recovery_attempt_terminal_immutable",
                                         "recovery_attempt_request_immutable",
                                         "recovery_attempt_no_delete"}),
                 !.parents = {"trading_accounts",
                              "trading_recovery_schedules"}]

exact_event_fx_valuations_and_replay ==
    [None EXCEPT !.tables = {"trading_fx_money_valuations",
                             "trading_fx_valuation_work"},
                 !.alters = {"trading_accounting_projections",
                             "trading_positions"},
                 !.guards = On("trading_money_events", {"uq_money_event_account"})
                     \cup On("trading_fx_money_valuations", {"fx_money_valuation_immutable",
                                         "fx_money_valuation_no_delete",
                                         "fx_money_valuation_exclusive",
                                         "fx_money_projection_pending"})
                     \cup On("trading_money_valuations", {"decimal_money_valuation_exclusive"})
                     \cup On("trading_fx_receipts", {"fx_original_variant_projection_pending"}),
                 !.parents = {"trading_fx_conversions",
                              "trading_money_events"}]

exact_adaptive_risk_money_and_source_provenance ==
    [None EXCEPT !.rebuilt = {"trading_channel_risk_evaluations",
                              "workflow_adaptive_risk_evaluations"},
                 !.parents = {"workflow_adaptive_risk_state"}]

operator_workflow_drafts_and_resource_edit_versions ==
    [None EXCEPT !.tables = {"workflow_graph_drafts"},
                 !.alters = {"workflow_resource_versions"},
                 !.parents = {"workflow_revisions"}]

equity_observation_currency_and_source ==
    [None EXCEPT !.alters = {"trading_equity_snapshots"}]

migrations ==
    <<bootstrap_core_tables, durable_outbox_ai_provenance,
      integrity_indexes_and_stats, integrated_trading_control_plane,
      isolated_paper_exchange_state, bind_external_trading_account_identity,
      managed_trading_signal_schemas, versioned_dynamic_signal_contracts,
      channel_risk_equity_and_execution_analytics, mcp_agent_control_plane,
      mcp_agent_retirement, exchange_streams_mcp_approvals_trade_journal,
      empty_factory_distribution, persistent_mcp_runtime_modes,
      versioned_visual_workflows_and_account_capacity,
      path_isolated_adaptive_risk, account_protection_incidents,
      ordered_account_fallback_execution, dynamic_ccxt_exchange_registry,
      server_persistent_workflow_builder_history,
      trading_notification_and_telegram_viewer_support,
      configurable_account_fallback_policy, builder_signal_schema_definitions,
      retirable_trading_accounts, guarded_trading_mutation_identity,
      durable_remote_execution_evidence, durable_exchange_operation_journal,
      exchange_acquisition_and_recovery_evidence, resumable_exchange_history,
      durable_entry_drain_intent, persistent_emergency_exit,
      durable_take_profit_allocation, proven_flat_account_baseline,
      durable_ingress_pinned_workflow_ai_reservations,
      immutable_monetary_events_and_currency_valuations,
      fill_accounting_provenance_and_replayable_money_projection,
      derived_current_risk_reservations_with_provenance,
      durable_account_log_receipts_and_independent_consumers,
      observed_account_mode_and_explicit_baseline_origin,
      native_fill_namespaces_and_original_order_bindings,
      immutable_kraken_cashleg_native_asset_evidence,
      immutable_observed_fill_quantity_normalization,
      immutable_account_bound_fx_evidence, durable_shared_recovery_schedule,
      exact_event_fx_valuations_and_replay,
      exact_adaptive_risk_money_and_source_provenance,
      operator_workflow_drafts_and_resource_edit_versions,
      equity_observation_currency_and_source>>

LATEST_SCHEMA_VERSION == Len(migrations)

(***************************************************************************)
(* A schema: its tables, the groups of columns added to them (<<table,     *)
(* version of the migration that added them>>), its guards, and the tables *)
(* some foreign key points to.                                             *)
(***************************************************************************)
EmptySchema == [tables |-> {}, columns |-> {}, guards |-> {}, parents |-> {}]

(* ensureColumn: the altered table must exist; a column already there (an   *)
(* interrupted or hand-made upgrade) is left alone.                         *)
ensureColumn(schema, version) ==
    [schema EXCEPT !.columns = @ \cup {<<t, version>> : t \in migrations[version].alters}]

(* The rebuilt table has the columns its new definition lists and the       *)
(* guards created for it after the rename: DROP TABLE took the old ones.    *)
Rebuilds(schema, m) ==
    [schema EXCEPT
       !.columns = {c \in @ : c[1] \notin m.rebuilt} \cup m.keeps,
       !.guards = {g \in @ : g[2] \notin m.rebuilt /\ g[1] \notin m.drops}]

(* Why SQLite or ensureColumn would refuse a migration on this schema.  A   *)
(* DROP TABLE deletes the rows first, which the RESTRICT references of      *)
(* other tables refuse while foreign keys are enforced.                     *)
Refuses(schema, version, foreignKeys) ==
    LET m == migrations[version]
        known == schema.tables \cup m.tables
        left == Rebuilds(schema, m).guards IN
    \/ ~(m.alters \subseteq schema.tables) /\ version /= 24
    \/ ~m.ifNotExists /\ m.tables \cap schema.tables /= {}
    \/ ~(m.rebuilt \subseteq known)
    \/ foreignKeys /\ m.rebuilt \cap schema.parents /= {}
    \/ ~(m.drops \subseteq {g[1] : g \in schema.guards})
    \/ ~({g[2] : g \in m.guards} \subseteq known)
    \/ ~m.ifNotExists /\ {g[1] : g \in m.guards} \cap {g[1] : g \in left} /= {}

Migrated(schema, version) ==
    LET m == migrations[version]
        rebuilt == Rebuilds(ensureColumn(schema, version), m) IN
    [rebuilt EXCEPT !.tables = @ \cup m.tables, !.guards = @ \cup m.guards,
                    !.parents = @ \cup m.parents]

(* The schema that a history of n migrations stands for, told from the      *)
(* catalogue as a whole: columns and guards outlive the rebuilds and drops  *)
(* that name them.                                                          *)
SchemaAt(n) ==
    [tables  |-> UNION {migrations[v].tables : v \in 1..n},
     columns |-> UNION {{<<t, v>> : t \in
                   {t \in migrations[v].alters : \A w \in v + 1..n :
                      t \in migrations[w].rebuilt => <<t, v>> \in migrations[w].keeps}}
                 : v \in 1..n},
     guards  |-> UNION {{g \in migrations[v].guards : \A w \in v + 1..n :
                      g[2] \notin migrations[w].rebuilt /\ g[1] \notin migrations[w].drops}
                 : v \in 1..n},
     parents |-> UNION {migrations[v].parents : v \in 1..n}]

VARIABLES schema, applied,   \* the committed database: schema and schema_migrations
          work,              \* the open transaction, or NoWork
          foreignKeys,       \* PRAGMA foreign_keys of the connection
          process,           \* "down", "opening", "migrating", "serving", "refused"
          existed,           \* the file existed when it was opened
          snapshot,          \* versions a verified pre-migration snapshot was taken at
          duplicates,        \* preflight queries that find conflicting rows
          opens

database == <<schema, applied, duplicates>>
schemaVars == <<schema, applied, work, foreignKeys, process, existed, snapshot,
                duplicates, opens>>

NoWork == [schema |-> EmptySchema, applied |-> <<>>, at |-> "none"]

Preflights == {"remote-order-identities-v1", "fill-money-identities-v1"}

(* An empty file, a database of an earlier release, one of a later release, *)
(* one whose recorded checksums this binary does not know, or the tables of *)
(* the first release without a migration history.                           *)
Init ==
    /\ duplicates \in SUBSET Preflights
    /\ \/ \E n \in Starts : /\ schema = SchemaAt(n)
                            /\ applied = [v \in 1..n |-> "known"]
       \/ /\ schema = SchemaAt(LATEST_SCHEMA_VERSION)
          /\ applied = [v \in 1..LATEST_SCHEMA_VERSION + 1 |-> "known"]
       \/ /\ schema = SchemaAt(2) /\ applied = <<"known", "other">>
       \/ /\ schema = [EmptySchema EXCEPT !.tables = migrations[1].tables]
          /\ applied = <<>>
    /\ work = NoWork /\ foreignKeys = TRUE /\ process = "down"
    /\ existed = FALSE /\ snapshot = {} /\ opens = 0

(* initializeDatabase opens the file with foreign keys on. *)
initializeDatabase ==
    /\ process = "down" /\ opens < MaxOpens
    /\ opens' = opens + 1
    /\ existed' = (schema /= EmptySchema)
    /\ foreignKeys' = TRUE
    /\ process' = "opening"
    /\ UNCHANGED <<database, work, snapshot>>

validateAppliedMigrations ==
    /\ Len(applied) <= LATEST_SCHEMA_VERSION
    /\ \A v \in 1..Len(applied) : applied[v] = "known"

createPreMigrationSnapshot == snapshot' = snapshot \cup {Len(applied)}

(* migrateDatabase up to its loop.  The snapshot may fail to be taken.      *)
migrateDatabase ==
    /\ process = "opening"
    /\ \/ /\ validateAppliedMigrations
          /\ process' = "migrating"
          /\ IF Len(applied) < LATEST_SCHEMA_VERSION /\ existed
             THEN createPreMigrationSnapshot ELSE UNCHANGED snapshot
       \/ /\ ~validateAppliedMigrations \/ (existed /\ Len(applied) < LATEST_SCHEMA_VERSION)
          /\ process' = "refused"
          /\ UNCHANGED snapshot
    /\ UNCHANGED <<database, work, foreignKeys, existed, opens>>

Next1 == Len(applied) + 1

(* applyPendingMigration: foreign keys off where declared, BEGIN, apply,    *)
(* record, COMMIT.  A refused or failed step rolls back, ends the start and *)
(* switches foreign keys on again.                                          *)
applyPendingMigration ==
    /\ process = "migrating" /\ work = NoWork /\ Len(applied) < LATEST_SCHEMA_VERSION
    /\ foreignKeys' = ~migrations[Next1].foreignKeysOff
    /\ work' = [schema |-> schema, applied |-> applied, at |-> "begun"]
    /\ UNCHANGED <<database, process, existed, snapshot, opens>>

applyMigration ==
    /\ work.at = "begun"
    /\ migrations[Next1].preflight \notin duplicates
    /\ ~Refuses(schema, Next1, foreignKeys)
    /\ work' = [schema |-> Migrated(schema, Next1), applied |-> applied, at |-> "changed"]
    /\ UNCHANGED <<database, foreignKeys, process, existed, snapshot, opens>>

commitMigrationFirst ==
    /\ work.at = "changed"
    /\ schema' = work.schema
    /\ work' = [work EXCEPT !.applied = Append(applied, "known"), !.at = "recorded"]
    /\ UNCHANGED <<applied, duplicates, foreignKeys, process, existed, snapshot, opens>>

recordMigration ==
    /\ work.at = "changed"
    /\ work' = [work EXCEPT !.applied = Append(applied, "known"), !.at = "recorded"]
    /\ UNCHANGED <<database, foreignKeys, process, existed, snapshot, opens>>

commitMigration ==
    /\ work.at = "recorded"
    /\ schema' = work.schema /\ applied' = work.applied
    /\ work' = NoWork /\ foreignKeys' = TRUE
    /\ UNCHANGED <<duplicates, process, existed, snapshot, opens>>

rollbackMigration ==
    /\ work.at /= "none"
    /\ work' = NoWork /\ foreignKeys' = TRUE
    /\ process' = "refused"
    /\ UNCHANGED <<database, existed, snapshot, opens>>

serve ==
    /\ process = "migrating" /\ work = NoWork /\ Len(applied) = LATEST_SCHEMA_VERSION
    /\ process' = "serving"
    /\ UNCHANGED <<database, work, foreignKeys, existed, snapshot, opens>>

(* The process dies or ends; SQLite rolls an uncommitted transaction back.  *)
ends ==
    /\ process /= "down"
    /\ process' = "down" /\ work' = NoWork
    /\ UNCHANGED <<database, foreignKeys, existed, snapshot, opens>>

Next == \/ initializeDatabase \/ migrateDatabase \/ applyPendingMigration
        \/ applyMigration \/ recordMigration \/ commitMigration
        \/ rollbackMigration \/ serve \/ ends

Spec == Init /\ [][Next]_schemaVars

-----------------------------------------------------------------------------

(* Every variable has its type. *)
TypeOK ==
    /\ work.at \in {"none", "begun", "changed", "recorded"}
    /\ foreignKeys \in BOOLEAN /\ existed \in BOOLEAN
    /\ process \in {"down", "opening", "migrating", "serving", "refused"}
    /\ snapshot \subseteq 0..LATEST_SCHEMA_VERSION
    /\ duplicates \subseteq Preflights /\ opens \in 0..MaxOpens

(* Whatever the process did and wherever it died, the committed schema is   *)
(* the one its recorded history stands for, so that a later start resumes   *)
(* with the first migration that has not run; a start that serves has the   *)
(* complete schema with foreign keys enforced.                              *)
HistoryTellsTheSchema ==
    /\ \/ schema = SchemaAt(IF Len(applied) > LATEST_SCHEMA_VERSION
                            THEN LATEST_SCHEMA_VERSION ELSE Len(applied))
       \/ applied = <<>> /\ schema.tables = migrations[1].tables
    /\ process = "serving" => /\ schema = SchemaAt(LATEST_SCHEMA_VERSION)
                              /\ foreignKeys

(* No migration is refused by the schema the earlier ones leave: a table it *)
(* needs is there, nothing it creates exists, a table that others refer to  *)
(* is only rebuilt with foreign keys off.  And a guard or an added column   *)
(* outlives every later rebuild of its table.                               *)
UpgradeNeverStuck ==
    /\ work.at = "begun" => ~Refuses(schema, Next1, foreignKeys)
    /\ \A v \in 1..Len(applied) : v <= LATEST_SCHEMA_VERSION =>
         /\ migrations[v].guards \subseteq schema.guards
         /\ \A t \in migrations[v].alters : <<t, v>> \in schema.columns

(* A step changes a database that existed only after a verified copy of the *)
(* version it had was put aside.                                            *)
SnapshotPrecedesChange ==
    schema' /= schema /\ existed => \E v \in snapshot : v <= Len(applied)

=============================================================================
