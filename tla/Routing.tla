------------------------------ MODULE Routing ------------------------------
(***************************************************************************)
(* Where a ban goes: groups, environments and the attachment of an entry   *)
(* to the enforcement targets (blocklist-api/app/enforce.py and the        *)
(* attachment helpers of blocklist-api/app/store.py).                      *)
(*                                                                         *)
(* `ids` is always the set of target ids that one call of targets() saw.   *)
(***************************************************************************)
CONSTANTS
    Target,     \* ids of every target that can ever be configured
    Group,      \* names a ban, a rule or a target may use as a group
    NoGroup,    \* the empty group name
    BanGroups,  \* BAN_GROUPS: a function from some groups to sets of targets
    EnvOf       \* the env a target is tagged with, NoGroup when it has none

ASSUME RoutingAssumption ==
    /\ NoGroup \notin Group
    /\ DOMAIN BanGroups \subseteq Group
    /\ EnvOf \in [Target -> Group \cup {NoGroup}]

(* _effective_groups: the configured groups and every env that has a target. *)
EffectiveGroups(ids) ==
    DOMAIN BanGroups \cup ({EnvOf[t] : t \in ids} \ {NoGroup})

Members(g, ids) ==
    (IF g \in DOMAIN BanGroups THEN BanGroups[g] ELSE {})
        \cup {t \in ids : EnvOf[t] = g}

(* resolve_group: an empty or unknown group means every target. *)
ResolveGroup(g, ids) ==
    IF g \in EffectiveGroups(ids) THEN Members(g, ids) \cap ids ELSE ids

(* The two shapes of a stored attachment: the legacy single group, and     *)
(* groups/targets/all.                                                     *)
LegacyRoute == [group : Group \cup {NoGroup}]
AttachRoute == [groups : SUBSET Group, targets : SUBSET Target, all : BOOLEAN]
Route == LegacyRoute \cup AttachRoute

IsLegacy(r) == "group" \in DOMAIN r

(* _entry_target_ids: the targets one denylist entry is enforced on. *)
EntryTargets(r, ids) ==
    CASE IsLegacy(r) -> ResolveGroup(r.group, ids)
      [] ~IsLegacy(r) /\ r.all -> ids
      [] OTHER -> (r.targets \cup UNION {ResolveGroup(g, ids) : g \in r.groups})
                      \cap ids
=============================================================================
