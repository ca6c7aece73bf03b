----------------------------- MODULE ConfigMerge -----------------------------
(***************************************************************************)
(* How main.c's list of active profiles becomes one configuration:         *)
(* build_merged_config of db/db_runtime.c, which loads every profile with  *)
(* config_load_from_db (db/db_config.c) and merges it into the result.     *)
(*                                                                         *)
(* A load is a series of queries without a transaction around them, so the *)
(* tables may change between any two; the merge of one profile is one step,*)
(* for it touches the main thread's memory only.                           *)
(*                                                                         *)
(* Data abstractions: an interface is its name, a key is a name ("none"    *)
(* for a bypass policy), a policy's addresses and ports are only the       *)
(* number of policies they expand to.  Indices count from 1.  The defaults *)
(* every interface is loaded with pass config_validate.                    *)
(***************************************************************************)
EXTENDS Integers, FiniteSets, Sequences, SequencesExt

CONSTANTS
  Id,             \* profile ids
  Name,           \* names of interfaces
  Key,            \* keys, and "none"
  Contents,       \* what the tables may hold of each profile
  MaxInterfaces,  \* MAX_INTERFACES
  MaxPolicies,    \* MAX_CRYPTO_POLICIES
  MaxWire,        \* 255, the greatest policy id in a packet
  KeyMapMax,      \* NE_KEY_WIRE_MAP_MAX
  MaxEdits        \* bound: changes of the tables followed

Absent == [lans |-> <<>>, wans |-> <<>>, rows |-> <<>>, there |-> FALSE]

Row == [id : Int, key : Key, copies : Nat \ {0}]

ASSUME ConfigMergeAssumption ==
  /\ {MaxInterfaces, MaxPolicies, KeyMapMax, MaxEdits} \subseteq Nat
  /\ MaxWire \in Nat /\ MaxWire > MaxPolicies
  /\ IsFiniteSet(Id)
  /\ \A p \in Id : \A c \in Contents[p] :
       /\ c = [lans |-> c.lans, wans |-> c.wans, rows |-> c.rows, there |-> TRUE]
       /\ {c.lans, c.wans} \subseteq Seq(Name) /\ c.rows \in Seq(Row)

VARIABLES
  db,       \* the tables ne_profiles, ne_lan, ne_wan and ne_policies
  edits,    \* ghost: changes of the tables since the load began
  skipped,  \* ghost: a query failed and the load went on without its rows
  ids,      \* the profiles to load, in the order they became active
  k,        \* the profile that is being loaded
  step,     \* the query or step that comes next
  tmp,      \* the configuration of that profile
  merged    \* the configuration so far

build_vars == <<db, edits, skipped, ids, k, step, tmp, merged>>

EmptyConfig == [lans |-> <<>>, wans |-> <<>>, policies |-> <<>>]
EmptyProfile == [id |-> 0, lans |-> <<>>, wans |-> <<>>, policies |-> <<>>]

Orders == UNION {{s \in [1 .. Cardinality(S) -> S] : IsInjective(s)} : S \in (SUBSET Id) \ {{}}}

\* The id of a row of ne_policies is the table's primary key.
PrimaryKey(tables) ==
  \A p, q \in Id : \A r \in DOMAIN tables[p].rows, s \in DOMAIN tables[q].rows :
    tables[p].rows[r].id = tables[q].rows[s].id => p = q /\ r = s

BuildInit ==
  /\ db \in {d \in [Id -> UNION {Contents[p] : p \in Id}] : \A p \in Id : d[p] \in Contents[p]}
  /\ PrimaryKey(db)
  /\ edits = 0 /\ skipped = FALSE
  /\ ids \in Orders /\ k = 1 /\ step = "verify"
  /\ tmp = [cfg |-> EmptyConfig, profile |-> EmptyProfile]
  /\ merged = [cfg |-> EmptyConfig, profiles |-> <<>>]

Rows == db[ids[k]]

\* Somebody changes or deletes a profile.
Edit ==
  /\ edits < MaxEdits /\ step \notin {"done", "failed"}
  /\ \E p \in Id : \E c \in Contents[p] \union {Absent} :
       c # db[p] /\ db' = [db EXCEPT ![p] = c] /\ PrimaryKey(db')
  /\ edits' = edits + 1
  /\ UNCHANGED <<skipped, ids, k, step, tmp, merged>>

-----------------------------------------------------------------------------
(* The queries of config_load_from_db *)

Goes(from, to) == step = from /\ step' = to

Verify ==
  /\ Goes("verify", "lans") /\ Rows.there
  /\ tmp' = [cfg |-> EmptyConfig, profile |-> [EmptyProfile EXCEPT !.id = ids[k]]]
  /\ UNCHANGED <<db, edits, skipped, ids, k, merged>>

Fit(names) == names # <<>> /\ Len(names) <= MaxInterfaces

LoadLans ==
  /\ Goes("lans", "wans") /\ Fit(Rows.lans)
  /\ tmp' = [tmp EXCEPT !.cfg.lans = Rows.lans]
  /\ UNCHANGED <<db, edits, skipped, ids, k, merged>>

LoadWans ==
  /\ Goes("wans", "profile") /\ Fit(Rows.wans)
  /\ tmp' = [tmp EXCEPT !.cfg.wans = Rows.wans]
  /\ UNCHANGED <<db, edits, skipped, ids, k, merged>>

LoadProfile ==
  /\ Goes("profile", "own lans") /\ Rows.there
  /\ UNCHANGED <<db, edits, skipped, ids, k, tmp, merged>>

IndexOf(s, x) == SelectInSeq(s, LAMBDA y : y = x)

\* A name that is not in the list loaded before is skipped.
Indices(list, names) ==
  LET Found(s, x) == IF IndexOf(list, x) > 0 THEN Append(s, IndexOf(list, x)) ELSE s
  IN  FoldLeft(Found, <<>>, names)

OwnLans ==
  /\ Goes("own lans", "own wans")
  /\ tmp' = [tmp EXCEPT !.profile.lans = Indices(tmp.cfg.lans, Rows.lans)]
  /\ UNCHANGED <<db, edits, skipped, ids, k, merged>>

OwnWans ==
  /\ Goes("own wans", "policies")
  /\ tmp' = [tmp EXCEPT !.profile.wans = Indices(tmp.cfg.wans, Rows.wans)]
  /\ UNCHANGED <<db, edits, skipped, ids, k, merged>>

\* The two queries whose failure is no error.
OwnQueryFails ==
  /\ Goes("own lans", "own wans") \/ Goes("own wans", "policies")
  /\ skipped' = TRUE
  /\ UNCHANGED <<db, edits, ids, k, tmp, merged>>

-----------------------------------------------------------------------------
(* Wire ids: alloc_wire_policy_id and ne_wire_id_for_encrypt_key *)

Lowest(used) == CHOOSE j \in (1 .. MaxWire) \ used : \A i \in (1 .. MaxWire) \ used : j <= i

\* Wrong variant, used by no action: the row's own id is not tried first.
AllocLowest(id, used) == Lowest(used)

Alloc(id, used) == IF id \in (1 .. MaxWire) \ used THEN id ELSE Lowest(used)

\* Wrong variant, used by no action: a key that is known is not looked for.
WireIdOfRow(acc, row) == Alloc(row.id, acc.used)

WireId(acc, row) ==
  IF row.key \in DOMAIN acc.byKey THEN acc.byKey[row.key] ELSE Alloc(row.id, acc.used)

Known(acc, row, wid) ==
  IF row.key \in DOMAIN acc.byKey \/ Cardinality(DOMAIN acc.byKey) >= KeyMapMax
  THEN acc.byKey
  ELSE [q \in DOMAIN acc.byKey \union {row.key} |-> IF q = row.key THEN wid ELSE acc.byKey[q]]

Expansion(row, wid) ==
  [n \in 1 .. row.copies |-> [id |-> wid, db_id |-> row.id, key |-> row.key]]

AddRow(acc, row) ==
  IF row.key = "none"
  THEN [acc EXCEPT !.policies = @ \o Expansion(row, 0)]
  ELSE LET wid == WireId(acc, row)
       IN  [policies |-> acc.policies \o Expansion(row, wid),
            used |-> acc.used \union {wid}, byKey |-> Known(acc, row, wid)]

Policies(rows) ==
  FoldLeft(AddRow, [policies |-> <<>>, used |-> {}, byKey |-> [q \in {} |-> 0]], rows).policies

LoadPolicies ==
  /\ Goes("policies", "merge")
  /\ Len(Policies(Rows.rows)) <= MaxPolicies
  /\ tmp' = [tmp EXCEPT !.cfg.policies = Policies(Rows.rows),
                        !.profile.policies = [n \in DOMAIN Policies(Rows.rows) |-> n]]
  /\ UNCHANGED <<db, edits, skipped, ids, k, merged>>

-----------------------------------------------------------------------------
(* merge_one_config *)

AppendUnique(s, x) == IF \E n \in DOMAIN s : s[n] = x THEN s ELSE Append(s, x)

MergedNames(s, names) == FoldLeft(AppendUnique, s, names)

AppendPolicyUnique(s, p) ==
  LET used == {s[n].id : n \in DOMAIN s}
  IN  Append(s, [p EXCEPT !.id = IF p.id \in (1 .. MaxWire) \ used THEN @ ELSE Lowest(used)])

\* Wrong variant, used by no action: the indices of the profile's own lists.
Unmapped(list, own, indices) == indices

\* local_map and wan_map, applied to a profile's indices.
Mapped(list, own, indices) == [n \in DOMAIN indices |-> IndexOf(list, own[indices[n]])]

Merged ==
  LET lans == MergedNames(merged.cfg.lans, tmp.cfg.lans)
      wans == MergedNames(merged.cfg.wans, tmp.cfg.wans)
      before == Len(merged.cfg.policies)
  IN  [cfg |-> [lans |-> lans, wans |-> wans,
                policies |-> FoldLeft(AppendPolicyUnique, merged.cfg.policies, tmp.cfg.policies)],
       profiles |-> Append(merged.profiles,
         [id |-> tmp.profile.id,
          lans |-> Mapped(lans, tmp.cfg.lans, tmp.profile.lans),
          wans |-> Mapped(wans, tmp.cfg.wans, tmp.profile.wans),
          policies |-> [n \in DOMAIN tmp.profile.policies |-> before + tmp.profile.policies[n]]])]

\* Wrong variant, used by no action: one interface too many is let in.
MergeFitsOneMore ==
  /\ Len(merged.cfg.policies) + Len(tmp.cfg.policies) <= MaxPolicies
  /\ Len(Merged.cfg.lans) <= MaxInterfaces + 1 /\ Len(Merged.cfg.wans) <= MaxInterfaces

MergeFits ==
  /\ Len(merged.cfg.policies) + Len(tmp.cfg.policies) <= MaxPolicies
  /\ Len(Merged.cfg.lans) <= MaxInterfaces /\ Len(Merged.cfg.wans) <= MaxInterfaces

Merge ==
  /\ step = "merge" /\ MergeFits
  /\ merged' = Merged
  /\ step' = IF k = Len(ids) THEN "done" ELSE "verify"
  /\ k' = IF k = Len(ids) THEN k ELSE k + 1
  /\ UNCHANGED <<db, edits, skipped, ids, tmp>>

\* Any other failed query, a profile that is gone, a list without rows or one
\* too long ends the whole build; a query may always fail.
MayFail == step = "merge" => ~MergeFits

Fail ==
  /\ step \notin {"done", "failed", "own lans", "own wans"} /\ MayFail
  /\ step' = "failed"
  /\ UNCHANGED <<db, edits, skipped, ids, k, tmp, merged>>

BuildNext ==
  \/ Edit \/ Verify \/ LoadLans \/ LoadWans \/ LoadProfile
  \/ OwnLans \/ OwnWans \/ OwnQueryFails \/ LoadPolicies \/ Merge \/ Fail

BuildSpec == BuildInit /\ [][BuildNext]_build_vars

-----------------------------------------------------------------------------
(* Sizes keep to the arrays, and no index of a profile leaves the lists it  *)
(* is for, whatever changed between two queries.                            *)
BuildTypeOK ==
  /\ step \in {"verify", "lans", "wans", "profile", "own lans", "own wans",
               "policies", "merge", "done", "failed"}
  /\ k \in DOMAIN ids /\ Len(merged.cfg.policies) <= MaxPolicies
  /\ Len(merged.cfg.lans) <= MaxInterfaces /\ Len(merged.cfg.wans) <= MaxInterfaces
  /\ \A n \in DOMAIN merged.profiles :
       LET p == merged.profiles[n]
       IN  /\ \A i \in DOMAIN p.lans : p.lans[i] \in DOMAIN merged.cfg.lans
           /\ \A i \in DOMAIN p.wans : p.wans[i] \in DOMAIN merged.cfg.wans
           /\ \A i \in DOMAIN p.policies : p.policies[i] \in DOMAIN merged.cfg.policies

(* No two policies of the merged configuration have the same wire id, and   *)
(* every one has an id a packet can carry: the receiver of a packet finds   *)
(* one context by it (append_policy_unique, rebuild_crypto_runtime).        *)
WireIdsUnique ==
  LET ps == merged.cfg.policies
  IN  \A n, m \in DOMAIN ps :
        ps[n].id \in 1 .. MaxWire /\ (n # m => ps[n].id # ps[m].id)

Expected(rows) ==
  FlattenSeq([r \in DOMAIN rows |->
    [n \in 1 .. rows[r].copies |-> [db_id |-> rows[r].id, key |-> rows[r].key]]])

(* When the tables did not change meanwhile, the merged configuration gives *)
(* every profile exactly its interfaces and its policies, in its order, and *)
(* nothing of another profile: the three index maps of merge_one_config.    *)
ProfilesFaithful ==
  step = "done" /\ edits = 0 /\ ~skipped =>
    /\ Len(merged.profiles) = Len(ids)
    /\ \A n \in DOMAIN ids :
         LET p == merged.profiles[n]  ps == merged.cfg.policies  c == db[ids[n]]
         IN  /\ p.id = ids[n]
             /\ [i \in DOMAIN p.lans |-> merged.cfg.lans[p.lans[i]]] = c.lans
             /\ [i \in DOMAIN p.wans |-> merged.cfg.wans[p.wans[i]]] = c.wans
             /\ [i \in DOMAIN p.policies |->
                   [db_id |-> ps[p.policies[i]].db_id, key |-> ps[p.policies[i]].key]]
                  = Expected(c.rows)

(* Within a profile as it was loaded, encrypting policies share a wire id   *)
(* exactly when they share a key (ne_wire_id_for_encrypt_key), as long as   *)
(* the keys fit its table.                                                  *)
LoadedIdsByKey ==
  LET ps == tmp.cfg.policies
      keys == {ps[n].key : n \in DOMAIN ps} \ {"none"}
  IN  Cardinality(keys) <= KeyMapMax =>
        \A n, m \in DOMAIN ps :
          ps[n].key # "none" /\ ps[m].key # "none" =>
            (ps[n].id = ps[m].id <=> ps[n].key = ps[m].key)

(* Both allocations of wire ids, of a load and of the merge, do what the    *)
(* one byte on the wire needs: no id names two policies of the process, and *)
(* none is spent twice on a key within a load.                              *)
WireIdsAllocated == WireIdsUnique /\ LoadedIdsByKey

\* Every row encrypts with a key of its own, and matches one policy.
OnePolicyPerKey(c) ==
  \A r, s \in DOMAIN c.rows :
    /\ c.rows[r].key # "none" /\ c.rows[r].copies = 1 /\ c.rows[r].id \in 1 .. MaxWire
    /\ c.rows[r].key = c.rows[s].key => r = s

(* Where all rows encrypt, each with a key of its own, every policy's wire  *)
(* id is the id of its row, so that two hosts that read the same tables     *)
(* agree on it in whatever order their profiles became active.  (A bypass   *)
(* row, a shared key or a list of addresses or ports breaks this: the merge *)
(* then takes the lowest id that is free at that moment.)                   *)
RowIdsKept ==
  (edits = 0 /\ \A n \in DOMAIN ids : OnePolicyPerKey(db[ids[n]])) =>
    \A n \in DOMAIN merged.cfg.policies :
      merged.cfg.policies[n].id = merged.cfg.policies[n].db_id

=============================================================================
