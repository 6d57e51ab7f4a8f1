----------------------------- MODULE RuntimeProfile -----------------------------
(***************************************************************************)
(* How runtime/profile.rs turns the profile, the bundles it names, its     *)
(* overlays and those of the command line into the one list of entries a   *)
(* host starts with.  The documents are read; what is modelled is what     *)
(* they add up to, or that they are refused as a whole.                    *)
(*                                                                         *)
(* An entry is [id, source, enabled, required, approved, writes]: the last *)
(* two are what its grants say of approval and of the database.            *)
(***************************************************************************)
EXTENDS Naturals, Sequences, FiniteSets, SequencesExt

CONSTANTS
  Builtin,   \* the keys of the builtin factories
  Lua,       \* the plugin directories <tier>/<name> that hold a plugin.toml
  Bundle     \* Bundle[b]: the entries of b, for the bundles that can be read

ASSUME SourceAssumption == Builtin \cap Lua = {}
ASSUME BundleAssumption == \A b \in DOMAIN Bundle : Bundle[b] \in Seq(Range(Bundle[b]))

(* A resolution under way: the entries so far, or that it has failed. *)
Begun == [ok |-> TRUE, entries |-> <<>>]
Refused == [ok |-> FALSE, entries |-> <<>>]

Ids(entries) == {entries[i].id : i \in DOMAIN entries}
Distinct(entries) == Cardinality(Ids(entries)) = Len(entries)
IsBuiltin(e) == e.source \in Builtin

(* resolve_entry, resolve_source: what an entry must be wherever it stands. *)
Sound(e) == e.source \in Builtin \cup Lua /\ (e.required => e.enabled)

AddEntry(r, e) ==
  IF r.ok /\ Sound(e) /\ e.id \notin Ids(r.entries)
  THEN [r EXCEPT !.entries = Append(@, e)]
  ELSE Refused

AddBundle(r, b) ==
  IF r.ok /\ b \in DOMAIN Bundle
  THEN FoldLeft(AddEntry, r, Bundle[b])
  ELSE Refused

(* apply_overlay: the entry of that id is replaced as a whole, in its place. *)
PlaceOf(entries, id) == CHOOSE i \in DOMAIN entries : entries[i].id = id
\* Mutant: the replaced entry goes to the end.
ApplyOverlayMoving(r, e) ==
  IF r.ok /\ e.id \in Ids(r.entries) /\ Sound(e)
  THEN [r EXCEPT !.entries = Append(SelectSeq(@, LAMBDA f : f.id # e.id), e)]
  ELSE Refused
ApplyOverlay(r, e) ==
  IF r.ok /\ e.id \in Ids(r.entries) /\ Sound(e)
  THEN [r EXCEPT !.entries[PlaceOf(r.entries, e.id)] = e]
  ELSE Refused

(* One document names an id once; the next document may name it again. *)
ApplyOverlays(r, overlays) ==
  IF r.ok /\ Distinct(overlays) THEN FoldLeft(ApplyOverlay, r, overlays) ELSE Refused

(* validate_unique_lua_sources: of builtins nothing is asked. *)
MountsOnce(entries) ==
  \A i, j \in DOMAIN entries :
    entries[i].source = entries[j].source /\ entries[i].source \in Lua => i = j

(***************************************************************************)
(* resolve_with_overlays.  "found" says that the configured profile, or    *)
(* the default one, exists and is a document of that name and schema.      *)
(***************************************************************************)
Resolve(d) ==
  LET bundled == FoldLeft(AddBundle, Begun, d.bundles)
      own     == ApplyOverlays(bundled, d.overlays)
      all     == FoldLeft(ApplyOverlays, own, d.cli)
  IN IF d.found /\ all.ok /\ MountsOnce(all.entries) THEN all ELSE Refused
=============================================================================
