--------------------------- MODULE StartupProfiles ---------------------------
(***************************************************************************)
(* Deployment definitions and the startup profiles that instances are made *)
(* from.  A source offers a profile in its manifest; it is reviewed and    *)
(* imported through the API or the terminal interface, and an instance of  *)
(* it is added to a definition.  Definitions are files that API clients    *)
(* (create, replace), the interface (create_instance), imports of bundles, *)
(* migrations and apmpr init write without a common lock, and sources are  *)
(* edited meanwhile.                                                       *)
(* A definition is the set of its instances; an instance is its author and *)
(* the body its block has.  One profile name and one deployment are enough *)
(* for every race.                                                         *)
(***************************************************************************)
EXTENDS Nothing, Naturals

CONSTANTS ProfileSources, Authors, ProfileBodies, ProjectBody, Malformed, MaxManifestEdits

VARIABLES
  manifest,      \* the body in each source's manifest, Malformed, or None
  imported,      \* the row of imported_profiles, or None
  defined,       \* the deployment definition on disk, or None
  author,        \* what each author is in the middle of
  shown,         \* what reviews have put before anybody
  trusted,       \* every body that was ever imported
  manifestEdits  \* how often manifests were edited, bounded

pvars == <<manifest, imported, defined, author, shown, trusted, manifestEdits>>

AtRest == [pc |-> "rest"]

(* One source has a manifest; the definition may have a block of its own of *)
(* the profile's name, or not exist yet.                                    *)
ProfilesInit ==
  /\ \E s \in ProfileSources, b \in ProfileBodies :
       manifest = [t \in ProfileSources |-> IF t = s THEN b ELSE None]
  /\ imported = None
  /\ defined \in {None, {}, {[by |-> None, body |-> ProjectBody]}}
  /\ author = [a \in Authors |-> AtRest]
  /\ shown = {} /\ trusted = {} /\ manifestEdits = 0

-----------------------------------------------------------------------------
(* What the manifests offer.  A malformed one offers nothing and is listed  *)
(* as an error of its source.                                               *)
Discovered(s) == manifest[s] \notin {None, Malformed}

(* Changed is only said of a manifest that can still be read.               *)
Trust(row) ==
  IF Discovered(row.source) /\ manifest[row.source] # row.body THEN "changed" ELSE "imported"

(* The blocks of the definition by the profile's name come first.           *)
OwnBlocks == IF defined = None THEN {} ELSE {i.body : i \in defined}

(* project_profile_rows: an imported profile hides the manifests' ones.     *)
ProfileRows ==
  {[origin |-> "project", source |-> None, trust |-> "trusted", body |-> b] : b \in OwnBlocks}
    \cup (IF imported = None
          THEN {[origin |-> "discovered", source |-> s, trust |-> "not imported", body |-> manifest[s]] :
                  s \in {t \in ProfileSources : Discovered(t)}}
          ELSE {[origin |-> "imported", source |-> imported.source, trust |-> Trust(imported),
                 body |-> imported.body]})

(* Rows exist only where a definition can be loaded.                        *)
Listed == IF defined = None THEN {} ELSE ProfileRows

Importable(s) ==
  \E row \in Listed : row.source = s /\ row.trust \in {"not imported", "changed"}

Record(s, via) ==
  /\ imported' = [source |-> s, body |-> manifest[s], via |-> via]
  /\ trusted' = trusted \cup {manifest[s]}

-----------------------------------------------------------------------------
(* The API: the verbatim manifest and its hash, then the import that names  *)
(* the hash.  Listing and import read the manifest separately.              *)
ReviewManifest(a, s) ==
  /\ author[a] = AtRest
  /\ manifest[s] # None
  /\ author' = [author EXCEPT ![a] = [pc |-> "reviewed", source |-> s, hash |-> manifest[s]]]
  /\ shown' = shown \cup {manifest[s]}
  /\ UNCHANGED <<manifest, imported, defined, trusted, manifestEdits>>

import_profile(a) ==
  /\ author[a].pc = "reviewed"
  /\ author' = [author EXCEPT ![a] = IF Importable(author[a].source)
                                     THEN [author[a] EXCEPT !.pc = "import"] ELSE AtRest]
  /\ UNCHANGED <<manifest, imported, defined, shown, trusted, manifestEdits>>

(* Mutant: the manifest is imported as it is now.                           *)
HashIgnored(a) == TRUE

ReviewHolds(a) == manifest[author[a].source] = author[a].hash

import_reviewed_source_profile(a) ==
  /\ author[a].pc = "import"
  /\ IF ReviewHolds(a) /\ Discovered(author[a].source)
     THEN Record(author[a].source, "api")
     ELSE UNCHANGED <<imported, trusted>>
  /\ author' = [author EXCEPT ![a] = AtRest]
  /\ UNCHANGED <<manifest, defined, shown, manifestEdits>>

(* The interface: the manifest is shown and confirmed, then the job reads   *)
(* whatever is there.                                                       *)
ConfirmImport(a, s) ==
  /\ author[a] = AtRest
  /\ Importable(s) /\ manifest[s] # None
  /\ author' = [author EXCEPT ![a] = [pc |-> "confirmed", source |-> s]]
  /\ shown' = shown \cup {manifest[s]}
  /\ UNCHANGED <<manifest, imported, defined, trusted, manifestEdits>>

import_source_profile(a) ==
  /\ author[a].pc = "confirmed"
  /\ IF Discovered(author[a].source)
     THEN Record(author[a].source, "tui")
     ELSE UNCHANGED <<imported, trusted>>
  /\ author' = [author EXCEPT ![a] = AtRest]
  /\ UNCHANGED <<manifest, defined, shown, manifestEdits>>

remove_imported_profile ==
  /\ imported # None
  /\ imported' = None
  /\ UNCHANGED <<manifest, defined, author, shown, trusted, manifestEdits>>

(* The API removes what it lists, the interface what it listed before.      *)
remove_profile == (\E row \in Listed : row.origin = "imported") /\ remove_imported_profile
RemoveProfile == remove_imported_profile

(* The sources change under all of this.                                    *)
EditManifest(s) ==
  /\ manifestEdits < MaxManifestEdits /\ manifestEdits' = manifestEdits + 1
  /\ \E m \in (ProfileBodies \cup {Malformed, None}) \ {manifest[s]} :
       manifest' = [manifest EXCEPT ![s] = m]
  /\ UNCHANGED <<imported, defined, author, shown, trusted>>

-----------------------------------------------------------------------------
(* Definitions.  A block that the definition has already is left as it is.  *)
WithInstance(text, a, body) ==
  text \cup {[by |-> a, body |-> IF text = {} THEN body ELSE (CHOOSE i \in text : TRUE).body]}

(* A profile is usable for an instance once it is trusted.                  *)
UsableTrust == {"trusted", "imported"}

Usable(row) == row.trust \in UsableTrust

selected_profile(row) == row \in Listed

(* The interface reads the definition before it lists the profiles.         *)
ChooseProfile(a, row) ==
  /\ author[a] = AtRest
  /\ selected_profile(row) /\ Usable(row)
  /\ author' = [author EXCEPT ![a] = [pc |-> "drafting", row |-> row, base |-> defined]]
  /\ UNCHANGED <<manifest, imported, defined, shown, trusted, manifestEdits>>

(* validate_profile for a target: the trust of the row, and then the body   *)
(* as it is by the time it is loaded.  (A request that names no target gets *)
(* a draft to look at, whatever the trust; it is not followed here, for a   *)
(* client that puts such a draft puts a text of its own.)                   *)
ChooseRow(a, row) ==
  /\ author[a] = AtRest
  /\ selected_profile(row) /\ Usable(row)
  /\ author' = [author EXCEPT ![a] = [pc |-> "chosen", row |-> row]]
  /\ UNCHANGED <<manifest, imported, defined, shown, trusted, manifestEdits>>

(* load_profile_block, by origin; None when it is there no longer.          *)
load_profile_block(row) ==
  CASE row.origin = "project" -> IF row.body \in OwnBlocks THEN row.body ELSE None
    [] row.origin = "imported" -> IF imported = None THEN None ELSE imported.body
    [] row.origin = "discovered" -> IF Discovered(row.source) THEN manifest[row.source] ELSE None

(* The draft of the profile's body over a definition.                       *)
Drafted(a, base, pc) ==
  /\ LET body == load_profile_block(author[a].row)
     IN  author' = [author EXCEPT ![a] =
           IF body = None \/ base = None THEN AtRest
           ELSE [pc |-> pc, base |-> base, text |-> WithInstance(base, a, body), raced |-> FALSE]]
  /\ UNCHANGED <<manifest, imported, defined, shown, trusted, manifestEdits>>

(* The interface drafts what it has read, the API what is there by then.    *)
build_draft(a) == author[a].pc = "drafting" /\ Drafted(a, author[a].base, "drafted")
validate_profile(a) == author[a].pc = "chosen" /\ Drafted(a, defined, "put")

(* Planning may find the text wrong; then nothing is written.               *)
TextPlanned(a, from, to) ==
  /\ author[a].pc = from
  /\ \E valid \in BOOLEAN : author' = [author EXCEPT ![a] =
       IF valid THEN [author[a] EXCEPT !.pc = to] ELSE AtRest]
  /\ UNCHANGED <<manifest, imported, defined, shown, trusted, manifestEdits>>

(* A write marks the writers past their last look as raced.                 *)
Write(a, text) ==
  /\ defined' = text
  /\ author' = [x \in Authors |->
       IF x = a THEN AtRest
       ELSE IF author[x].pc \in {"rename", "unpack"} THEN [author[x] EXCEPT !.raced = TRUE] ELSE author[x]]

(* The interface's create_instance plans the draft, then renames it into    *)
(* place; nobody asks whether the definition is still the one it read.      *)
CreateInstance(a) == TextPlanned(a, "drafted", "instance")

replace_definition(a) ==
  /\ author[a].pc = "instance"
  /\ defined # None
  /\ Write(a, author[a].text)
  /\ UNCHANGED <<manifest, imported, shown, trusted, manifestEdits>>

(* PUT names the hash that the draft was made from; the definition is       *)
(* looked at before it is validated and once more after.                    *)
update_deployment_definition(a) ==
  /\ author[a].pc = "put"
  /\ author' = [author EXCEPT ![a] = IF defined = author[a].base
                                     THEN [author[a] EXCEPT !.pc = "looked"] ELSE AtRest]
  /\ UNCHANGED <<manifest, imported, defined, shown, trusted, manifestEdits>>

validate_definition(a) == TextPlanned(a, "looked", "validated") \/ TextPlanned(a, "create", "link")

(* Mutant: the definition is not looked at again.                           *)
ValidatedOnce(a) ==
  /\ author[a].pc = "validated"
  /\ author' = [author EXCEPT ![a] = [author[a] EXCEPT !.pc = "rename"]]
  /\ UNCHANGED <<manifest, imported, defined, shown, trusted, manifestEdits>>

CheckAgain(a) ==
  /\ author[a].pc = "validated"
  /\ author' = [author EXCEPT ![a] = IF defined = author[a].base
                                     THEN [author[a] EXCEPT !.pc = "rename"] ELSE AtRest]
  /\ UNCHANGED <<manifest, imported, defined, shown, trusted, manifestEdits>>

RenameDefinition(a) ==
  /\ author[a].pc = "rename"
  /\ Write(a, author[a].text)
  /\ UNCHANGED <<manifest, imported, shown, trusted, manifestEdits>>

(* create_deployment validates a definition of its own, and links it into   *)
(* place, which fails when there is one.                                    *)
create_deployment(a) ==
  /\ author[a] = AtRest
  /\ author' = [author EXCEPT ![a] = [pc |-> "create", text |-> {[by |-> a, body |-> ProjectBody]}]]
  /\ UNCHANGED <<manifest, imported, defined, shown, trusted, manifestEdits>>

LinkDefinition(a) ==
  /\ author[a].pc = "link"
  /\ IF defined = None THEN Write(a, author[a].text)
     ELSE author' = [author EXCEPT ![a] = AtRest] /\ UNCHANGED defined
  /\ UNCHANGED <<manifest, imported, shown, trusted, manifestEdits>>

(* An import of a bundle reads the whole bundle, refuses one that is not    *)
(* intact, and looks for what is in its way, unless it is forced.           *)
verify_portable_bundle(intact) == intact

NothingInTheWay == defined = None

import_portable_bundle(a, intact, force) ==
  /\ author[a] = AtRest
  /\ verify_portable_bundle(intact) /\ (force \/ NothingInTheWay)
  /\ author' = [author EXCEPT ![a] =
       [pc |-> "unpack", text |-> {[by |-> a, body |-> ProjectBody]}, force |-> force, raced |-> FALSE]]
  /\ UNCHANGED <<manifest, imported, defined, shown, trusted, manifestEdits>>

(* The definition is planned once it is written; a refusal leaves it there. *)
write_imported_bundle(a) ==
  /\ author[a].pc = "unpack"
  /\ Write(a, author[a].text)
  /\ UNCHANGED <<manifest, imported, shown, trusted, manifestEdits>>

(* apmpr init looks for its files in the same way.                          *)
scaffold(a, force) ==
  /\ author[a] = AtRest
  /\ force \/ NothingInTheWay
  /\ author' = [author EXCEPT ![a] =
       [pc |-> "unpack", text |-> {[by |-> a, body |-> ProjectBody]}, force |-> force, raced |-> FALSE]]
  /\ UNCHANGED <<manifest, imported, defined, shown, trusted, manifestEdits>>

(* A migration respells the definition it has read, plans the result, and   *)
(* renames it into place as create_instance does.                           *)
migrate(a) ==
  /\ author[a] = AtRest /\ defined # None
  /\ author' = [author EXCEPT ![a] =
       [pc |-> "instance", base |-> defined, text |-> defined, raced |-> FALSE]]
  /\ UNCHANGED <<manifest, imported, defined, shown, trusted, manifestEdits>>

-----------------------------------------------------------------------------
ProfilesNext ==
  \/ \E s \in ProfileSources : EditManifest(s)
  \/ remove_profile \/ RemoveProfile
  \/ \E a \in Authors, s \in ProfileSources : ReviewManifest(a, s) \/ ConfirmImport(a, s)
  \/ \E a \in Authors, row \in Listed : ChooseProfile(a, row) \/ ChooseRow(a, row)
  \/ \E a \in Authors :
       \/ import_profile(a) \/ import_reviewed_source_profile(a) \/ import_source_profile(a)
       \/ build_draft(a) \/ validate_profile(a)
       \/ CreateInstance(a) \/ replace_definition(a)
       \/ update_deployment_definition(a) \/ validate_definition(a) \/ CheckAgain(a) \/ RenameDefinition(a)
       \/ create_deployment(a) \/ LinkDefinition(a)
       \/ \E intact, force \in BOOLEAN : import_portable_bundle(a, intact, force)
       \/ write_imported_bundle(a) \/ migrate(a)
       \/ \E force \in BOOLEAN : scaffold(a, force)

ProfilesSpec == ProfilesInit /\ [][ProfilesNext]_pvars

-----------------------------------------------------------------------------
(* What an API import records has been put before somebody in a review, and *)
(* no instance has a body that neither the project nor an import brought:   *)
(* not even when manifests change between the review, the listing and the   *)
(* import, or imports between the choice and the draft                      *)
(* (import_reviewed_source_profile, create_instance, and validate_profile   *)
(* for a target; a text that a client writes by hand may hold anything).    *)
ReviewedBeforeUse ==
  /\ imported # None /\ imported.via = "api" => imported.body \in shown
  /\ defined # None => \A i \in defined : i.body \in trusted \cup {ProjectBody}

(* A definition is never created over another, and a replacement overwrites *)
(* only the text it was made from, unless another write fell between its    *)
(* second look and its rename; an import that is not forced overwrites      *)
(* nothing, unless a definition came since its look (create_deployment's    *)
(* hard link, update_deployment_definition's two looks,                     *)
(* write_imported_bundle's check of every destination).                     *)
EditsAreGuarded ==
  [][\A a \in Authors : author[a] # AtRest /\ author'[a] = AtRest /\ defined' # defined =>
       /\ author[a].pc = "link" => defined = None
       /\ author[a].pc = "rename" => (defined = author[a].base \/ author[a].raced)
       /\ author[a].pc = "unpack" => (defined = None \/ author[a].force \/ author[a].raced)]_pvars
=============================================================================
