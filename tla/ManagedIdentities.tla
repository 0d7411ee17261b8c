-------------------------- MODULE ManagedIdentities --------------------------
(***************************************************************************)
(* The files a host gateway identifies itself with: the certificate and    *)
(* private key of an HTTPS listener, the credential of a proxy listener,   *)
(* and beside them markers that say the files were generated and what they *)
(* contained.  The router's commands generate what is missing, renew what  *)
(* expires or names other domains, and clean up; a user may keep a pair or *)
(* a credential of their own in the same places.  Files are written one    *)
(* after the other, each by a rename, and a command may die between two.   *)
(* The managed browser profile takes the credential into its helper.       *)
(***************************************************************************)
EXTENDS Nothing, Naturals

CONSTANTS
  Workers,    \* running commands
  Owners,     \* deployments that configure the same paths
  Domains,    \* the sets of names a configuration can ask for
  MaxFiles    \* how many files are ever made

IdentityFiles == {"key", "cert", "marker", "credential", "owned"}

VARIABLES
  idf,     \* each file: its content, or None
  work,    \* each command: its step and its deployment
  names,   \* the domains the configuration asks for
  made,    \* how many files were made, bounded by MaxFiles
  helper   \* the browser profile's authentication helper

ivars == <<idf, work, names, made, helper>>

Off == [pc |-> "idle", owner |-> None]

IdentitiesInit ==
  /\ idf = [f \in IdentityFiles |-> None]
  /\ work = [w \in Workers |-> Off]
  /\ names \in Domains /\ made = 0
  /\ helper = [stage |-> "absent", password |-> None]

-----------------------------------------------------------------------------
Content(by) == [by |-> by, n |-> made + 1]

write_atomic(f, content) ==
  /\ made < MaxFiles
  /\ made' = made + 1
  /\ idf' = [idf EXCEPT ![f] = content]

remove_regular_file(f) == idf' = [idf EXCEPT ![f] = None] /\ UNCHANGED made

Go(w, pc) == work' = [work EXCEPT ![w].pc = pc] /\ UNCHANGED <<names, helper>>

Begin(w, owner, pc) ==
  /\ work[w] = Off
  /\ work' = [work EXCEPT ![w] = [pc |-> pc, owner |-> owner]]
  /\ UNCHANGED <<idf, names, made, helper>>

read_marker == idf["marker"]

(* Mutant: the digests are not compared.                                     *)
MarkerOfOwner(owner) ==
  /\ idf["cert"] # None /\ idf["key"] # None
  /\ read_marker.owner = owner

validate_certificate_marker(owner) ==
  /\ idf["cert"] # None /\ idf["key"] # None
  /\ read_marker.owner = owner
  /\ read_marker.cert = idf["cert"] /\ read_marker.key = idf["key"]

Renewable == read_marker.old \/ read_marker.domains # names

(* A pair without a marker is the user's; half a pair, or a marker that does *)
(* not match, is an error.                                                   *)
ensure_certificates(w, owner) ==
  /\ (idf["cert"] # None) = (idf["key"] # None)
  /\ IF read_marker = None THEN idf["cert"] = None
     ELSE validate_certificate_marker(owner) /\ Renewable
  /\ Begin(w, owner, "key")

GenerateKey(w) ==
  /\ work[w].pc = "key"
  /\ write_atomic("key", Content("managed")) /\ Go(w, "cert")

generate_identity(w) ==
  /\ work[w].pc = "cert"
  /\ write_atomic("cert", Content("managed")) /\ Go(w, "marker")

(* The marker records the digests of the files as they are by then.          *)
WriteMarker(w) ==
  /\ work[w].pc = "marker"
  /\ write_atomic("marker", [owner |-> work[w].owner, cert |-> idf["cert"], key |-> idf["key"],
                             domains |-> names, old |-> FALSE])
  /\ work' = [work EXCEPT ![w] = Off] /\ UNCHANGED <<names, helper>>

cleanup_certificates(w, owner) ==
  /\ read_marker # None /\ validate_certificate_marker(owner)
  /\ Begin(w, owner, "remove key")

RemoveKey(w) ==
  /\ work[w].pc = "remove key" /\ remove_regular_file("key") /\ Go(w, "remove cert")

RemoveCertificate(w) ==
  /\ work[w].pc = "remove cert" /\ remove_regular_file("cert") /\ Go(w, "remove marker")

RemoveMarker(w) ==
  /\ work[w].pc = "remove marker" /\ remove_regular_file("marker")
  /\ work' = [work EXCEPT ![w] = Off] /\ UNCHANGED <<names, helper>>

-----------------------------------------------------------------------------
validate_credential_marker(owner) ==
  /\ idf["credential"] # None
  /\ idf["owned"].owner = owner /\ idf["owned"].credential = idf["credential"]

ensure_proxy_credentials(w, owner) ==
  /\ idf["credential"] = None
  /\ Begin(w, owner, "credential")

WriteCredential(w) ==
  /\ work[w].pc = "credential"
  /\ write_atomic("credential", Content("managed")) /\ Go(w, "owned")

WriteCredentialMarker(w) ==
  /\ work[w].pc = "owned"
  /\ write_atomic("owned", [owner |-> work[w].owner, credential |-> idf["credential"]])
  /\ work' = [work EXCEPT ![w] = Off] /\ UNCHANGED <<names, helper>>

cleanup_proxy_credentials(w, owner) ==
  /\ idf["owned"] # None /\ validate_credential_marker(owner)
  /\ Begin(w, owner, "remove credential")

RemoveCredential(w) ==
  /\ work[w].pc = "remove credential" /\ remove_regular_file("credential") /\ Go(w, "remove owned")

RemoveCredentialMarker(w) ==
  /\ work[w].pc = "remove owned" /\ remove_regular_file("owned")
  /\ work' = [work EXCEPT ![w] = Off] /\ UNCHANGED <<names, helper>>

CommandDies(w) ==
  /\ work[w] # Off
  /\ work' = [work EXCEPT ![w] = Off]
  /\ UNCHANGED <<idf, names, made, helper>>

-----------------------------------------------------------------------------
(* The helper's directory is made once and must carry the marker afterwards; *)
(* every opening replaces the password in it.                                *)
load_proxy_credential == idf["credential"]

materialize_auth_extension ==
  /\ load_proxy_credential # None
  /\ \/ /\ helper.stage = "absent" /\ helper' = [helper EXCEPT !.stage = "made"]
     \/ /\ helper.stage = "made" /\ helper' = [helper EXCEPT !.stage = "owned"]
     \/ /\ helper.stage = "owned" /\ helper.password # load_proxy_credential
        /\ helper' = [helper EXCEPT !.password = load_proxy_credential]
  /\ UNCHANGED <<idf, work, names, made>>

(* A browser command that dies before it marked the directory leaves it      *)
(* unmarked, and no later one touches it.                                    *)
OpenDies ==
  /\ helper.stage = "made"
  /\ helper' = [helper EXCEPT !.stage = "refused"]
  /\ UNCHANGED <<idf, work, names, made>>

-----------------------------------------------------------------------------
(* Users do not swap files under a running command.                          *)
Quiet == \A w \in Workers : work[w] = Off

UserPlacesPair ==
  /\ Quiet /\ made < MaxFiles
  /\ idf' = [idf EXCEPT !["key"] = Content("user"), !["cert"] = Content("user")]
  /\ made' = made + 1 /\ UNCHANGED <<work, names, helper>>

UserPlacesCredential ==
  /\ Quiet /\ made < MaxFiles
  /\ idf' = [idf EXCEPT !["credential"] = Content("user")]
  /\ made' = made + 1 /\ UNCHANGED <<work, names, helper>>

ConfigurationChanges ==
  /\ names' \in Domains \ {names}
  /\ UNCHANGED <<idf, work, made, helper>>

CertificateAges ==
  /\ read_marker # None /\ ~read_marker.old
  /\ idf' = [idf EXCEPT !["marker"].old = TRUE]
  /\ UNCHANGED <<work, names, made, helper>>

CommandSteps(w) ==
  \/ \E owner \in Owners : \/ ensure_certificates(w, owner) \/ cleanup_certificates(w, owner)
                           \/ ensure_proxy_credentials(w, owner) \/ cleanup_proxy_credentials(w, owner)
  \/ GenerateKey(w) \/ generate_identity(w) \/ WriteMarker(w)
  \/ RemoveKey(w) \/ RemoveCertificate(w) \/ RemoveMarker(w)
  \/ WriteCredential(w) \/ WriteCredentialMarker(w) \/ RemoveCredential(w) \/ RemoveCredentialMarker(w)
  \/ CommandDies(w)

IdentitiesNext ==
  \/ \E w \in Workers : CommandSteps(w)
  \/ materialize_auth_extension \/ OpenDies
  \/ UserPlacesPair \/ UserPlacesCredential \/ ConfigurationChanges \/ CertificateAges

IdentitiesSpec == IdentitiesInit /\ [][IdentitiesNext]_ivars

-----------------------------------------------------------------------------
(* A certificate, key or credential the user put in place is never replaced  *)
(* or removed by a command, however deaths of earlier commands left the      *)
(* generated files and markers around it: ensure_* and cleanup_* touch only  *)
(* what a matching marker claims.                                            *)
UserIdentitiesAreKept ==
  [][\A f \in {"key", "cert", "credential"} :
       idf[f] # None /\ idf[f].by = "user" => idf'[f] \in {idf[f], Content("user")}]_ivars

=============================================================================
