---------------------------- MODULE ProjectProofs ----------------------------
(***************************************************************************)
(* Proofs about what the tool keeps for a project and may not lose or      *)
(* replace: the identities of the host gateway (ManagedIdentities), the    *)
(* records of resources (StateRecords), and definitions and profiles       *)
(* (StartupProfiles).  Each holds for any number of commands, authors,     *)
(* devices and names.                                                      *)
(***************************************************************************)
EXTENDS ManagedIdentities, StateRecords, StartupProfiles, TLAPS

-----------------------------------------------------------------------------
(* Identities.  A marker claims only what was generated; a command that is  *)
(* past its look at the marker stands before files that are not the user's, *)
(* and the user leaves the files alone while a command runs.                *)
NotUsers(content) == content = None \/ content.by = "managed"

PairSteps == {"key", "cert", "marker", "remove key", "remove cert", "remove marker"}
CredentialSteps == {"credential", "owned", "remove credential", "remove owned"}

Claims ==
  /\ idf["marker"] # None => NotUsers(idf["marker"].cert) /\ NotUsers(idf["marker"].key)
  /\ idf["owned"] # None => NotUsers(idf["owned"].credential)

BeforeGenerated(w) ==
  /\ work[w].pc \in PairSteps => NotUsers(idf["key"]) /\ NotUsers(idf["cert"])
  /\ work[w].pc \in CredentialSteps => NotUsers(idf["credential"])

WorkStates == [pc : {"idle"} \cup PairSteps \cup CredentialSteps, owner : Owners \cup {None}]

IdentitiesInv ==
  /\ idf = [f \in IdentityFiles |-> idf[f]]
  /\ work \in [Workers -> WorkStates]
  /\ Claims
  /\ \A w \in Workers : BeforeGenerated(w)

UserKept ==
  \A f \in {"key", "cert", "credential"} :
    idf[f] # None /\ idf[f].by = "user" => idf'[f] \in {idf[f], Content("user")}

(* The file a step writes or removes, and the others.                       *)
LEMMA OneFile ==
  ASSUME IdentitiesInv, NEW f \in IdentityFiles, NEW content, idf' = [idf EXCEPT ![f] = content]
  PROVE  /\ idf' = [g \in IdentityFiles |-> idf'[g]]
         /\ idf'[f] = content
         /\ \A g \in IdentityFiles \ {f} : idf'[g] = idf[g]
BY Zenon DEF IdentitiesInv

(* A generated file in the place of one that was not the user's, or its     *)
(* removal, by a command that moves on.                                     *)
LEMMA CommandFile ==
  ASSUME IdentitiesInv, NEW w \in Workers, NEW f \in {"key", "cert", "credential"}, NEW content,
         idf' = [idf EXCEPT ![f] = content], NotUsers(content), NotUsers(idf[f]),
         NEW r \in WorkStates, work' = [work EXCEPT ![w] = r],
         r.pc \in PairSteps => work[w].pc \in PairSteps,
         r.pc \in CredentialSteps => work[w].pc \in CredentialSteps
  PROVE  IdentitiesInv' /\ UserKept
<1>1. /\ idf' = [g \in IdentityFiles |-> idf'[g]]
      /\ idf'[f] = content
      /\ \A g \in IdentityFiles \ {f} : idf'[g] = idf[g]
  <2>1. f \in IdentityFiles
    BY Zenon DEF IdentityFiles
  <2> QED
    BY Zenon, <2>1, OneFile
<1>2. \A g \in {"key", "cert", "credential"} : NotUsers(idf[g]) => NotUsers(idf'[g])
  BY Zenon, <1>1 DEF IdentityFiles
<1>3. Claims'
  <2>1. idf'["marker"] = idf["marker"] /\ idf'["owned"] = idf["owned"]
    BY Zenon, <1>1 DEF IdentityFiles
  <2> QED
    BY Zenon, <2>1 DEF IdentitiesInv, Claims, NotUsers
<1>4. work' \in [Workers -> WorkStates]
  BY Zenon DEF IdentitiesInv
<1>5. ASSUME NEW v \in Workers PROVE BeforeGenerated(v)'
  <2>1. /\ work'[v].pc \in PairSteps => work[v].pc \in PairSteps
        /\ work'[v].pc \in CredentialSteps => work[v].pc \in CredentialSteps
    BY Zenon DEF IdentitiesInv
  <2> QED
    BY Zenon, <1>2, <2>1 DEF IdentitiesInv, BeforeGenerated, NotUsers
<1>6. UserKept
  BY Zenon, <1>1 DEF UserKept, NotUsers, IdentityFiles
<1> QED
  BY Zenon, <1>1, <1>3, <1>4, <1>5, <1>6 DEF IdentitiesInv

(* A marker, written or removed last.                                       *)
LEMMA MarkerFile ==
  ASSUME IdentitiesInv, NEW w \in Workers, NEW f \in {"marker", "owned"}, NEW content,
         idf' = [idf EXCEPT ![f] = content], work' = [work EXCEPT ![w] = Off],
         content = None
           \/ (f = "marker" /\ content.cert = idf["cert"] /\ content.key = idf["key"] /\ work[w].pc \in PairSteps)
           \/ (f = "owned" /\ content.credential = idf["credential"] /\ work[w].pc \in CredentialSteps)
  PROVE  IdentitiesInv' /\ UserKept
<1>1. /\ idf' = [g \in IdentityFiles |-> idf'[g]]
      /\ idf'[f] = content
      /\ \A g \in IdentityFiles \ {f} : idf'[g] = idf[g]
  <2>1. f \in IdentityFiles
    BY Zenon DEF IdentityFiles
  <2> QED
    BY Zenon, <2>1, OneFile
<1>2. Claims'
  <2>1. CASE f = "marker"
    <3>1. idf'["owned"] = idf["owned"] /\ idf'["marker"] = content
      BY Zenon, <1>1, <2>1 DEF IdentityFiles
    <3>2. content # None => NotUsers(content.cert) /\ NotUsers(content.key)
      BY Zenon, <2>1 DEF IdentitiesInv, BeforeGenerated
    <3> QED
      BY Zenon, <3>1, <3>2 DEF IdentitiesInv, Claims, NotUsers
  <2>2. CASE f = "owned"
    <3>1. idf'["marker"] = idf["marker"] /\ idf'["owned"] = content
      BY Zenon, <1>1, <2>2 DEF IdentityFiles
    <3>2. content # None => NotUsers(content.credential)
      BY Zenon, <2>2 DEF IdentitiesInv, BeforeGenerated
    <3> QED
      BY Zenon, <3>1, <3>2 DEF IdentitiesInv, Claims, NotUsers
  <2> QED
    BY Zenon, <2>1, <2>2
<1>3. Off \in WorkStates /\ Off.pc = "idle"
  BY Zenon DEF Off, WorkStates
<1>4. work' \in [Workers -> WorkStates]
  BY Zenon, <1>3 DEF IdentitiesInv
<1>5. ASSUME NEW v \in Workers PROVE BeforeGenerated(v)'
  <2>1. work'[v] = work[v] \/ work'[v].pc = "idle"
    BY Zenon, <1>3 DEF IdentitiesInv
  <2> QED
    BY Zenon, <1>1, <2>1 DEF IdentitiesInv, BeforeGenerated, IdentityFiles, PairSteps, CredentialSteps, NotUsers
<1>6. UserKept
  BY Zenon, <1>1 DEF UserKept, IdentityFiles
<1> QED
  BY Zenon, <1>1, <1>2, <1>4, <1>5, <1>6 DEF IdentitiesInv

(* The files stay; a command begins before files it may touch, or is over.  *)
LEMMA FilesStay ==
  ASSUME IdentitiesInv, idf' = idf, work' \in [Workers -> WorkStates],
         \A w \in Workers : work'[w] = work[w] \/ BeforeGenerated(w)'
  PROVE  IdentitiesInv' /\ UserKept
<1>1. \A w \in Workers : BeforeGenerated(w)'
  BY Zenon DEF IdentitiesInv, BeforeGenerated, NotUsers
<1>2. Claims'
  BY Zenon DEF IdentitiesInv, Claims, NotUsers
<1>3. UserKept
  BY Zenon DEF UserKept
<1> QED
  BY Zenon, <1>1, <1>2, <1>3 DEF IdentitiesInv

LEMMA CommandBegins ==
  ASSUME IdentitiesInv, NEW w \in Workers, NEW owner \in Owners,
         NEW pc \in PairSteps \cup CredentialSteps, Begin(w, owner, pc),
         pc \in PairSteps => NotUsers(idf["key"]) /\ NotUsers(idf["cert"]),
         pc \in CredentialSteps => NotUsers(idf["credential"])
  PROVE  IdentitiesInv' /\ UserKept
<1> DEFINE r == [pc |-> pc, owner |-> owner]
<1>1. r \in WorkStates /\ r.pc = pc
  BY Zenon DEF WorkStates
<1>2. work' = [work EXCEPT ![w] = r] /\ idf' = idf
  BY Zenon DEF Begin
<1> HIDE DEF r
<1>3. work' \in [Workers -> WorkStates] /\ work'[w] = r /\ \A v \in Workers \ {w} : work'[v] = work[v]
  BY Zenon, <1>1, <1>2 DEF IdentitiesInv
<1>4. BeforeGenerated(w)'
  BY Zenon, <1>1, <1>2, <1>3 DEF BeforeGenerated, NotUsers
<1> QED
  BY Zenon, <1>2, <1>3, <1>4, FilesStay

LEMMA CommandStep ==
  ASSUME IdentitiesInv, NEW w \in Workers, CommandSteps(w)
  PROVE  IdentitiesInv' /\ UserKept
<1>a. /\ work[w].pc \in PairSteps => NotUsers(idf["key"]) /\ NotUsers(idf["cert"])
      /\ work[w].pc \in CredentialSteps => NotUsers(idf["credential"])
  BY Zenon DEF IdentitiesInv, BeforeGenerated
<1>b. NotUsers(None) /\ NotUsers(Content("managed"))
  BY Zenon DEF NotUsers, Content
<1>c. ASSUME NEW pc \in PairSteps \cup CredentialSteps, Go(w, pc)
      PROVE  \E r \in WorkStates : work' = [work EXCEPT ![w] = r] /\ r.pc = pc
  <2> DEFINE r == [work[w] EXCEPT !.pc = pc]
  <2>1. r \in WorkStates /\ r.pc = pc
    BY Zenon DEF IdentitiesInv, WorkStates
  <2>2. work' = [work EXCEPT ![w] = r]
    BY Zenon, <1>c DEF Go, IdentitiesInv
  <2> QED
    BY Zenon, <2>1, <2>2
<1>1. ASSUME NEW owner \in Owners, ensure_certificates(w, owner)
      PROVE  IdentitiesInv' /\ UserKept
  <2>1. NotUsers(idf["key"]) /\ NotUsers(idf["cert"])
    BY Zenon, <1>1 DEF ensure_certificates, read_marker, validate_certificate_marker, IdentitiesInv, Claims, NotUsers
  <2> QED
    BY Zenon, <1>1, <2>1, CommandBegins DEF ensure_certificates, PairSteps, CredentialSteps
<1>2. ASSUME NEW owner \in Owners, cleanup_certificates(w, owner)
      PROVE  IdentitiesInv' /\ UserKept
  <2>1. NotUsers(idf["key"]) /\ NotUsers(idf["cert"])
    BY Zenon, <1>2 DEF cleanup_certificates, read_marker, validate_certificate_marker, IdentitiesInv, Claims, NotUsers
  <2> QED
    BY Zenon, <1>2, <2>1, CommandBegins DEF cleanup_certificates, PairSteps, CredentialSteps
<1>3. ASSUME NEW owner \in Owners, ensure_proxy_credentials(w, owner)
      PROVE  IdentitiesInv' /\ UserKept
  BY Zenon, <1>3, <1>b, CommandBegins DEF ensure_proxy_credentials, PairSteps, CredentialSteps
<1>4. ASSUME NEW owner \in Owners, cleanup_proxy_credentials(w, owner)
      PROVE  IdentitiesInv' /\ UserKept
  <2>1. NotUsers(idf["credential"])
    BY Zenon, <1>4 DEF cleanup_proxy_credentials, validate_credential_marker, IdentitiesInv, Claims, NotUsers
  <2> QED
    BY Zenon, <1>4, <2>1, CommandBegins DEF cleanup_proxy_credentials, PairSteps, CredentialSteps
<1>5. CASE GenerateKey(w)
  <2>1. Go(w, "cert") /\ work[w].pc = "key" /\ idf' = [idf EXCEPT !["key"] = Content("managed")]
    BY Zenon, <1>5 DEF GenerateKey, write_atomic
  <2>2. PICK r \in WorkStates : work' = [work EXCEPT ![w] = r] /\ r.pc = "cert"
    BY Zenon, <1>c, <2>1 DEF PairSteps
  <2> QED
    BY Zenon, <1>a, <1>b, <2>1, <2>2, CommandFile DEF PairSteps, CredentialSteps
<1>6. CASE generate_identity(w)
  <2>1. Go(w, "marker") /\ work[w].pc = "cert" /\ idf' = [idf EXCEPT !["cert"] = Content("managed")]
    BY Zenon, <1>6 DEF generate_identity, write_atomic
  <2>2. PICK r \in WorkStates : work' = [work EXCEPT ![w] = r] /\ r.pc = "marker"
    BY Zenon, <1>c, <2>1 DEF PairSteps
  <2> QED
    BY Zenon, <1>a, <1>b, <2>1, <2>2, CommandFile DEF PairSteps, CredentialSteps
<1>7. CASE WriteMarker(w)
  <2> DEFINE content == [owner |-> work[w].owner, cert |-> idf["cert"], key |-> idf["key"],
                         domains |-> names, old |-> FALSE]
  <2>1. content.cert = idf["cert"] /\ content.key = idf["key"]
    BY Zenon
  <2>2. /\ idf' = [idf EXCEPT !["marker"] = content] /\ work' = [work EXCEPT ![w] = Off]
        /\ work[w].pc \in PairSteps
    BY Zenon, <1>7 DEF WriteMarker, write_atomic, PairSteps
  <2> HIDE DEF content
  <2> QED
    BY Zenon, <2>1, <2>2, MarkerFile
<1>8. CASE RemoveKey(w)
  <2>1. Go(w, "remove cert") /\ work[w].pc = "remove key" /\ idf' = [idf EXCEPT !["key"] = None]
    BY Zenon, <1>8 DEF RemoveKey, remove_regular_file
  <2>2. PICK r \in WorkStates : work' = [work EXCEPT ![w] = r] /\ r.pc = "remove cert"
    BY Zenon, <1>c, <2>1 DEF PairSteps
  <2> QED
    BY Zenon, <1>a, <1>b, <2>1, <2>2, CommandFile DEF PairSteps, CredentialSteps
<1>9. CASE RemoveCertificate(w)
  <2>1. Go(w, "remove marker") /\ work[w].pc = "remove cert" /\ idf' = [idf EXCEPT !["cert"] = None]
    BY Zenon, <1>9 DEF RemoveCertificate, remove_regular_file
  <2>2. PICK r \in WorkStates : work' = [work EXCEPT ![w] = r] /\ r.pc = "remove marker"
    BY Zenon, <1>c, <2>1 DEF PairSteps
  <2> QED
    BY Zenon, <1>a, <1>b, <2>1, <2>2, CommandFile DEF PairSteps, CredentialSteps
<1>10. CASE RemoveMarker(w)
  BY Zenon, <1>10, MarkerFile DEF RemoveMarker, remove_regular_file
<1>11. CASE WriteCredential(w)
  <2>1. /\ Go(w, "owned") /\ work[w].pc = "credential"
        /\ idf' = [idf EXCEPT !["credential"] = Content("managed")]
    BY Zenon, <1>11 DEF WriteCredential, write_atomic
  <2>2. PICK r \in WorkStates : work' = [work EXCEPT ![w] = r] /\ r.pc = "owned"
    BY Zenon, <1>c, <2>1 DEF CredentialSteps
  <2> QED
    BY Zenon, <1>a, <1>b, <2>1, <2>2, CommandFile DEF PairSteps, CredentialSteps
<1>12. CASE WriteCredentialMarker(w)
  <2> DEFINE content == [owner |-> work[w].owner, credential |-> idf["credential"]]
  <2>1. content.credential = idf["credential"]
    BY Zenon
  <2>2. /\ idf' = [idf EXCEPT !["owned"] = content] /\ work' = [work EXCEPT ![w] = Off]
        /\ work[w].pc \in CredentialSteps
    BY Zenon, <1>12 DEF WriteCredentialMarker, write_atomic, CredentialSteps
  <2> HIDE DEF content
  <2> QED
    BY Zenon, <2>1, <2>2, MarkerFile
<1>13. CASE RemoveCredential(w)
  <2>1. /\ Go(w, "remove owned") /\ work[w].pc = "remove credential"
        /\ idf' = [idf EXCEPT !["credential"] = None]
    BY Zenon, <1>13 DEF RemoveCredential, remove_regular_file
  <2>2. PICK r \in WorkStates : work' = [work EXCEPT ![w] = r] /\ r.pc = "remove owned"
    BY Zenon, <1>c, <2>1 DEF CredentialSteps
  <2> QED
    BY Zenon, <1>a, <1>b, <2>1, <2>2, CommandFile DEF PairSteps, CredentialSteps
<1>14. CASE RemoveCredentialMarker(w)
  BY Zenon, <1>14, MarkerFile DEF RemoveCredentialMarker, remove_regular_file
<1>15. CASE CommandDies(w)
  <2>1. Off \in WorkStates /\ Off.pc = "idle"
    BY Zenon DEF Off, WorkStates
  <2>2. /\ idf' = idf /\ work' \in [Workers -> WorkStates] /\ work'[w] = Off
        /\ \A v \in Workers \ {w} : work'[v] = work[v]
    BY Zenon, <1>15, <2>1 DEF CommandDies, IdentitiesInv
  <2>3. BeforeGenerated(w)'
    BY Zenon, <2>1, <2>2 DEF BeforeGenerated, PairSteps, CredentialSteps
  <2> QED
    BY Zenon, <2>2, <2>3, FilesStay
<1> QED
  BY Zenon, <1>1, <1>2, <1>3, <1>4, <1>5, <1>6, <1>7, <1>8, <1>9, <1>10, <1>11, <1>12, <1>13, <1>14, <1>15
     DEF CommandSteps

(* The user puts files in place while nobody works on them.                 *)
LEMMA UserStep ==
  ASSUME IdentitiesInv, UserPlacesPair \/ UserPlacesCredential
  PROVE  IdentitiesInv' /\ UserKept
<1>1. \A w \in Workers : work[w].pc = "idle"
  BY DEF UserPlacesPair, UserPlacesCredential, Quiet, Off
<1>2. /\ work' = work
      /\ idf' = [g \in IdentityFiles |-> idf'[g]]
      /\ \A g \in {"key", "cert", "credential"} : idf'[g] \in {idf[g], Content("user")}
      /\ idf'["marker"] = idf["marker"] /\ idf'["owned"] = idf["owned"]
  BY Zenon DEF UserPlacesPair, UserPlacesCredential, IdentitiesInv, IdentityFiles
<1>3. \A w \in Workers : BeforeGenerated(w)'
  BY Zenon, <1>1, <1>2 DEF BeforeGenerated, PairSteps, CredentialSteps
<1>4. Claims'
  BY Zenon, <1>2 DEF IdentitiesInv, Claims, NotUsers
<1>5. UserKept
  BY Zenon, <1>2 DEF UserKept
<1> QED
  BY Zenon, <1>2, <1>3, <1>4, <1>5 DEF IdentitiesInv

(* An expired certificate changes what its marker says of the time only.    *)
LEMMA AgeStep ==
  ASSUME IdentitiesInv, CertificateAges
  PROVE  IdentitiesInv' /\ UserKept
<1> DEFINE marker == [idf["marker"] EXCEPT !.old = TRUE]
<1>1. idf' = [idf EXCEPT !["marker"] = marker] /\ work' = work /\ idf["marker"] # None
  BY Zenon DEF CertificateAges, read_marker, IdentitiesInv
<1>2. marker.cert = idf["marker"].cert /\ marker.key = idf["marker"].key
  OBVIOUS
<1> HIDE DEF marker
<1>3. /\ idf' = [g \in IdentityFiles |-> idf'[g]]
      /\ idf'["marker"] = marker
      /\ \A g \in IdentityFiles \ {"marker"} : idf'[g] = idf[g]
  BY Zenon, <1>1, OneFile DEF IdentityFiles
<1>4. Claims'
  BY Zenon, <1>1, <1>2, <1>3 DEF IdentitiesInv, Claims, NotUsers, IdentityFiles
<1>5. \A w \in Workers : BeforeGenerated(w)'
  BY Zenon, <1>1, <1>3 DEF IdentitiesInv, BeforeGenerated, IdentityFiles, NotUsers
<1>6. UserKept
  BY Zenon, <1>3 DEF UserKept, IdentityFiles
<1> QED
  BY Zenon, <1>1, <1>3, <1>4, <1>5, <1>6 DEF IdentitiesInv

LEMMA IdentitiesStep ==
  ASSUME IdentitiesInv, [IdentitiesNext]_ivars
  PROVE  IdentitiesInv' /\ UserKept
<1>1. CASE materialize_auth_extension \/ OpenDies \/ ConfigurationChanges \/ UNCHANGED ivars
  <2>1. UNCHANGED <<idf, work>>
    BY Zenon, <1>1 DEF materialize_auth_extension, OpenDies, ConfigurationChanges, ivars
  <2> QED
    BY Zenon, <2>1, FilesStay DEF IdentitiesInv
<1> QED
  BY Zenon, <1>1, CommandStep, UserStep, AgeStep DEF IdentitiesNext

(* What a marker claims was generated, and a command past its check stands  *)
(* before generated files, in every state.                                  *)
THEOREM IdentitiesInvariance == IdentitiesSpec => []IdentitiesInv
<1>1. ASSUME IdentitiesInit PROVE IdentitiesInv
  <2>1. idf = [f \in IdentityFiles |-> idf[f]] /\ Claims
    BY Zenon, <1>1 DEF IdentitiesInit, IdentityFiles, Claims
  <2>2. Off \in WorkStates /\ work = [w \in Workers |-> Off]
    BY Zenon, <1>1 DEF IdentitiesInit, Off, WorkStates
  <2>3. work \in [Workers -> WorkStates]
    BY Zenon, <2>2
  <2>4. \A w \in Workers : BeforeGenerated(w)
    BY Zenon, <2>2 DEF BeforeGenerated, Off, PairSteps, CredentialSteps
  <2> QED
    BY Zenon, <2>1, <2>3, <2>4 DEF IdentitiesInv
<1> QED
  BY <1>1, IdentitiesStep, PTL DEF IdentitiesSpec

(* A certificate, key or credential of the user's is never replaced or      *)
(* removed by the ensure and cleanup functions, for any number of commands  *)
(* and of deaths between their writes.                                      *)
THEOREM UserIdentitiesKept == IdentitiesSpec => UserIdentitiesAreKept
<1>1. IdentitiesInv /\ [IdentitiesNext]_ivars => [UserKept]_ivars
  BY Zenon, IdentitiesStep
<1> QED
  BY <1>1, IdentitiesInvariance, PTL DEF IdentitiesSpec, UserIdentitiesAreKept, UserKept

-----------------------------------------------------------------------------
(* Records.  Between its look at the records and its transaction, what a    *)
(* reconciliation keeps are the rows it read of the devices it lost.        *)
ObserverStates ==
  [pc : {"idle", "asking", "storing"}, left : SUBSET (Projects \X DeviceNames),
   seen : SUBSET (Projects \X Everywhere), lost : SUBSET DeviceNames,
   read : SUBSET (Projects \X Everywhere), kept : SUBSET (Projects \X Everywhere)]

PlacesOf == [Projects -> {None} \cup SUBSET Everywhere]

KeepsTheLost(o) ==
  observer[o].pc = "storing" => observer[o].kept = {x \in observer[o].read : x[2] \in observer[o].lost}

RecordsInv ==
  /\ placed \in PlacesOf /\ generated \in PlacesOf
  /\ resources \subseteq Projects \X Everywhere
  /\ records \subseteq Projects \X Everywhere
  /\ observer \in [Observers -> ObserverStates]
  /\ \A o \in Observers : KeepsTheLost(o)

RecordsKept ==
  \A o \in Observers, x \in records \ records' :
       /\ observer[o].pc = "storing" /\ observer'[o].pc = "idle"
       /\ x[2] \in observer[o].lost
       => observer[o].read # records

(* One reconciliation moves on.                                             *)
LEMMA OneObserver ==
  ASSUME RecordsInv, NEW o \in Observers, NEW r \in ObserverStates, With(o, r),
         r.pc = "storing" => r.kept = {x \in r.read : x[2] \in r.lost},
         records' \subseteq Projects \X Everywhere
  PROVE  RecordsInv'
<1>1. observer' = [observer EXCEPT ![o] = r] /\ UNCHANGED <<placed, generated, resources>>
  BY Zenon DEF With, dbvars
<1>2. /\ observer' \in [Observers -> ObserverStates]
      /\ observer'[o] = r /\ \A q \in Observers \ {o} : observer'[q] = observer[q]
  BY Zenon, <1>1 DEF RecordsInv
<1>3. \A q \in Observers : KeepsTheLost(q)'
  BY <1>2 DEF RecordsInv, KeepsTheLost
<1> QED
  BY Zenon, <1>1, <1>2, <1>3 DEF RecordsInv

LEMMA RecordsSame ==
  ASSUME RecordsInv, placed' \in PlacesOf, generated' \in PlacesOf,
         resources' \subseteq Projects \X Everywhere, UNCHANGED <<records, observer>>
  PROVE  RecordsInv'
<1>1. \A o \in Observers : KeepsTheLost(o)'
  BY Zenon DEF RecordsInv, KeepsTheLost
<1> QED
  BY Zenon, <1>1 DEF RecordsInv

LEMMA ObserverStep ==
  ASSUME RecordsInv, NEW o \in Observers,
         \/ reconcile_project(o) \/ preserved_unreachable(o) \/ reconcile(o) \/ ObserverDies(o)
         \/ \E p \in Projects, n \in DeviceNames : observe_docker_on(o, p, n)
  PROVE  RecordsInv' /\ RecordsKept
<1>a. observer[o] \in ObserverStates /\ records \subseteq Projects \X Everywhere
  BY Zenon DEF RecordsInv
<1>b. Resting \in ObserverStates /\ Resting.pc = "idle"
  BY Zenon DEF Resting, ObserverStates
<1>1. CASE reconcile_project(o)
  <2>1. PICK local \in observe_docker :
          With(o, [Resting EXCEPT !.pc = "asking",
                     !.left = UNION {{p} \X (generated[p] \ {Here}) : p \in load_generated},
                     !.seen = {x \in local : x[1] \in load_generated}])
    BY Zenon, <1>1 DEF reconcile_project
  <2> DEFINE left == UNION {{p} \X (generated[p] \ {Here}) : p \in load_generated}
             seen == {x \in local : x[1] \in load_generated}
             r == [Resting EXCEPT !.pc = "asking", !.left = left, !.seen = seen]
  <2>2. left \in SUBSET (Projects \X DeviceNames)
    BY DEF RecordsInv, PlacesOf, load_generated, Everywhere
  <2>3. seen \in SUBSET (Projects \X Everywhere)
    BY Zenon DEF RecordsInv, observe_docker
  <2> HIDE DEF left, seen
  <2>4. r \in ObserverStates /\ r.pc = "asking"
    BY Zenon, <2>2, <2>3 DEF Resting, ObserverStates
  <2>5. records' = records /\ With(o, r)
    BY Zenon, <1>1, <2>1 DEF reconcile_project, left, seen
  <2> HIDE DEF r
  <2> QED
    BY Zenon, <1>a, <2>4, <2>5, OneObserver DEF RecordsKept
<1>2. ASSUME NEW p \in Projects, NEW n \in DeviceNames, observe_docker_on(o, p, n)
      PROVE  RecordsInv' /\ RecordsKept
  <2> DEFINE left == observer[o].left \ {<<p, n>>}
             seen == IF n \in reachable THEN observer[o].seen \cup (resources \cap {<<p, n>>})
                                        ELSE observer[o].seen
             lost == IF n \in reachable THEN observer[o].lost ELSE observer[o].lost \cup {n}
             r == [observer[o] EXCEPT !.left = left, !.seen = seen, !.lost = lost]
  <2>1. /\ left \in SUBSET (Projects \X DeviceNames) /\ seen \in SUBSET (Projects \X Everywhere)
        /\ lost \in SUBSET DeviceNames
    BY Zenon, <1>a DEF RecordsInv, ObserverStates
  <2>2. With(o, r) /\ records' = records /\ observer[o].pc = "asking"
    BY Zenon, <1>2 DEF observe_docker_on
  <2> HIDE DEF left, seen, lost
  <2>3. r \in ObserverStates /\ r.pc = "asking"
    BY Zenon, <1>a, <2>1, <2>2 DEF ObserverStates
  <2> HIDE DEF r
  <2> QED
    BY Zenon, <1>a, <2>2, <2>3, OneObserver DEF RecordsKept
<1>3. CASE preserved_unreachable(o)
  <2> DEFINE kept == active_resources(o)
             r == [observer[o] EXCEPT !.pc = "storing", !.read = records, !.kept = kept]
  <2>1. kept = {x \in records : x[2] \in observer[o].lost} /\ kept \in SUBSET (Projects \X Everywhere)
    BY Zenon, <1>a DEF active_resources
  <2>2. With(o, r) /\ records' = records
    BY Zenon, <1>3 DEF preserved_unreachable
  <2> HIDE DEF kept
  <2>3. /\ r \in ObserverStates /\ r.pc = "storing" /\ r.read = records /\ r.kept = kept
        /\ r.lost = observer[o].lost
    BY Zenon, <1>a, <2>1 DEF ObserverStates
  <2> HIDE DEF r
  <2> QED
    BY Zenon, <1>a, <2>1, <2>2, <2>3, OneObserver DEF RecordsKept
<1>4. CASE reconcile(o)
  <2>1. /\ observer[o].pc = "storing" /\ With(o, Resting)
        /\ records' = observer[o].seen \cup observer[o].kept
    BY Zenon, <1>4 DEF reconcile
  <2>2. records' \subseteq Projects \X Everywhere
    BY Zenon, <1>a, <2>1 DEF ObserverStates
  <2>3. observer[o].kept = {x \in observer[o].read : x[2] \in observer[o].lost}
    BY Zenon, <2>1 DEF RecordsInv, KeepsTheLost
  <2>4. \A q \in Observers \ {o} : observer'[q] = observer[q]
    BY Zenon, <2>1 DEF With, RecordsInv
  <2>5. RecordsKept
    BY Zenon, <2>1, <2>3, <2>4 DEF RecordsKept
  <2> QED
    BY Zenon, <1>b, <2>1, <2>2, <2>5, OneObserver
<1>5. CASE ObserverDies(o)
  BY Zenon, <1>5, <1>a, <1>b, OneObserver DEF ObserverDies, RecordsKept
<1> QED
  BY Zenon, <1>1, <1>2, <1>3, <1>4, <1>5

LEMMA PlaceStep ==
  ASSUME RecordsInv, NEW p \in Projects,
         \/ \E places \in {{Here}, Everywhere, None} : EditPlacements(p, places)
         \/ record_applied_snapshot(p) \/ TakeDown(p)
  PROVE  RecordsInv' /\ records' = records
<1>1. ASSUME NEW places \in {{Here}, Everywhere, None}, EditPlacements(p, places)
      PROVE  RecordsInv' /\ records' = records
  <2>1. places \in {None} \cup SUBSET Everywhere
    BY Zenon DEF Everywhere
  <2>2. placed' \in PlacesOf
    BY Zenon, <1>1, <2>1 DEF EditPlacements, RecordsInv, PlacesOf
  <2> QED
    BY Zenon, <1>1, <2>2, RecordsSame DEF EditPlacements, RecordsInv
<1>2. CASE record_applied_snapshot(p)
  <2>1. placed[p] \in SUBSET Everywhere
    BY Zenon, <1>2 DEF record_applied_snapshot, RecordsInv, PlacesOf
  <2>2. /\ generated' \in PlacesOf /\ resources' \subseteq Projects \X Everywhere
        /\ UNCHANGED <<placed, records, observer>>
    BY Zenon, <1>2, <2>1 DEF record_applied_snapshot, RecordsInv, PlacesOf
  <2> QED
    BY Zenon, <2>2, RecordsSame DEF RecordsInv
<1>3. CASE TakeDown(p)
  BY Zenon, <1>3, RecordsSame DEF TakeDown, RecordsInv
<1> QED
  BY Zenon, <1>1, <1>2, <1>3

LEMMA RecordsStep ==
  ASSUME RecordsInv, [RecordsNext]_rvars
  PROVE  RecordsInv' /\ RecordsKept
<1>1. CASE backup_database \/ open \/ record_device_check \/ UNCHANGED rvars
  <2>1. UNCHANGED <<placed, generated, resources, records, observer>>
    BY Zenon, <1>1 DEF backup_database, open, record_device_check, rvars, dbvars
  <2> QED
    BY Zenon, <2>1, RecordsSame DEF RecordsInv, RecordsKept
<1>2. ASSUME NEW n \in DeviceNames,
             \/ \E h \in DeviceHosts : PostDevice(n, h) \/ DeviceAdd(n, h) \/ ProbeDevice(n, h)
             \/ DeregisterUnplaced(n) \/ DeviceRemove(n) \/ RemoveDevice(n)
             \/ check_device(n) \/ DeviceCheck(n) \/ CheckDevice(n) \/ ReachChanges(n)
      PROVE  RecordsInv' /\ RecordsKept
  <2>1. UNCHANGED <<placed, generated, resources, records, observer>>
    BY Zenon, <1>2 DEF PostDevice, DeviceAdd, ProbeDevice, register_device, DeregisterUnplaced, DeviceRemove,
                RemoveDevice, deregister_device, check_device, DeviceCheck, CheckDevice, ReachChanges
  <2> QED
    BY Zenon, <2>1, RecordsSame DEF RecordsInv, RecordsKept
<1>3. ASSUME NEW p \in Projects,
             \/ \E places \in {{Here}, Everywhere, None} : EditPlacements(p, places)
             \/ record_applied_snapshot(p) \/ TakeDown(p)
      PROVE  RecordsInv' /\ RecordsKept
  BY Zenon, <1>3, PlaceStep DEF RecordsKept
<1> QED
  BY Zenon, <1>1, <1>2, <1>3, ObserverStep DEF RecordsNext

(* In every state, what a reconciliation is about to keep is exactly what   *)
(* it read of the devices that did not answer it.                           *)
THEOREM RecordsInvariance == RecordsSpec => []RecordsInv
<1>1. ASSUME RecordsInit PROVE RecordsInv
  <2>1. Resting \in ObserverStates /\ Resting.pc = "idle"
    BY Zenon DEF Resting, ObserverStates
  <2>2. observer = [o \in Observers |-> Resting]
    BY Zenon, <1>1 DEF RecordsInit
  <2>3. observer \in [Observers -> ObserverStates] /\ \A o \in Observers : KeepsTheLost(o)
    BY Zenon, <2>1, <2>2 DEF KeepsTheLost
  <2>4. placed \in PlacesOf /\ generated \in PlacesOf /\ resources = {} /\ records = {}
    BY Zenon, <1>1 DEF RecordsInit, PlacesOf, Everywhere
  <2> QED
    BY Zenon, <2>3, <2>4 DEF RecordsInv
<1> QED
  BY <1>1, RecordsStep, PTL DEF RecordsSpec

(* reconcile_project never forgets a resource on a device that was out of   *)
(* reach, unless another reconciliation stored since the records were read; *)
(* for any number of devices, deployments and reconciliations at once.      *)
THEOREM LostDevicesRecorded == RecordsSpec => LostDevicesKeepTheirRecords
<1>1. RecordsInv /\ [RecordsNext]_rvars => [RecordsKept]_rvars
  BY Zenon, RecordsStep
<1> QED
  BY <1>1, RecordsInvariance, PTL DEF RecordsSpec, LostDevicesKeepTheirRecords, RecordsKept

-----------------------------------------------------------------------------
(* Definitions and profiles.  What an author is in the middle of was made   *)
(* from bodies that somebody imported, or the project's own; a replacement  *)
(* past its second look is of the definition as it is, unless it was raced, *)
(* and an import that is not forced has nothing in its way, unless it was.  *)
TextOk(text) == \A i \in text : i.body \in trusted \cup {ProjectBody}

Texts == {"drafted", "instance", "put", "looked", "validated", "rename"}

AuthorShape(r) ==
  \/ r.pc \in {"rest", "confirmed", "chosen", "drafting"}
  \/ r.pc \in {"reviewed", "import"} /\ r = [pc |-> r.pc, source |-> r.source, hash |-> r.hash]
  \/ /\ r.pc \in Texts /\ r.raced \in BOOLEAN
     /\ r = [pc |-> r.pc, base |-> r.base, text |-> r.text, raced |-> r.raced]
  \/ r.pc \in {"create", "link"} /\ r = [pc |-> r.pc, text |-> r.text]
  \/ /\ r.pc = "unpack" /\ r.raced \in BOOLEAN /\ r.force \in BOOLEAN
     /\ r = [pc |-> r.pc, text |-> r.text, force |-> r.force, raced |-> r.raced]

AuthorOk(r) ==
  /\ AuthorShape(r)
  /\ r.pc \in {"reviewed", "import"} => r.hash \in shown
  /\ r.pc \in {"drafting", "chosen"} => r.row.origin \in {"project", "imported"}
  /\ r.pc = "drafting" /\ r.base # None => TextOk(r.base)
  /\ r.pc \in Texts \cup {"create", "link", "unpack"} => TextOk(r.text)
  /\ r.pc = "rename" => defined = r.base \/ r.raced
  /\ r.pc = "unpack" => defined = None \/ r.force \/ r.raced

ProfilesInv ==
  /\ author = [a \in Authors |-> author[a]]
  /\ \A a \in Authors : AuthorOk(author[a])
  /\ imported # None => /\ imported.body \in trusted
                        /\ imported.via = "api" => imported.body \in shown
  /\ defined # None => TextOk(defined)

Guarded ==
  \A a \in Authors : author[a] # AtRest /\ author'[a] = AtRest /\ defined' # defined =>
       /\ author[a].pc = "link" => defined = None
       /\ author[a].pc = "rename" => (defined = author[a].base \/ author[a].raced)
       /\ author[a].pc = "unpack" => (defined = None \/ author[a].force \/ author[a].raced)

(* Reviews and imports only add to what was shown and trusted.              *)
LEMMA StillOk ==
  ASSUME NEW r, AuthorOk(r), trusted \subseteq trusted', shown \subseteq shown', defined' = defined
  PROVE  AuthorOk(r)'
<1>1. \A text : TextOk(text) => TextOk(text)'
  BY Zenon DEF TextOk
<1> QED
  BY Zenon, <1>1 DEF AuthorOk

(* One author goes on; no definition is written.                            *)
LEMMA OneAuthor ==
  ASSUME ProfilesInv, NEW a \in Authors, NEW r, author' = [author EXCEPT ![a] = r], AuthorOk(r)',
         trusted \subseteq trusted', shown \subseteq shown', defined' = defined,
         imported' # None => /\ imported'.body \in trusted'
                             /\ imported'.via = "api" => imported'.body \in shown'
  PROVE  ProfilesInv' /\ Guarded
<1>1. /\ author' = [b \in Authors |-> author'[b]] /\ author'[a] = r
      /\ \A b \in Authors \ {a} : author'[b] = author[b]
  BY Zenon DEF ProfilesInv
<1>2. \A b \in Authors : AuthorOk(author[b])'
  BY Zenon, <1>1, StillOk DEF ProfilesInv
<1>3. defined' # None => TextOk(defined)'
  BY Zenon DEF ProfilesInv, TextOk
<1>4. Guarded
  BY Zenon DEF Guarded
<1> QED
  BY Zenon, <1>1, <1>2, <1>3, <1>4 DEF ProfilesInv

LEMMA AuthorRests == AuthorOk(AtRest)'
BY Zenon DEF AuthorOk, AuthorShape, AtRest, Texts

(* Nothing is imported or shown on the way.                                 *)
LEMMA AuthorGoes ==
  ASSUME ProfilesInv, NEW a \in Authors, NEW r, author' = [author EXCEPT ![a] = r],
         r = AtRest \/ AuthorOk(r), UNCHANGED <<trusted, shown, defined, imported>>
  PROVE  ProfilesInv' /\ Guarded
<1>1. AuthorOk(r)'
  BY Zenon, AuthorRests, StillOk
<1> QED
  BY Zenon, <1>1, OneAuthor DEF ProfilesInv

(* What the manifests and the rows say of a change of trust.                *)
LEMMA ReviewStep ==
  ASSUME ProfilesInv, NEW a \in Authors, NEW s \in ProfileSources,
         ReviewManifest(a, s) \/ ConfirmImport(a, s)
  PROVE  ProfilesInv' /\ Guarded
<1>1. UNCHANGED <<imported, trusted, defined>> /\ shown' = shown \cup {manifest[s]}
  BY Zenon DEF ReviewManifest, ConfirmImport
<1>2. PICK r : author' = [author EXCEPT ![a] = r] /\
               r \in {[pc |-> "reviewed", source |-> s, hash |-> manifest[s]],
                      [pc |-> "confirmed", source |-> s]}
  BY Zenon DEF ReviewManifest, ConfirmImport
<1>3. AuthorOk(r)'
  <2>1. CASE r = [pc |-> "reviewed", source |-> s, hash |-> manifest[s]]
    <3>1. r.pc = "reviewed" /\ r.hash \in shown' /\ r = [pc |-> r.pc, source |-> r.source, hash |-> r.hash]
      BY Zenon, <1>1, <2>1
    <3> QED
      BY Zenon, <3>1 DEF AuthorOk, AuthorShape, Texts
  <2>2. CASE r = [pc |-> "confirmed", source |-> s]
    <3>1. r.pc = "confirmed"
      BY Zenon, <2>2
    <3> QED
      BY Zenon, <3>1 DEF AuthorOk, AuthorShape, Texts
  <2> QED
    BY Zenon, <1>2, <2>1, <2>2
<1>4. imported' # None => /\ imported'.body \in trusted'
                          /\ imported'.via = "api" => imported'.body \in shown'
  BY Zenon, <1>1 DEF ProfilesInv
<1> QED
  BY Zenon, <1>1, <1>2, <1>3, <1>4, OneAuthor

LEMMA ImportStep ==
  ASSUME ProfilesInv, NEW a \in Authors,
         import_reviewed_source_profile(a) \/ import_source_profile(a)
  PROVE  ProfilesInv' /\ Guarded
<1>1. UNCHANGED <<shown, defined>> /\ author' = [author EXCEPT ![a] = AtRest]
  BY Zenon DEF import_reviewed_source_profile, import_source_profile
<1>2. CASE UNCHANGED <<imported, trusted>>
  BY Zenon, <1>1, <1>2, AuthorGoes
<1>3. CASE /\ Record(author[a].source, "api") /\ ReviewHolds(a) /\ author[a].pc = "import"
  <2>1. manifest[author[a].source] \in shown
    BY Zenon, <1>3 DEF ReviewHolds, ProfilesInv, AuthorOk
  <2>2. /\ imported'.body = manifest[author[a].source]
        /\ trusted' = trusted \cup {manifest[author[a].source]}
    BY Zenon, <1>3 DEF Record
  <2> QED
    BY Zenon, <1>1, <2>1, <2>2, AuthorRests, OneAuthor
<1>4. CASE Record(author[a].source, "tui")
  <2>1. /\ imported'.body = manifest[author[a].source] /\ imported'.via = "tui"
        /\ trusted' = trusted \cup {manifest[author[a].source]}
    BY Zenon, <1>4 DEF Record
  <2> QED
    BY Zenon, <1>1, <2>1, AuthorRests, OneAuthor
<1> QED
  BY Zenon, <1>2, <1>3, <1>4 DEF import_reviewed_source_profile, import_source_profile

(* Only the project's own blocks and the imported one can be drafted.       *)
LEMMA ChooseStep ==
  ASSUME ProfilesInv, NEW a \in Authors, NEW row \in Listed, ChooseProfile(a, row) \/ ChooseRow(a, row)
  PROVE  ProfilesInv' /\ Guarded
<1>1. row.origin \in {"project", "imported"}
  <2>1. row.trust \in {"trusted", "imported"}
    BY Zenon DEF ChooseProfile, ChooseRow, Usable, UsableTrust
  <2>2. row \in ProfileRows
    BY Zenon DEF Listed
  <2>3. CASE row \in {[origin |-> "project", source |-> None, trust |-> "trusted", body |-> b] : b \in OwnBlocks}
    BY <2>3
  <2>4. CASE row \in {[origin |-> "discovered", source |-> s, trust |-> "not imported", body |-> manifest[s]] :
                       s \in {t \in ProfileSources : Discovered(t)}}
    <3>1. PICK s : row = [origin |-> "discovered", source |-> s, trust |-> "not imported", body |-> manifest[s]]
      BY Zenon, <2>4
    <3>2. row.trust = "not imported"
      BY Zenon, <3>1
    <3> QED
      BY Zenon, <2>1, <3>2
  <2>5. CASE row = [origin |-> "imported", source |-> imported.source, trust |-> Trust(imported),
                    body |-> imported.body]
    BY Zenon, <2>5
  <2> QED
    BY Zenon, <2>2, <2>3, <2>4, <2>5 DEF ProfileRows
<1>2. UNCHANGED <<imported, trusted, shown, defined>>
  BY Zenon DEF ChooseProfile, ChooseRow
<1>3. CASE ChooseProfile(a, row)
  <2> DEFINE r == [pc |-> "drafting", row |-> row, base |-> defined]
  <2>1. AuthorOk(r)
    BY Zenon, <1>1 DEF AuthorOk, AuthorShape, Texts, ProfilesInv
  <2>2. author' = [author EXCEPT ![a] = r]
    BY Zenon, <1>3 DEF ChooseProfile
  <2> HIDE DEF r
  <2> QED
    BY Zenon, <1>2, <2>1, <2>2, AuthorGoes
<1>4. CASE ChooseRow(a, row)
  <2> DEFINE r == [pc |-> "chosen", row |-> row]
  <2>1. AuthorOk(r)
    BY Zenon, <1>1 DEF AuthorOk, AuthorShape, Texts
  <2>2. author' = [author EXCEPT ![a] = r]
    BY Zenon, <1>4 DEF ChooseRow
  <2> HIDE DEF r
  <2> QED
    BY Zenon, <1>2, <2>1, <2>2, AuthorGoes
<1> QED
  BY Zenon, <1>3, <1>4

(* A draft has the blocks of its base and one body that was loaded.         *)
LEMMA DraftOk ==
  ASSUME ProfilesInv, NEW a \in Authors, NEW base, NEW pc \in {"drafted", "put"},
         author[a].row.origin \in {"project", "imported"}, TextOk(base) \/ base = None,
         Drafted(a, base, pc)
  PROVE  ProfilesInv' /\ Guarded
<1> DEFINE body == load_profile_block(author[a].row)
           text == WithInstance(base, a, body)
           r == [pc |-> pc, base |-> base, text |-> text, raced |-> FALSE]
<1>1. UNCHANGED <<imported, trusted, shown, defined>>
  BY Zenon DEF Drafted
<1>2. CASE body = None \/ base = None
  BY Zenon, <1>1, <1>2, AuthorGoes DEF Drafted
<1>3. CASE body # None /\ base # None
  <2>1. ASSUME author[a].row.origin = "project"
        PROVE  body \in trusted \cup {ProjectBody}
    <3>1. body = IF author[a].row.body \in OwnBlocks THEN author[a].row.body ELSE None
      BY Zenon, <2>1 DEF load_profile_block
    <3>2. defined # None /\ \E i \in defined : i.body = body
      BY Zenon, <1>3, <3>1 DEF OwnBlocks
    <3> QED
      BY Zenon, <3>2 DEF ProfilesInv, TextOk
  <2>2. ASSUME author[a].row.origin = "imported"
        PROVE  body \in trusted \cup {ProjectBody}
    <3>1. body = IF imported = None THEN None ELSE imported.body
      BY Zenon, <2>2 DEF load_profile_block
    <3> QED
      BY Zenon, <1>3, <3>1 DEF ProfilesInv
  <2>3. body \in trusted \cup {ProjectBody}
    BY Zenon, <2>1, <2>2
  <2> HIDE DEF body
  <2>4. TextOk(text)
    BY <1>3, <2>3 DEF WithInstance, TextOk
  <2>5. author' = [author EXCEPT ![a] = r]
    BY Zenon, <1>3 DEF Drafted, body
  <2> HIDE DEF text
  <2>6. AuthorOk(r)
    BY Zenon, <2>4 DEF AuthorOk, AuthorShape, Texts
  <2> HIDE DEF r
  <2> QED
    BY Zenon, <1>1, <2>5, <2>6, AuthorGoes
<1> QED
  BY Zenon, <1>2, <1>3

(* A text that is planned, looked at or validated stays the same text.      *)
LEMMA NextStage ==
  ASSUME ProfilesInv, NEW a \in Authors, NEW to,
         \/ author[a].pc = "reviewed" /\ to = "import"
         \/ author[a].pc = "drafted" /\ to = "instance"
         \/ author[a].pc = "put" /\ to = "looked"
         \/ author[a].pc = "looked" /\ to = "validated"
         \/ author[a].pc = "validated" /\ to = "rename" /\ defined = author[a].base
         \/ author[a].pc = "create" /\ to = "link"
  PROVE  AuthorOk([author[a] EXCEPT !.pc = to])
<1>0. AuthorOk(author[a])
  BY Zenon DEF ProfilesInv
<1>1. CASE author[a].pc = "reviewed" /\ to = "import"
  <2>1. [author[a] EXCEPT !.pc = to] = [pc |-> to, source |-> author[a].source, hash |-> author[a].hash]
    BY <1>0, <1>1 DEF AuthorOk, AuthorShape, Texts
  <2> QED
    BY Zenon, <1>0, <1>1, <2>1 DEF AuthorOk, AuthorShape, Texts
<1>2. CASE author[a].pc \in Texts /\ to \in Texts /\ (to = "rename" => defined = author[a].base)
  <2>1. /\ author[a].raced \in BOOLEAN
        /\ [author[a] EXCEPT !.pc = to] =
             [pc |-> to, base |-> author[a].base, text |-> author[a].text, raced |-> author[a].raced]
    BY <1>0, <1>2 DEF AuthorOk, AuthorShape, Texts
  <2>2. TextOk(author[a].text)
    BY Zenon, <1>0, <1>2 DEF AuthorOk
  <2> QED
    BY Zenon, <1>2, <2>1, <2>2 DEF AuthorOk, AuthorShape, Texts
<1>3. CASE author[a].pc = "create" /\ to = "link"
  <2>1. [author[a] EXCEPT !.pc = to] = [pc |-> to, text |-> author[a].text]
    BY <1>0, <1>3 DEF AuthorOk, AuthorShape, Texts
  <2>2. TextOk(author[a].text)
    BY Zenon, <1>0, <1>3 DEF AuthorOk
  <2> QED
    BY Zenon, <1>3, <2>1, <2>2 DEF AuthorOk, AuthorShape, Texts
<1> QED
  BY Zenon, <1>1, <1>2, <1>3 DEF Texts

(* An author past the last look, in front of whom somebody else writes.     *)
LEMMA RacedRename ==
  ASSUME NEW r, NEW base, NEW text, TextOk(text)',
         r = [pc |-> "rename", base |-> base, text |-> text, raced |-> TRUE]
  PROVE  AuthorOk(r)' /\ r # AtRest
<1>1. r.pc = "rename" /\ r.base = base /\ r.text = text /\ r.raced = TRUE
  BY Zenon
<1>2. AuthorShape(r)' /\ r # AtRest
  BY Zenon, <1>1 DEF AuthorShape, Texts, AtRest
<1> QED
  BY Zenon, <1>1, <1>2 DEF AuthorOk, Texts

LEMMA RacedUnpack ==
  ASSUME NEW r, NEW text, NEW force \in BOOLEAN, TextOk(text)',
         r = [pc |-> "unpack", text |-> text, force |-> force, raced |-> TRUE]
  PROVE  AuthorOk(r)' /\ r # AtRest
<1>1. r.pc = "unpack" /\ r.text = text /\ r.force = force /\ r.raced = TRUE
  BY Zenon
<1>2. AuthorShape(r)' /\ r # AtRest
  BY Zenon, <1>1 DEF AuthorShape, Texts, AtRest
<1> QED
  BY Zenon, <1>1, <1>2 DEF AuthorOk, Texts

(* A write takes its text, and marks everybody past their last look.        *)
LEMMA WriteStep ==
  ASSUME ProfilesInv, NEW a \in Authors, Write(a, author[a].text),
         author[a].pc \in {"instance", "rename", "link", "unpack"},
         author[a].pc = "link" => defined = None, UNCHANGED <<imported, shown, trusted>>
  PROVE  ProfilesInv' /\ Guarded
<1>0. \A b \in Authors : AuthorOk(author[b])
  BY Zenon DEF ProfilesInv
<1>1. /\ defined' = author[a].text /\ author' = [b \in Authors |-> author'[b]]
      /\ author'[a] = AtRest
      /\ \A b \in Authors \ {a} :
           author'[b] = IF author[b].pc \in {"rename", "unpack"}
                          THEN [author[b] EXCEPT !.raced = TRUE] ELSE author[b]
  BY Zenon DEF Write
<1>2. TextOk(author[a].text) /\ \A text : TextOk(text) => TextOk(text)'
  BY Zenon, <1>0 DEF AuthorOk, Texts, TextOk
<1>3. TextOk(defined)'
  BY Zenon, <1>1, <1>2 DEF TextOk
<1>4. ASSUME NEW b \in Authors \ {a}
      PROVE  AuthorOk(author[b])' /\ (author[b] # AtRest => author'[b] # AtRest)
  <2>1. CASE author[b].pc = "rename"
    <3>1. author'[b] = [pc |-> "rename", base |-> author[b].base, text |-> author[b].text, raced |-> TRUE]
      BY Zenon, <1>0, <1>1, <2>1 DEF AuthorOk, AuthorShape, Texts
    <3>2. TextOk(author[b].text)
      BY Zenon, <1>0, <2>1 DEF AuthorOk, Texts
    <3> QED
      BY Zenon, <1>2, <3>1, <3>2, RacedRename
  <2>2. CASE author[b].pc = "unpack"
    <3>1. /\ author'[b] = [pc |-> "unpack", text |-> author[b].text, force |-> author[b].force, raced |-> TRUE]
          /\ author[b].force \in BOOLEAN
      BY <1>0, <1>1, <2>2 DEF AuthorOk, AuthorShape, Texts
    <3>2. TextOk(author[b].text)
      BY Zenon, <1>0, <2>2 DEF AuthorOk, Texts
    <3> QED
      BY Zenon, <1>2, <3>1, <3>2, RacedUnpack
  <2>3. CASE author[b].pc \notin {"rename", "unpack"}
    <3>1. author'[b] = author[b]
      BY Zenon, <1>1, <2>3
    <3> QED
      BY Zenon, <1>0, <1>2, <2>3, <3>1 DEF AuthorOk, AuthorShape, Texts
  <2> QED
    BY Zenon, <2>1, <2>2, <2>3
<1>5. AuthorOk(author[a])'
  BY Zenon, <1>1, AuthorRests
<1>6. Guarded
  BY Zenon, <1>0, <1>4 DEF Guarded, AuthorOk
<1> QED
  BY Zenon, <1>1, <1>3, <1>4, <1>5, <1>6 DEF ProfilesInv

(* A look that goes on, or gives up.                                        *)
LEMMA StageStep ==
  ASSUME ProfilesInv, NEW a \in Authors,
         \/ import_profile(a) \/ CreateInstance(a) \/ update_deployment_definition(a)
         \/ validate_definition(a) \/ CheckAgain(a)
  PROVE  ProfilesInv' /\ Guarded
<1>1. UNCHANGED <<imported, trusted, shown, defined>>
  BY Zenon DEF import_profile, CreateInstance, update_deployment_definition, validate_definition, CheckAgain,
         TextPlanned
<1>2. CASE author' = [author EXCEPT ![a] = AtRest]
  BY Zenon, <1>1, <1>2, AuthorGoes
<1>3. ASSUME NEW to, author' = [author EXCEPT ![a] = [author[a] EXCEPT !.pc = to]],
             \/ author[a].pc = "reviewed" /\ to = "import"
             \/ author[a].pc = "drafted" /\ to = "instance"
             \/ author[a].pc = "put" /\ to = "looked"
             \/ author[a].pc = "looked" /\ to = "validated"
             \/ author[a].pc = "validated" /\ to = "rename" /\ defined = author[a].base
             \/ author[a].pc = "create" /\ to = "link"
      PROVE  ProfilesInv' /\ Guarded
  <2>1. AuthorOk([author[a] EXCEPT !.pc = to])
    BY Zenon, <1>3, NextStage
  <2> QED
    BY Zenon, <1>1, <1>3, <2>1, AuthorGoes
<1>4. CASE import_profile(a)
  BY Zenon, <1>2, <1>3, <1>4 DEF import_profile
<1>5. CASE CreateInstance(a)
  BY Zenon, <1>2, <1>3, <1>5 DEF CreateInstance, TextPlanned
<1>6. CASE update_deployment_definition(a)
  BY Zenon, <1>2, <1>3, <1>6 DEF update_deployment_definition
<1>7. CASE validate_definition(a)
  BY Zenon, <1>2, <1>3, <1>7 DEF validate_definition, TextPlanned
<1>8. CASE CheckAgain(a)
  BY Zenon, <1>2, <1>3, <1>8 DEF CheckAgain
<1> QED
  BY Zenon, <1>4, <1>5, <1>6, <1>7, <1>8

(* Texts of the project's own, and the definition itself, respelled.        *)
LEMMA OwnTextStep ==
  ASSUME ProfilesInv, NEW a \in Authors,
         \/ create_deployment(a) \/ migrate(a)
         \/ \E intact, force \in BOOLEAN : import_portable_bundle(a, intact, force)
         \/ \E force \in BOOLEAN : scaffold(a, force)
  PROVE  ProfilesInv' /\ Guarded
<1> DEFINE own == {[by |-> a, body |-> ProjectBody]}
<1>1. UNCHANGED <<imported, trusted, shown, defined>>
  BY Zenon DEF create_deployment, migrate, import_portable_bundle, scaffold
<1>2. TextOk(own)
  BY DEF TextOk
<1> HIDE DEF own
<1>3. CASE create_deployment(a)
  <2> DEFINE r == [pc |-> "create", text |-> own]
  <2>1. AuthorOk(r)
    BY Zenon, <1>2 DEF AuthorOk, AuthorShape, Texts
  <2>2. author' = [author EXCEPT ![a] = r]
    BY Zenon, <1>3 DEF create_deployment, own
  <2> HIDE DEF r
  <2> QED
    BY Zenon, <1>1, <2>1, <2>2, AuthorGoes
<1>4. CASE migrate(a)
  <2> DEFINE r == [pc |-> "instance", base |-> defined, text |-> defined, raced |-> FALSE]
  <2>1. AuthorOk(r)
    BY Zenon, <1>4 DEF migrate, AuthorOk, AuthorShape, Texts, ProfilesInv
  <2>2. author' = [author EXCEPT ![a] = r]
    BY Zenon, <1>4 DEF migrate
  <2> HIDE DEF r
  <2> QED
    BY Zenon, <1>1, <2>1, <2>2, AuthorGoes
<1>5. ASSUME NEW force \in BOOLEAN, force \/ NothingInTheWay,
             author' = [author EXCEPT ![a] = [pc |-> "unpack", text |-> own, force |-> force, raced |-> FALSE]]
      PROVE  ProfilesInv' /\ Guarded
  <2> DEFINE r == [pc |-> "unpack", text |-> own, force |-> force, raced |-> FALSE]
  <2>1. AuthorOk(r)
    BY Zenon, <1>2, <1>5 DEF NothingInTheWay, AuthorOk, AuthorShape, Texts
  <2>2. author' = [author EXCEPT ![a] = r]
    BY Zenon, <1>5
  <2> HIDE DEF r
  <2> QED
    BY Zenon, <1>1, <2>1, <2>2, AuthorGoes
<1>6. CASE \E intact, force \in BOOLEAN : import_portable_bundle(a, intact, force)
  BY Zenon, <1>5, <1>6 DEF import_portable_bundle, own
<1>7. CASE \E force \in BOOLEAN : scaffold(a, force)
  BY Zenon, <1>5, <1>7 DEF scaffold, own
<1> QED
  BY Zenon, <1>3, <1>4, <1>6, <1>7

LEMMA DefinitionStep ==
  ASSUME ProfilesInv, NEW a \in Authors,
         \/ build_draft(a) \/ validate_profile(a)
         \/ replace_definition(a) \/ RenameDefinition(a) \/ LinkDefinition(a) \/ write_imported_bundle(a)
  PROVE  ProfilesInv' /\ Guarded
<1>1. CASE build_draft(a)
  <2>1. /\ author[a].row.origin \in {"project", "imported"}
        /\ TextOk(author[a].base) \/ author[a].base = None
    BY Zenon, <1>1 DEF build_draft, ProfilesInv, AuthorOk
  <2> QED
    BY Zenon, <1>1, <2>1, DraftOk DEF build_draft
<1>2. CASE validate_profile(a)
  <2>1. author[a].row.origin \in {"project", "imported"} /\ (TextOk(defined) \/ defined = None)
    BY Zenon, <1>2 DEF validate_profile, ProfilesInv, AuthorOk
  <2> QED
    BY Zenon, <1>2, <2>1, DraftOk DEF validate_profile
<1>3. CASE replace_definition(a)
  BY Zenon, <1>3, WriteStep DEF replace_definition
<1>4. CASE RenameDefinition(a)
  BY Zenon, <1>4, WriteStep DEF RenameDefinition
<1>5. CASE LinkDefinition(a)
  <2>1. CASE defined = None
    BY Zenon, <1>5, <2>1, WriteStep DEF LinkDefinition
  <2>2. CASE defined # None
    BY Zenon, <1>5, <2>2, AuthorGoes DEF LinkDefinition
  <2> QED
    BY Zenon, <2>1, <2>2
<1>6. CASE write_imported_bundle(a)
  BY Zenon, <1>6, WriteStep DEF write_imported_bundle
<1> QED
  BY Zenon, <1>1, <1>2, <1>3, <1>4, <1>5, <1>6

LEMMA ProfilesStep ==
  ASSUME ProfilesInv, [ProfilesNext]_pvars
  PROVE  ProfilesInv' /\ Guarded
<1>1. ASSUME UNCHANGED <<author, shown, trusted, defined>>, imported' \in {imported, None}
      PROVE  ProfilesInv' /\ Guarded
  <2>1. \A a \in Authors : AuthorOk(author[a])'
    BY Zenon, <1>1, StillOk DEF ProfilesInv
  <2>2. defined' # None => TextOk(defined)'
    BY Zenon, <1>1 DEF ProfilesInv, TextOk
  <2>3. Guarded
    BY Zenon, <1>1 DEF Guarded
  <2> QED
    BY Zenon, <1>1, <2>1, <2>2, <2>3 DEF ProfilesInv
<1>2. CASE \/ \E s \in ProfileSources : EditManifest(s)
           \/ remove_profile \/ RemoveProfile
           \/ UNCHANGED pvars
  <2>1. UNCHANGED <<author, shown, trusted, defined>> /\ imported' \in {imported, None}
    BY Zenon, <1>2 DEF EditManifest, remove_profile, RemoveProfile, remove_imported_profile, pvars
  <2> QED
    BY Zenon, <1>1, <2>1
<1>3. CASE \E a \in Authors, s \in ProfileSources : ReviewManifest(a, s) \/ ConfirmImport(a, s)
  BY Zenon, <1>3, ReviewStep
<1>4. CASE \E a \in Authors, row \in Listed : ChooseProfile(a, row) \/ ChooseRow(a, row)
  BY Zenon, <1>4, ChooseStep
<1>5. ASSUME NEW a \in Authors,
             \/ import_profile(a) \/ import_reviewed_source_profile(a) \/ import_source_profile(a)
             \/ build_draft(a) \/ validate_profile(a)
             \/ CreateInstance(a) \/ replace_definition(a)
             \/ update_deployment_definition(a) \/ validate_definition(a) \/ CheckAgain(a) \/ RenameDefinition(a)
             \/ create_deployment(a) \/ LinkDefinition(a)
             \/ \E intact, force \in BOOLEAN : import_portable_bundle(a, intact, force)
             \/ write_imported_bundle(a) \/ migrate(a)
             \/ \E force \in BOOLEAN : scaffold(a, force)
      PROVE  ProfilesInv' /\ Guarded
  BY Zenon, <1>5, ImportStep, StageStep, OwnTextStep, DefinitionStep
<1> QED
  BY Zenon, <1>2, <1>3, <1>4, <1>5 DEF ProfilesNext

(* In every state: every text on its way to the definition is made of       *)
(* imported bodies and the project's own, and knows whether it was raced.   *)
THEOREM ProfilesInvariance == ProfilesSpec => []ProfilesInv
<1>1. ASSUME ProfilesInit PROVE ProfilesInv
  <2>1. author = [a \in Authors |-> author[a]] /\ \A a \in Authors : author[a] = AtRest
    BY Zenon, <1>1 DEF ProfilesInit
  <2>2. AuthorOk(AtRest)
    BY Zenon DEF AuthorOk, AuthorShape, AtRest, Texts
  <2>3. imported = None /\ (defined # None => TextOk(defined))
    BY <1>1 DEF ProfilesInit, TextOk
  <2> QED
    BY Zenon, <2>1, <2>2, <2>3 DEF ProfilesInv
<1> QED
  BY <1>1, ProfilesStep, PTL DEF ProfilesSpec

(* An API import records only what a review has shown                       *)
(* (import_reviewed_source_profile), and no instance gets a body that       *)
(* nobody imported, for any sources, authors and edits of the manifests.    *)
THEOREM ReviewPrecedesUse == ProfilesSpec => []ReviewedBeforeUse
<1>1. ProfilesInv => ReviewedBeforeUse
  BY Zenon DEF ProfilesInv, TextOk, ReviewedBeforeUse
<1> QED
  BY <1>1, ProfilesInvariance, PTL

(* No definition is created over another, replaced unseen or overwritten by *)
(* an import that is not forced, except in the gap between the last look    *)
(* and the write, for any number of authors (create_deployment,             *)
(* update_deployment_definition, write_imported_bundle).                    *)
THEOREM EditsGuarded == ProfilesSpec => EditsAreGuarded
<1>1. ProfilesInv /\ [ProfilesNext]_pvars => [Guarded]_pvars
  BY Zenon, ProfilesStep
<1> QED
  BY <1>1, ProfilesInvariance, PTL DEF ProfilesSpec, EditsAreGuarded, Guarded
=============================================================================
