----------------------------- MODULE LinkManager -----------------------------
(***************************************************************************)
(* The link handlers of the fs server (src/pkg/fs/server/api/handler/      *)
(* link.go): CreateLink and DeleteLink for the links of one file system.  *)
(*                                                                         *)
(*   links   the link rows of the file system (models.Link): its fsPath,  *)
(*           the request it was created from and that request's client;  *)
(*   meta    the links meta that PersistLinksMeta last wrote for it, which *)
(*           is what fuse clients mount;                                  *)
(*   cl      the handler goroutines: each client issues one request at a  *)
(*           time, and a handler runs as one step per database read or    *)
(*           write, so that concurrent requests interleave (link.go takes *)
(*           no lock).                                                     *)
(* The link service (CreateLink, DeleteLink, PersistLinksMeta) is not      *)
(* under src/; each of its calls is one atomic step that succeeds or fails *)
(* with an outcome from Outcomes.  A request's url and properties are      *)
(* abstracted to the fields its checks read (CheckRequest below).          *)
(***************************************************************************)
EXTENDS Naturals, Sequences, TLC, Functions

CONSTANTS
    Paths,          \* the fsPaths requests name
    Nested(_, _),   \* fs.CheckFsNested: one path equals or contains the other
    Requests,       \* the CreateLinkRequests clients send (abstract, below)
    S3SplitLen,     \* fs.S3SplitLen: the "/"-parts an s3 url needs
    UniqueFsPath,   \* the links table refuses a second row for an fsPath
    Clients,        \* concurrent API clients
    MaxRequests,    \* bound on the requests the clients issue in total
    Outcomes,       \* {TRUE}: storage calls succeed; {TRUE, FALSE}: they may fail
    NoPath

VARIABLES links, meta, cl, requests

vars == <<links, meta, cl, requests>>

(***************************************************************************)
(* A CreateLinkRequest is a record:                                        *)
(*   user      the username is not empty;                                  *)
(*   scheme    the url up to its first ":" ("" when it has none);          *)
(*   parts     the number of "/"-separated parts of the url;               *)
(*   seg       the part checkLinkURLFormat inspects (urlSplit[2] for       *)
(*             local, urlSplit[fs.S3EndpointSplit], the bucket, for s3);   *)
(*   props     the properties map, a function from keys to values; a nil   *)
(*             map reads as the empty one, and the only check telling them *)
(*             apart (s3's properties == nil) refuses both anyway;         *)
(*   kerberos  fs.CheckKerberosProperties accepts the properties.          *)
(* A link row is [path, owner, req]: owner is the request (its client)     *)
(* that inserted it, a tag of the row the code identifies by its ID.       *)
(***************************************************************************)
SupportLinkURLPrefix == {"hdfs", "local", "s3", "sftp"}

Prop(props, k) == IF k \in DOMAIN props THEN props[k] ELSE ""

\* AesEncrypt with the server's key: a value no longer equal to the plain one.
Aes(v) == "aes(" \o v \o ")"

Checked(ok, props) == [ok |-> ok, props |-> props]

\* checkLinkURLFormat: per-type checks of the url's "/"-parts; for s3 the
\* bucket named in the url is written into the properties.
CheckLinkURLFormat(r) ==
    CASE r.scheme \in {"hdfs", "sftp"} -> Checked(r.parts >= 4, r.props)
      [] r.scheme = "local" -> Checked(r.parts >= 3 /\ r.seg \notin {"", "root"}, r.props)
      [] r.scheme = "s3"    -> IF r.parts >= S3SplitLen /\ r.seg # "" /\ DOMAIN r.props # {}
                               THEN Checked(TRUE, ("bucket" :> r.seg) @@ r.props)
                               ELSE Checked(FALSE, r.props)
      [] OTHER              -> Checked(TRUE, r.props)

\* Seeded fault: the sftp password is stored as sent.
CheckLinkPropertiesNoSftpEncrypt(r, props) ==
    LET P(k) == Prop(props, k) IN
    CASE r.scheme = "hdfs"  -> Checked(IF P("keyTabData") # "" THEN r.kerberos
                                       ELSE P("user") # "" /\ P("group") # "", props)
      [] r.scheme = "local" -> Checked(P("debug") = "true", props)
      [] r.scheme = "s3"    -> Checked(/\ P("accessKey") # "" /\ P("secretKey") # ""
                                       /\ P("endpoint") # "" /\ P("bucket") # "",
                                       ("secretKey" :> Aes(P("secretKey")))
                                         @@ ("region" :> P("region")) @@ props)
      [] r.scheme = "sftp"  -> Checked(P("user") # "" /\ P("password") # "", props)
      [] OTHER              -> Checked(TRUE, props)

\* checkLinkProperties: per-type required keys; the s3 secret key and the
\* sftp password are replaced by their AesEncrypt, and a missing s3 region
\* is set to "".
CheckLinkProperties(r, props) ==
    LET P(k) == Prop(props, k) IN
    CASE r.scheme = "hdfs"  -> Checked(IF P("keyTabData") # "" THEN r.kerberos
                                       ELSE P("user") # "" /\ P("group") # "", props)
      [] r.scheme = "local" -> Checked(P("debug") = "true", props)
      [] r.scheme = "s3"    -> Checked(/\ P("accessKey") # "" /\ P("secretKey") # ""
                                       /\ P("endpoint") # "" /\ P("bucket") # "",
                                       ("secretKey" :> Aes(P("secretKey")))
                                         @@ ("region" :> P("region")) @@ props)
      [] r.scheme = "sftp"  -> Checked(P("user") # "" /\ P("password") # "",
                                       ("password" :> Aes(P("password"))) @@ props)
      [] OTHER              -> Checked(TRUE, props)

\* validateCreateLink's checks of the request itself, in the code's order;
\* req is the request as the checks leave it.
CheckRequest(r) ==
    LET u == CheckLinkURLFormat(r)
        q == CheckLinkProperties(r, u.props)
    IN  [ok  |-> r.user /\ r.scheme \in SupportLinkURLPrefix /\ u.ok /\ q.ok,
         req |-> [r EXCEPT !.props = q.props]]

Pc == {"idle", "create_exists", "create_insert", "create_persist",
       "create_rollback", "delete_do", "delete_persist"}
Idle == [pc |-> "idle", path |-> NoPath, req |-> <<>>]

PathsOf(rows) == {x.path : x \in rows}

Issue(c) == cl[c].pc = "idle" /\ requests < MaxRequests /\ requests' = requests + 1
Goto(c, pc) == cl' = [cl EXCEPT ![c].pc = pc]
Done(c) == cl' = [cl EXCEPT ![c] = Idle]

\* PersistLinksMeta(fsID): the meta is rewritten from the link rows.
PersistLinksMeta(ok) == meta' = IF ok THEN links ELSE meta

\* DeleteLinkWithFsIDAndFsPath, and the service's DeleteLink: every row of
\* the fs at that path goes.
DeleteRowsAt(p) == {x \in links : x.path # p}

(***************************************************************************)
(* validateCreateLink, up to checkLinkPath: the request's own fields are   *)
(* checked, then the existing links of the fs are read and a path nested   *)
(* in (or equal to) one of them is refused.                                *)
(***************************************************************************)
\* Seeded fault: only an identical path is refused.
CheckLinkPathDuplicateOnly(p) == p \notin PathsOf(links)

CheckLinkPath(p) == \A x \in links : ~Nested(p, x.path)

ValidateCreateLink(c, p, r) ==
    /\ Issue(c)
    /\ LET v == CheckRequest(r) IN
       \E ok \in Outcomes :        \* AesEncrypt or models.FsNameLinks may fail
         IF v.ok /\ ok /\ CheckLinkPath(p)
         THEN cl' = [cl EXCEPT ![c] = [pc |-> "create_exists", path |-> p, req |-> v.req]]
         ELSE UNCHANGED cl
    /\ UNCHANGED <<links, meta>>

\* The rest of validateCreateLink: the file system is looked up, the link
\* row for (fsID, fsPath) is read and must not exist, the fsPath must be an
\* empty directory and the linked storage reachable (checkFsPathIsExist,
\* checkStorageConnectivity: I/O that succeeds or fails).
ValidateCreateLinkExists(c) ==
    /\ cl[c].pc = "create_exists"
    /\ \E ok \in Outcomes :
         IF ok /\ cl[c].path \notin PathsOf(links) THEN Goto(c, "create_insert")
                                                   ELSE Done(c)
    /\ UNCHANGED <<links, meta, requests>>

(***************************************************************************)
(* CreateLink: insert the row, persist the meta; if persisting fails, the  *)
(* row is deleted again (DeleteLinkWithFsIDAndFsPath), which may fail too. *)
(* The table's keys are not under src/: with UniqueFsPath the insert of a  *)
(* second row for an fsPath fails.                                         *)
(***************************************************************************)
CreateLinkInsert(c) ==
    /\ cl[c].pc = "create_insert"
    /\ \E ok \in Outcomes :
         IF ok /\ (UniqueFsPath => cl[c].path \notin PathsOf(links))
               THEN /\ links' = links \cup {[path |-> cl[c].path, owner |-> c,
                                              req |-> cl[c].req]}
                    /\ Goto(c, "create_persist")
               ELSE /\ UNCHANGED links
                    /\ Done(c)
    /\ UNCHANGED <<meta, requests>>

CreateLinkPersist(c) ==
    /\ cl[c].pc = "create_persist"
    /\ \E ok \in Outcomes :
         /\ PersistLinksMeta(ok)
         /\ IF ok THEN Done(c) ELSE Goto(c, "create_rollback")
    /\ UNCHANGED <<links, requests>>

CreateLinkRollback(c) ==
    /\ cl[c].pc = "create_rollback"
    /\ \E ok \in Outcomes :
         links' = IF ok THEN DeleteRowsAt(cl[c].path) ELSE links
    /\ Done(c)
    /\ UNCHANGED <<meta, requests>>

(***************************************************************************)
(* DeleteLink: validateDeleteLink reads the row, which must exist; the     *)
(* service deletes it; then the meta is persisted, and an error there is   *)
(* only logged: the handler answers 200 either way.                        *)
(***************************************************************************)
ValidateDeleteLink(c, p) ==
    /\ Issue(c)
    /\ \E ok \in Outcomes :                  \* LinkWithFsIDAndFsPath may fail
         IF ok /\ p \in PathsOf(links)
         THEN cl' = [cl EXCEPT ![c] = [pc |-> "delete_do", path |-> p, req |-> <<>>]]
         ELSE UNCHANGED cl
    /\ UNCHANGED <<links, meta>>

\* Seeded fault: the meta is not persisted after the row is deleted.
DeleteLinkDoNoPersist(c) ==
    /\ cl[c].pc = "delete_do"
    /\ \E ok \in Outcomes :
         /\ links' = IF ok THEN DeleteRowsAt(cl[c].path) ELSE links
         /\ Done(c)
    /\ UNCHANGED <<meta, requests>>

DeleteLinkDo(c) ==
    /\ cl[c].pc = "delete_do"
    /\ \E ok \in Outcomes :
         IF ok THEN /\ links' = DeleteRowsAt(cl[c].path)
                    /\ Goto(c, "delete_persist")
               ELSE /\ UNCHANGED links
                    /\ Done(c)
    /\ UNCHANGED <<meta, requests>>

DeleteLinkPersist(c) ==
    /\ cl[c].pc = "delete_persist"
    /\ \E ok \in Outcomes : PersistLinksMeta(ok)
    /\ Done(c)
    /\ UNCHANGED <<links, requests>>

(***************************************************************************)
(* Specification                                                           *)
(***************************************************************************)
Init ==
    /\ links = {}
    /\ meta = {}
    /\ cl = [c \in Clients |-> Idle]
    /\ requests = 0

Request(c) ==
    \E p \in Paths : \/ \E r \in Requests : ValidateCreateLink(c, p, r)
                   \/ ValidateDeleteLink(c, p)

HandlerStep(c) ==
    \/ ValidateCreateLinkExists(c)
    \/ CreateLinkInsert(c)
    \/ CreateLinkPersist(c)
    \/ CreateLinkRollback(c)
    \/ DeleteLinkDo(c)
    \/ DeleteLinkPersist(c)

Next == \E c \in Clients : Request(c) \/ HandlerStep(c)

Spec == Init /\ [][Next]_vars /\ \A c \in Clients : WF_vars(HandlerStep(c))

(***************************************************************************)
(* Properties                                                              *)
(***************************************************************************)

\* checkLinkPath's promise (link.go, the comment above it): no two links
\* of a file system are nested in one another or duplicated.
NoNestedLinks ==
    \A x, y \in links : x # y => ~Nested(x.path, y.path)

\* Once no request is in flight, the persisted links meta lists exactly
\* the link rows: every CreateLink and DeleteLink that changed a row also
\* rewrote the meta after its change, in every interleaving.
MetaAgreesWhenQuiet ==
    (\A c \in Clients : cl[c].pc = "idle") => meta = links

\* A DeleteLink that answers 200 has removed the link from the meta that
\* clients mount (link.go DeleteLink, after PersistLinksMeta).
DeleteAckedIsUnmounted ==
    [][\A c \in Clients :
          cl[c].pc = "delete_persist" /\ cl'[c].pc = "idle"
              => cl[c].path \notin PathsOf(meta')]_vars

\* validateCreateLink stores the properties it has normalised: in every link
\* row, and in the meta clients mount, the s3 secret key and the sftp
\* password appear only as their AesEncrypt, and an s3 link's bucket is the
\* one its url names, whatever bucket its properties gave.
IsEncrypted(v) ==
    \E r \in Requests, k \in {"secretKey", "password"} : v = Aes(Prop(r.props, k))

StoredLinkPropertiesNormalised ==
    \A x \in links \cup meta :
        /\ x.req.scheme = "s3" =>
              /\ IsEncrypted(Prop(x.req.props, "secretKey"))
              /\ Prop(x.req.props, "bucket") = x.req.seg
        /\ x.req.scheme = "sftp" => IsEncrypted(Prop(x.req.props, "password"))

\* A link row leaves the table only through a DeleteLink of its path or
\* the rollback of the CreateLink that inserted it: the rollback after a
\* failed PersistLinksMeta (link.go CreateLink) undoes its own insert and
\* no other request's row.
RowRemovedOnlyByItsRequest ==
    [][\A x \in links \ links' :
          \E c \in Clients :
              /\ cl[c].path = x.path
              /\ \/ cl[c].pc = "delete_do"
                 \/ cl[c].pc = "create_rollback" /\ x.owner = c]_vars

=============================================================================
