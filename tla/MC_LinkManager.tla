---------------------------- MODULE MC_LinkManager ----------------------------
(***************************************************************************)
(* Links of one file system on three fsPaths, /a, /a/b (inside /a) and    *)
(* /c, requested by one or two clients.                                    *)
(***************************************************************************)
EXTENDS LinkManager

CONSTANTS a, ab, c, cl1, cl2

MCPaths == {a, ab, c}

\* The directory each path lies in, among MCPaths.
Parent == [p \in MCPaths |-> IF p = ab THEN a ELSE NoPath]

\* fs.CheckFsNested on these paths: equal, or one is inside the other.
MCNested(p, q) == p = q \/ Parent[p] = q \/ Parent[q] = p

(***************************************************************************)
(* The requests: two the checks accept (an s3 link whose properties name  *)
(* a bucket other than its url's, an sftp link) and one refused at each    *)
(* check of validateCreateLink's own.                                      *)
(***************************************************************************)
Req(user, scheme, parts, seg, props, kerberos) ==
    [user |-> user, scheme |-> scheme, parts |-> parts, seg |-> seg,
     props |-> props, kerberos |-> kerberos]

NoProps == [k \in {} |-> ""]

S3Props == "accessKey" :> "ak" @@ "secretKey" :> "sk" @@ "endpoint" :> "ep"
               @@ "bucket" :> "other"

MCRequests ==
    { Req(TRUE,  "s3",    4, "bkt",  S3Props, FALSE),
      Req(TRUE,  "sftp",  4, "",     "user" :> "u" @@ "password" :> "pw", FALSE),
      Req(FALSE, "sftp",  4, "",     "user" :> "u" @@ "password" :> "pw", FALSE),
      Req(TRUE,  "",      1, "",     NoProps, FALSE),
      Req(TRUE,  "ftp",   4, "",     NoProps, FALSE),
      Req(TRUE,  "s3",    4, "bkt",  NoProps, FALSE),
      Req(TRUE,  "local", 3, "root", "debug" :> "true", FALSE),
      Req(TRUE,  "hdfs",  4, "",     "user" :> "u", FALSE),
      Req(TRUE,  "hdfs",  4, "",     "keyTabData" :> "kt", FALSE) }

OneClient == {cl1}
TwoClients == {cl1, cl2}

=============================================================================
