----------------------------- MODULE GrantTokens -----------------------------
(***************************************************************************)
(* The tokens of the five request-grant families: what is signed, how a    *)
(* token is parsed and which call it fits.  Two families put their fields  *)
(* into the payload in the open (create_directory, android_volume); the    *)
(* other three share one payload layout that holds a keyed binding of the  *)
(* operation, so that only the capability byte and the binding tell them   *)
(* apart.  All five sign with the same key and the same version.           *)
(*                                                                         *)
(* A digest or a MAC is the tuple of what went into it: collisions and     *)
(* forgeries are left out.  Hexadecimal and byte order are left out too; a *)
(* payload keeps its length, which is what its decoder compares.  The      *)
(* lifetime of a token is the subject of GrantReplay.                      *)
(***************************************************************************)
EXTENDS Naturals, Sequences

Families == {"create_directory", "write_file", "android_volume", "copy_file", "trash_file"}

wire_code(f) ==
    CASE f = "create_directory" -> 1 [] f = "write_file" -> 2
      [] f = "android_volume" -> 3 [] f = "copy_file" -> 4 [] f = "trash_file" -> 5

Sha256(domain, fields) == <<domain, fields>>
Hmac(key, domain, fields) == <<key, domain, fields>>

Malformed == [error |-> "malformed"]
TargetInvalid == [error |-> "target_invalid"]
IsError(x) == DOMAIN x = {"error"}

-----------------------------------------------------------------------------
(* Targets: what exactly the holder of a grant may do.  A path is the      *)
(* sequence of its normalised components below a root; an identity is the  *)
(* device, inode, size, change time and link count of a file.              *)

CreateDirectoryTarget(root, path) ==
    IF path = <<>> THEN TargetInvalid
    ELSE [root |-> root, target_digest |-> Sha256("create-directory-target", path)]

NormalizedPathDigest(path) == Sha256("copy-file-path", path)

CopyFileTarget(sroot, source, identity, content, droot, destination) ==
    IF \/ source = <<>> \/ destination = <<>>
       \/ sroot = droot /\ NormalizedPathDigest(source) = NormalizedPathDigest(destination)
    THEN TargetInvalid
    ELSE [source_root |-> sroot, source_path |-> NormalizedPathDigest(source),
          source_identity |-> identity, source_sha256 |-> content,
          destination_root |-> droot, destination_path |-> NormalizedPathDigest(destination)]

TrashFileTarget(root, path, identity, content) ==
    IF path = <<>> THEN TargetInvalid
    ELSE [root |-> root, target_digest |-> Sha256("trash-file-target", path),
          content_digest |-> content, identity |-> identity]

\* Identity 0 stands for None.
WriteFileTarget(root, path, content, disposition, existing) ==
    IF path = <<>> \/ (disposition = "create") # (existing = 0) THEN TargetInvalid
    ELSE [root |-> root, target_digest |-> Sha256("write-file-target", path),
          content_digest |-> Sha256("content", content),
          disposition |-> disposition, existing_identity |-> existing]

\* A level is an i64 in the request and a u64 in the grant.
AndroidVolumeTarget(stream, level) ==
    IF level < 0 THEN TargetInvalid ELSE [stream |-> stream, level |-> level]

-----------------------------------------------------------------------------
(* Authorities *)

\* The key id and the key were checked when the configuration was loaded;
\* the constructors check them again.
Authority(f, domain, keyId, key, principal) ==
    IF keyId \in {"unset", "bad"} \/ key \in {"unset", "bad"} \/ principal = "none"
    THEN [error |-> "configuration_invalid"]
    ELSE [family |-> f, key_id |-> keyId, key |-> key, domain |-> domain,
          principal_digest |-> Hmac(key, domain, principal)]

CreateDirectoryAuthority(k, h, p) == Authority("create_directory", "static-principal", k, h, p)
CopyFileAuthority(k, h, p) == Authority("copy_file", "copy-file-principal", k, h, p)
TrashFileAuthority(k, h, p) == Authority("trash_file", "trash-file-principal", k, h, p)
WriteFileAuthority(k, h, p) == Authority("write_file", "write-file-principal", k, h, p)
AndroidVolumeAuthority(k, h, p) == Authority("android_volume", "android-volume-principal", k, h, p)

binds_static_principal(a, principal) ==
    principal # "none" /\ Hmac(a.key, a.domain, principal) = a.principal_digest

-----------------------------------------------------------------------------
(* Payloads.  "issued" and "expires" follow in each of them. *)

CreateDirectoryPayload(a, id, session, target) ==
    [bytes |-> 130, grant_id |-> id, principal_digest |-> a.principal_digest,
     session_id |-> session, capability |-> wire_code("create_directory"),
     root |-> target.root, target_digest |-> target.target_digest, posture |-> "mutating"]

AndroidVolumePayload(a, id, session, target) ==
    [bytes |-> 83, grant_id |-> id, principal_digest |-> a.principal_digest,
     session_id |-> session, capability |-> wire_code("android_volume"),
     stream |-> target.stream, level |-> target.level, posture |-> "mutating"]

CopyFileBinding(a, id, session, t) ==
    Hmac(a.key, "copy-file-operation-binding",
         <<id, a.principal_digest, session, wire_code("copy_file"), "no_replace_mutating",
           t.source_root, t.source_path, t.source_identity, t.source_sha256,
           t.destination_root, t.destination_path>>)

TrashFileBinding(a, id, session, t) ==
    Hmac(a.key, "trash-file-operation-binding",
         <<id, a.principal_digest, session, wire_code("trash_file"), "mutating", "recovery_retained",
           t.root, t.target_digest, t.content_digest, t.identity>>)

WriteFileBinding(a, id, session, t) ==
    Hmac(a.key, "write-file-operation-binding",
         <<id, a.principal_digest, session, wire_code("write_file"), "mutating",
           t.root, t.target_digest, t.content_digest, t.disposition,
           t.existing_identity # 0, t.existing_identity>>)

SealedPayload(f, id, binding) ==
    [bytes |-> 65, grant_id |-> id, capability |-> wire_code(f), operation_binding |-> binding]

CopyFilePayload(a, id, session, t) == SealedPayload("copy_file", id, CopyFileBinding(a, id, session, t))
TrashFilePayload(a, id, session, t) == SealedPayload("trash_file", id, TrashFileBinding(a, id, session, t))
WriteFilePayload(a, id, session, t) == SealedPayload("write_file", id, WriteFileBinding(a, id, session, t))

-----------------------------------------------------------------------------
(* Issue: fresh id, canonical session, payload, signature over the version,  *)
(* the key id and the payload                                                *)

EncodeAndSign(a, payload) ==
    [kind |-> "signed", version |-> "v1", key_id |-> a.key_id, payload |-> payload,
     mac |-> Hmac(a.key, "v1", <<a.key_id, payload>>)]

IssueCreateDirectory(a, id, session, t) == EncodeAndSign(a, CreateDirectoryPayload(a, id, session, t))
IssueCopyFile(a, id, session, t) == EncodeAndSign(a, CopyFilePayload(a, id, session, t))
IssueTrashFile(a, id, session, t) == EncodeAndSign(a, TrashFilePayload(a, id, session, t))
IssueWriteFile(a, id, session, t) == EncodeAndSign(a, WriteFilePayload(a, id, session, t))
IssueAndroidVolume(a, id, session, t) == EncodeAndSign(a, AndroidVolumePayload(a, id, session, t))

IssueAt(a, id, session, t) ==
    CASE a.family = "create_directory" -> IssueCreateDirectory(a, id, session, t)
      [] a.family = "copy_file" -> IssueCopyFile(a, id, session, t)
      [] a.family = "trash_file" -> IssueTrashFile(a, id, session, t)
      [] a.family = "write_file" -> IssueWriteFile(a, id, session, t)
      [] a.family = "android_volume" -> IssueAndroidVolume(a, id, session, t)

-----------------------------------------------------------------------------
(* Parse and consume *)

NoToken == [kind |-> "none"]
MalformedToken == [kind |-> "malformed"]  \* not four dot-separated segments

ParseAndVerify(a, token, bytes) ==
    IF token.kind = "malformed" THEN Malformed
    ELSE IF token.version # "v1" THEN [error |-> "unknown_version"]
    ELSE IF token.key_id # a.key_id THEN [error |-> "unknown_key"]
    ELSE IF token.payload.bytes # bytes THEN Malformed
    ELSE IF token.mac # Hmac(a.key, "v1", <<token.key_id, token.payload>>)
         THEN [error |-> "signature_invalid"]
    ELSE token.payload

ParseCreateDirectory(a, token) == ParseAndVerify(a, token, 130)
ParseAndroidVolume(a, token) == ParseAndVerify(a, token, 83)
ParseCopyFile(a, token) == ParseAndVerify(a, token, 65)
ParseTrashFile(a, token) == ParseAndVerify(a, token, 65)
ParseWriteFile(a, token) == ParseAndVerify(a, token, 65)

\* Mutant: the session is not compared.
CreateDirectoryBoundSessionless(a, g, session, t) ==
    /\ g.principal_digest = a.principal_digest /\ g.posture = "mutating"
    /\ g.capability = wire_code("create_directory")
    /\ g.root = t.root /\ g.target_digest = t.target_digest

CreateDirectoryBound(a, g, session, t) ==
    /\ g.principal_digest = a.principal_digest
    /\ g.session_id = session
    /\ g.capability = wire_code("create_directory")
    /\ g.root = t.root
    /\ g.target_digest = t.target_digest
    /\ g.posture = "mutating"

AndroidVolumeBound(a, g, session, t) ==
    /\ g.principal_digest = a.principal_digest
    /\ g.session_id = session
    /\ g.capability = wire_code("android_volume")
    /\ g.stream = t.stream
    /\ g.level = t.level
    /\ g.posture = "mutating"

CopyFileBound(a, g, session, t) ==
    /\ g.capability = wire_code("copy_file")
    /\ g.operation_binding = CopyFileBinding(a, g.grant_id, session, t)

TrashFileBound(a, g, session, t) ==
    /\ g.capability = wire_code("trash_file")
    /\ g.operation_binding = TrashFileBinding(a, g.grant_id, session, t)

WriteFileBound(a, g, session, t) ==
    /\ g.capability = wire_code("write_file")
    /\ g.operation_binding = WriteFileBinding(a, g.grant_id, session, t)

Parse(a, token) ==
    CASE a.family = "create_directory" -> ParseCreateDirectory(a, token)
      [] a.family = "android_volume" -> ParseAndroidVolume(a, token)
      [] a.family = "copy_file" -> ParseCopyFile(a, token)
      [] a.family = "trash_file" -> ParseTrashFile(a, token)
      [] a.family = "write_file" -> ParseWriteFile(a, token)

Bound(a, g, session, t) ==
    CASE a.family = "create_directory" -> CreateDirectoryBound(a, g, session, t)
      [] a.family = "android_volume" -> AndroidVolumeBound(a, g, session, t)
      [] a.family = "copy_file" -> CopyFileBound(a, g, session, t)
      [] a.family = "trash_file" -> TrashFileBound(a, g, session, t)
      [] a.family = "write_file" -> WriteFileBound(a, g, session, t)

\* What consume_at decides before it asks the replay state: an error, or the
\* id to spend.
ConsumeAt(a, token, session, t) ==
    IF token.kind = "none" THEN [error |-> "missing"]
    ELSE LET g == Parse(a, token)
         IN  IF IsError(g) THEN g
             ELSE IF Bound(a, g, session, t) THEN [spend |-> g.grant_id]
             ELSE [error |-> "binding_mismatch"]
=============================================================================
