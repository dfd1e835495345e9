---------------------------- MODULE ServerProofs ----------------------------
(***************************************************************************)
(* Proofs about Server: whatever requests, grants, restarts and changes of *)
(* files there are, in any order, a mutation happens only on a grant of    *)
(* its own, every handled call leaves one truthful audit record, and the   *)
(* catalogue says what the handlers do.                                    *)
(***************************************************************************)
EXTENDS Server, SequenceTheorems, NaturalsInduction, WellFoundedInduction, TLAPS

-----------------------------------------------------------------------------
(* Early returns *)

\* A nonempty set of natural numbers has a least element.
LEMMA Least ==
    ASSUME NEW T, T \subseteq Nat, T # {}
    PROVE  \E m \in T : \A n \in T : m <= n
<1> DEFINE R == {p \in Nat \X Nat : p[1] < p[2]}
<1>1. IsWellFoundedOn(R, Nat)
  <2>1. R = OpToRel(<, Nat)
    BY DEF OpToRel
  <2> QED BY <2>1, NatLessThanWellFounded
<1>2. PICK m \in T : \A n \in T : <<n, m>> \notin R
  <2> HIDE DEF R
  <2> QED BY <1>1, WFMin
<1>3. ASSUME NEW n \in T PROVE m <= n
  <2>1. ~(n < m)
    BY <1>2
  <2> QED BY <2>1
<1> QED BY <1>3

\* None of the early returns applies.
None(returns) == \A i \in DOMAIN returns : ~ returns[i][1]

IsList(returns) == \E n \in Nat : DOMAIN returns = 1..n

\* A handler ends with one of its early returns, or none of them applies.
LEMMA FirstFacts ==
    ASSUME NEW returns, IsList(returns), NEW otherwise
    PROVE  \/ None(returns) /\ First(returns, otherwise) = otherwise
           \/ \E i \in DOMAIN returns : returns[i][1] /\ First(returns, otherwise) = returns[i][2]
<1>0. PICK n \in Nat : DOMAIN returns = 1..n
  BY DEF IsList
<1>1. CASE None(returns)
  BY <1>1 DEF None, First
<1>2. CASE ~ None(returns)
  <2> DEFINE T == {i \in 1..n : returns[i][1]}
             P(i) == i \in DOMAIN returns /\ returns[i][1] /\ \A j \in 1..(i - 1) : ~ returns[j][1]
  <2>1. T \subseteq Nat /\ T # {}
    BY <1>0, <1>2 DEF None
  <2>2. PICK m \in T : \A i \in T : m <= i
    <3> HIDE DEF T
    <3> QED BY <2>1, Least
  <2>3. P(m)
    BY <1>0, <2>2
  <2>4. P(CHOOSE i : P(i))
    BY <2>3
  <2> QED BY <2>4, <1>2, Zenon DEF First, None
<1> QED BY <1>1, <1>2

-----------------------------------------------------------------------------
(* Tokens *)

\* The domain in which a family digests its principal.
PrincipalDomain(f) ==
    CASE f = "create_directory" -> "static-principal" [] f = "copy_file" -> "copy-file-principal"
      [] f = "trash_file" -> "trash-file-principal" [] f = "write_file" -> "write-file-principal"
      [] f = "android_volume" -> "android-volume-principal"

AuthorityRecord(f, keyId, key, principal) ==
    [family |-> f, key_id |-> keyId, key |-> key, domain |-> PrincipalDomain(f),
     principal_digest |-> <<key, PrincipalDomain(f), principal>>]

\* An authority that could be made has this form, and a principal.
LEMMA AuthorityFacts ==
    ASSUME NEW f \in Families, NEW k, NEW h, NEW p, HasAuthority(AuthorityOf(f, k, h, p))
    PROVE  AuthorityOf(f, k, h, p) = AuthorityRecord(f, k, h, p) /\ p # "none"
<1>1. AuthorityOf(f, k, h, p) = Authority(f, PrincipalDomain(f), k, h, p)
  BY DEF Families, AuthorityOf, PrincipalDomain, CreateDirectoryAuthority, CopyFileAuthority,
         TrashFileAuthority, WriteFileAuthority, AndroidVolumeAuthority
<1>2. Authority(f, PrincipalDomain(f), k, h, p) # [error |-> "configuration_invalid"]
  BY <1>1 DEF HasAuthority
<1> QED BY <1>1, <1>2 DEF Authority, Hmac, AuthorityRecord

LEMMA WireCodes ==
    ASSUME NEW f \in Families, NEW g \in Families, wire_code(f) = wire_code(g)
    PROVE  f = g
BY DEF Families, wire_code

\* What all payloads have in common.
LEMMA IssuedFacts ==
    ASSUME NEW f \in Families, NEW k, NEW h, NEW p, NEW id, NEW session, NEW t,
           NEW a, a = AuthorityRecord(f, k, h, p)
    PROVE  LET token == IssueAt(a, id, session, t)
           IN  /\ token = EncodeAndSign(a, token.payload)
               /\ token.payload.grant_id = id /\ token.payload.capability = wire_code(f)
               /\ "grant_id" \in DOMAIN token.payload
<1> DEFINE token == IssueAt(a, id, session, t)
<1>0. a.family = f
  BY DEF AuthorityRecord
<1>1. CASE f = "create_directory"
  BY <1>0, <1>1 DEF IssueAt, IssueCreateDirectory, EncodeAndSign, CreateDirectoryPayload
<1>2. CASE f = "copy_file"
  BY <1>0, <1>2 DEF IssueAt, IssueCopyFile, EncodeAndSign, CopyFilePayload, SealedPayload
<1>3. CASE f = "trash_file"
  BY <1>0, <1>3 DEF IssueAt, IssueTrashFile, EncodeAndSign, TrashFilePayload, SealedPayload
<1>4. CASE f = "write_file"
  BY <1>0, <1>4 DEF IssueAt, IssueWriteFile, EncodeAndSign, WriteFilePayload, SealedPayload
<1>5. CASE f = "android_volume"
  BY <1>0, <1>5 DEF IssueAt, IssueAndroidVolume, EncodeAndSign, AndroidVolumePayload
<1> QED BY <1>1, <1>2, <1>3, <1>4, <1>5 DEF Families

\* Parsing gives the payload, and only with the key that signed.
LEMMA ParseFacts ==
    ASSUME NEW f \in Families, NEW a, a.family = f, NEW b, NEW payload, "grant_id" \in DOMAIN payload,
           ~ IsError(Parse(a, EncodeAndSign(b, payload)))
    PROVE  /\ Parse(a, EncodeAndSign(b, payload)) = payload
           /\ a.key_id = b.key_id /\ a.key = b.key
<1> DEFINE token == EncodeAndSign(b, payload)
<1>1. PICK n : Parse(a, token) = ParseAndVerify(a, token, n)
  BY DEF Families, Parse, ParseCreateDirectory, ParseAndroidVolume, ParseCopyFile, ParseTrashFile,
         ParseWriteFile
<1>2. /\ token.kind = "signed" /\ token.version = "v1" /\ token.key_id = b.key_id
      /\ token.payload = payload /\ token.mac = <<b.key, "v1", <<b.key_id, payload>> >>
  BY DEF EncodeAndSign, Hmac
<1>3. \A x : [error |-> x] # payload /\ IsError([error |-> x])
  BY DEF IsError
<1> HIDE DEF token
<1>4. ~ IsError(ParseAndVerify(a, token, n))
  BY <1>1 DEF token
<1>5. /\ token.key_id = a.key_id /\ token.mac = Hmac(a.key, "v1", <<token.key_id, token.payload>>)
      /\ ParseAndVerify(a, token, n) = token.payload
  BY <1>3, <1>4 DEF ParseAndVerify, Malformed
<1> QED BY <1>1, <1>2, <1>5 DEF Hmac, token

\* What is bound names the target and the identity of the file.
LEMMA MeantFacts ==
    ASSUME NEW x \in {"plain", "other"}, NEW i
    PROVE  /\ Meant("create_directory", x, i) =
                 [root |-> "home",
                  target_digest |-> <<"create-directory-target", <<IF x = "plain" THEN "new" ELSE "new2">> >>]
           /\ Meant("copy_file", x, i) =
                 [source_root |-> "home", source_path |-> <<"copy-file-path", <<"old">> >>,
                  source_identity |-> i, source_sha256 |-> <<"content", i>>, destination_root |-> "home",
                  destination_path |-> <<"copy-file-path", <<IF x = "plain" THEN "copy" ELSE "copy2">> >>]
           /\ Meant("trash_file", x, i) =
                 [root |-> "home",
                  target_digest |-> <<"trash-file-target", <<IF x = "plain" THEN "old" ELSE "old2">> >>,
                  content_digest |-> <<"content", i>>, identity |-> i]
           /\ Meant("write_file", x, i) =
                 [root |-> "home", target_digest |-> <<"write-file-target", <<"old">> >>,
                  content_digest |-> <<"content", x>>,
                  disposition |-> IF i = 0 THEN "create" ELSE "replace", existing_identity |-> i]
           /\ Meant("android_volume", x, i) =
                 [stream |-> "music", level |-> IF x = "plain" THEN 3 ELSE 4]
<1>1. Meant("create_directory", x, i) =
         [root |-> "home",
          target_digest |-> <<"create-directory-target", <<IF x = "plain" THEN "new" ELSE "new2">> >>]
  BY DEF Meant, CreateDirectoryTarget, Sha256
<1>2. Meant("copy_file", x, i) =
         [source_root |-> "home", source_path |-> <<"copy-file-path", <<"old">> >>,
          source_identity |-> i, source_sha256 |-> <<"content", i>>, destination_root |-> "home",
          destination_path |-> <<"copy-file-path", <<IF x = "plain" THEN "copy" ELSE "copy2">> >>]
  BY DEF Meant, CopyFileTarget, NormalizedPathDigest, Sha256
<1>3. Meant("trash_file", x, i) =
         [root |-> "home",
          target_digest |-> <<"trash-file-target", <<IF x = "plain" THEN "old" ELSE "old2">> >>,
          content_digest |-> <<"content", i>>, identity |-> i]
  BY DEF Meant, TrashFileTarget, Sha256
<1>4. Meant("write_file", x, i) =
         [root |-> "home", target_digest |-> <<"write-file-target", <<"old">> >>,
          content_digest |-> <<"content", x>>,
          disposition |-> IF i = 0 THEN "create" ELSE "replace", existing_identity |-> i]
  BY DEF Meant, WriteFileTarget, Sha256
<1>5. Meant("android_volume", x, i) = [stream |-> "music", level |-> IF x = "plain" THEN 3 ELSE 4]
  BY DEF Meant, AndroidVolumeTarget
<1> QED BY <1>1, <1>2, <1>3, <1>4, <1>5

\* These families are not bound to the identity of a file.
Identified(f, i) == f \in {"create_directory", "android_volume"} => i = 0

\* A token that q was issued for session u fits a call of p in session s.
Fits(f, k, h, p, q, id, s, u, x, y, i, j) ==
    Bound(AuthorityRecord(f, k, h, p),
          IssueAt(AuthorityRecord(f, k, h, q), id, u, Meant(f, y, j)).payload, s, Meant(f, x, i))

\* A grant is bound to the call it was issued for: same principal, session,
\* target and identity.
LEMMA SameOperation ==
    ASSUME NEW f \in Families, NEW k, NEW h, NEW p, NEW q, NEW id, NEW s, NEW u,
           NEW x \in {"plain", "other"}, NEW y \in {"plain", "other"}, NEW i, NEW j,
           Identified(f, i), Identified(f, j),
           Fits(f, k, h, p, q, id, s, u, x, y, i, j)
    PROVE  p = q /\ s = u /\ x = y /\ i = j
<1> DEFINE a == AuthorityRecord(f, k, h, p)
           b == AuthorityRecord(f, k, h, q)
           g == IssueAt(b, id, u, Meant(f, y, j)).payload
           t == Meant(f, x, i)
           v == Meant(f, y, j)
<1>1. /\ a.family = f /\ a.key = h /\ a.principal_digest = <<h, PrincipalDomain(f), p>>
      /\ b.family = f /\ b.key = h /\ b.principal_digest = <<h, PrincipalDomain(f), q>>
  BY DEF AuthorityRecord
<1>0. Bound(a, g, s, t)
  BY DEF Fits
<1> HIDE DEF a, b
<1>2. CASE f = "create_directory"
  <2>1. g = CreateDirectoryPayload(b, id, u, v)
    BY <1>1, <1>2 DEF IssueAt, IssueCreateDirectory, EncodeAndSign
  <2>2. CreateDirectoryBound(a, g, s, t)
    BY <1>0, <1>1, <1>2 DEF Bound
  <2>3. /\ b.principal_digest = a.principal_digest /\ u = s /\ v.target_digest = t.target_digest
    BY <2>1, <2>2 DEF CreateDirectoryBound, CreateDirectoryPayload
  <2>4. t.target_digest = <<"create-directory-target", <<IF x = "plain" THEN "new" ELSE "new2">> >>
    BY <1>2, MeantFacts
  <2>5. v.target_digest = <<"create-directory-target", <<IF y = "plain" THEN "new" ELSE "new2">> >>
    BY <1>2, MeantFacts
  <2> QED BY <1>1, <1>2, <2>3, <2>4, <2>5 DEF Identified
<1>3. CASE f = "copy_file"
  <2>1. g = CopyFilePayload(b, id, u, v)
    BY <1>1, <1>3 DEF IssueAt, IssueCopyFile, EncodeAndSign
  <2>2. CopyFileBound(a, g, s, t)
    BY <1>0, <1>1, <1>3 DEF Bound
  <2>3. CopyFileBinding(b, id, u, v) = CopyFileBinding(a, id, s, t)
    BY <2>1, <2>2 DEF CopyFileBound, CopyFilePayload, SealedPayload
  <2>4. /\ b.principal_digest = a.principal_digest /\ u = s /\ v.destination_path = t.destination_path
        /\ v.source_identity = t.source_identity
    BY <2>3 DEF CopyFileBinding, Hmac
  <2>5. /\ t.destination_path = <<"copy-file-path", <<IF x = "plain" THEN "copy" ELSE "copy2">> >>
        /\ t.source_identity = i
    BY <1>3, MeantFacts
  <2>6. /\ v.destination_path = <<"copy-file-path", <<IF y = "plain" THEN "copy" ELSE "copy2">> >>
        /\ v.source_identity = j
    BY <1>3, MeantFacts
  <2> QED BY <1>1, <2>4, <2>5, <2>6
<1>4. CASE f = "trash_file"
  <2>1. g = TrashFilePayload(b, id, u, v)
    BY <1>1, <1>4 DEF IssueAt, IssueTrashFile, EncodeAndSign
  <2>2. TrashFileBound(a, g, s, t)
    BY <1>0, <1>1, <1>4 DEF Bound
  <2>3. TrashFileBinding(b, id, u, v) = TrashFileBinding(a, id, s, t)
    BY <2>1, <2>2 DEF TrashFileBound, TrashFilePayload, SealedPayload
  <2>4. /\ b.principal_digest = a.principal_digest /\ u = s /\ v.target_digest = t.target_digest
        /\ v.identity = t.identity
    BY <2>3 DEF TrashFileBinding, Hmac
  <2>5. /\ t.target_digest = <<"trash-file-target", <<IF x = "plain" THEN "old" ELSE "old2">> >>
        /\ t.identity = i
    BY <1>4, MeantFacts
  <2>6. /\ v.target_digest = <<"trash-file-target", <<IF y = "plain" THEN "old" ELSE "old2">> >>
        /\ v.identity = j
    BY <1>4, MeantFacts
  <2> QED BY <1>1, <2>4, <2>5, <2>6
<1>5. CASE f = "write_file"
  <2>1. g = WriteFilePayload(b, id, u, v)
    BY <1>1, <1>5 DEF IssueAt, IssueWriteFile, EncodeAndSign
  <2>2. WriteFileBound(a, g, s, t)
    BY <1>0, <1>1, <1>5 DEF Bound
  <2>3. WriteFileBinding(b, id, u, v) = WriteFileBinding(a, id, s, t)
    BY <2>1, <2>2 DEF WriteFileBound, WriteFilePayload, SealedPayload
  <2>4. /\ b.principal_digest = a.principal_digest /\ u = s /\ v.content_digest = t.content_digest
        /\ v.existing_identity = t.existing_identity
    BY <2>3 DEF WriteFileBinding, Hmac
  <2>5. t.content_digest = <<"content", x>> /\ t.existing_identity = i
    BY <1>5, MeantFacts
  <2>6. v.content_digest = <<"content", y>> /\ v.existing_identity = j
    BY <1>5, MeantFacts
  <2> QED BY <1>1, <2>4, <2>5, <2>6
<1>6. CASE f = "android_volume"
  <2>1. g = AndroidVolumePayload(b, id, u, v)
    BY <1>1, <1>6 DEF IssueAt, IssueAndroidVolume, EncodeAndSign
  <2>2. AndroidVolumeBound(a, g, s, t)
    BY <1>0, <1>1, <1>6 DEF Bound
  <2>3. /\ b.principal_digest = a.principal_digest /\ u = s /\ v.level = t.level
    BY <2>1, <2>2 DEF AndroidVolumeBound, AndroidVolumePayload
  <2>4. t.level = IF x = "plain" THEN 3 ELSE 4
    BY <1>6, MeantFacts
  <2>5. v.level = IF y = "plain" THEN 3 ELSE 4
    BY <1>6, MeantFacts
  <2> QED BY <1>1, <1>6, <2>3, <2>4, <2>5 DEF Identified
<1> QED BY <1>2, <1>3, <1>4, <1>5, <1>6 DEF Families

\* What the authority of one call makes of a token issued for another.
Consumed(f, k, h, p, g, kk, hh, q, id, s, u, x, y, i, j) ==
    ConsumeAt(AuthorityRecord(f, k, h, p), IssueAt(AuthorityRecord(g, kk, hh, q), id, u, Meant(g, y, j)),
              s, Meant(f, x, i))

Accepted(f, k, h, p, g, kk, hh, q, id, s, u, x, y, i, j) ==
    ~ IsError(Consumed(f, k, h, p, g, kk, hh, q, id, s, u, x, y, i, j))

\* A token that one authority issued and another consumes was issued in the
\* same family, with the same key and for the same principal, session, target
\* and file.
LEMMA ConsumedAsIssued ==
    ASSUME NEW f \in Families, NEW k, NEW h, NEW p, NEW g \in Families, NEW kk, NEW hh, NEW q,
           NEW id, NEW s, NEW u, NEW x \in {"plain", "other"}, NEW y \in {"plain", "other"}, NEW i, NEW j,
           Identified(f, i), Identified(g, j),
           Accepted(f, k, h, p, g, kk, hh, q, id, s, u, x, y, i, j)
    PROVE  /\ f = g /\ k = kk /\ h = hh /\ p = q /\ s = u /\ x = y /\ i = j
           /\ Consumed(f, k, h, p, g, kk, hh, q, id, s, u, x, y, i, j) = [spend |-> id]
<1> DEFINE a == AuthorityRecord(f, k, h, p)
           b == AuthorityRecord(g, kk, hh, q)
           token == IssueAt(b, id, u, Meant(g, y, j))
           t == Meant(f, x, i)
           parsed == Parse(a, token)
<1>1. /\ token = EncodeAndSign(b, token.payload)
      /\ token.payload.grant_id = id /\ token.payload.capability = wire_code(g)
      /\ "grant_id" \in DOMAIN token.payload
  <2> HIDE DEF b
  <2> QED BY IssuedFacts DEF b
<1>2. /\ a.family = f /\ a.key = h /\ a.key_id = k /\ b.key = hh /\ b.key_id = kk
  BY DEF AuthorityRecord
<1> HIDE DEF a, b, token, t
<1>3. token.kind # "none"
  BY <1>1 DEF EncodeAndSign
<1>4. \A e : IsError([error |-> e])
  BY DEF IsError
<1>5. ~ IsError(ConsumeAt(a, token, s, t))
  BY DEF a, b, token, t, Consumed, Accepted
<1>6. /\ ~ IsError(parsed) /\ Bound(a, parsed, s, t)
      /\ ConsumeAt(a, token, s, t) = [spend |-> parsed.grant_id]
  BY <1>3, <1>4, <1>5 DEF ConsumeAt
<1>7. parsed = token.payload /\ a.key_id = b.key_id /\ a.key = b.key
  <2> DEFINE payload == token.payload
  <2>1. token = EncodeAndSign(b, payload) /\ "grant_id" \in DOMAIN payload
    BY <1>1
  <2> HIDE DEF payload
  <2>2. ~ IsError(Parse(a, EncodeAndSign(b, payload)))
    BY <1>6, <2>1
  <2>3. Parse(a, EncodeAndSign(b, payload)) = payload /\ a.key_id = b.key_id /\ a.key = b.key
    BY <1>2, <2>1, <2>2, ParseFacts
  <2> QED BY <2>1, <2>3 DEF payload
<1>8. parsed.capability = wire_code(f)
  BY <1>2, <1>6 DEF Families, Bound, CreateDirectoryBound, CopyFileBound, TrashFileBound, WriteFileBound,
                    AndroidVolumeBound
<1>9. f = g
  BY <1>1, <1>7, <1>8, WireCodes
<1>10. k = kk /\ h = hh
  BY <1>2, <1>7
<1>11. p = q /\ s = u /\ x = y /\ i = j
  <2>1. Fits(f, k, h, p, q, id, s, u, x, y, i, j)
    BY <1>6, <1>7, <1>9, <1>10 DEF a, b, token, t, Fits
  <2>2. Identified(f, j)
    BY <1>9
  <2> QED BY <2>1, <2>2, SameOperation
<1>12. ConsumeAt(a, token, s, t) = [spend |-> id]
  BY <1>1, <1>6, <1>7
<1> QED BY <1>9, <1>10, <1>11, <1>12 DEF a, b, token, t, Consumed

\* A target that can be prepared is the one that was meant.
LEMMA TargetFacts ==
    ASSUME NEW f \in Families, NEW x \in Targets, NEW w, ~ IsError(Target(f, x, w))
    PROVE  /\ x \in {"plain", "other"} /\ Identified(f, IdentityOf(f, x, w))
           /\ Target(f, x, w) = Meant(f, x, IdentityOf(f, x, w))
<1>0. \A e : IsError([error |-> e])
  BY DEF IsError
<1>1. CASE f = "create_directory"
  BY <1>0, <1>1 DEF Target, PrepareCreateDirectory, PathError, Targets, Meant, Identified, IdentityOf
<1>2. CASE f = "copy_file"
  BY <1>0, <1>2 DEF Target, PrepareCopyFile, PathError, Targets, Meant, Identified, IdentityOf
<1>3. CASE f = "trash_file"
  BY <1>0, <1>3 DEF Target, PrepareTrashFile, PathError, Targets, Meant, Identified, IdentityOf
<1>4. CASE f = "write_file"
  BY <1>0, <1>4 DEF Target, PrepareWriteFile, PathError, Targets, Meant, Identified, IdentityOf
<1>5. CASE f = "android_volume"
  BY <1>0, <1>5 DEF Target, PrepareVolume, AndroidVolumeTarget, TargetInvalid, Targets, Meant, Identified,
                    IdentityOf
<1> QED BY <1>1, <1>2, <1>3, <1>4, <1>5 DEF Families

\* The authority that a configuration gives a family, if any.
LEMMA ConfiguredFacts ==
    ASSUME NEW f \in Families, NEW env, HasAuthority(ConfiguredAuthority(env, f))
    PROVE  /\ ConfiguredAuthority(env, f) = AuthorityOf(f, env["key_id"], env["key"], Token(env))
           /\ ConfiguredAuthority(env, f) = AuthorityRecord(f, env["key_id"], env["key"], Token(env))
<1>1. ~ HasAuthority(NoAuthority)
  BY DEF HasAuthority, NoAuthority
<1>2. ConfiguredAuthority(env, f) = AuthorityOf(f, env["key_id"], env["key"], Token(env))
  BY <1>1 DEF Families, ConfiguredAuthority, AuthorityOf, ConfiguredCreateDirectoryAuthority,
         ConfiguredWriteFileAuthority, ConfiguredCopyFileAuthority, ConfiguredTrashFileAuthority,
         ConfiguredAndroidVolumeAuthority
<1> QED BY <1>2, AuthorityFacts

\* The authorities of a server are those of its principal.
LEMMA ServerSound ==
    ASSUME NEW env
    PROVE  AuthoritySound(ServerOf(env))
<1> DEFINE s == ServerOf(env)
<1>1. /\ s.authority = [f \in Families |-> ConfiguredAuthority(env, f)] /\ s.principal = Token(env)
      /\ s.gates = {g \in Gates \ {"android_volume"} : Enabled(env, g)}
                   \cup {g \in {"android_volume"} : HasAuthority(ConfiguredAuthority(env, g))}
  BY DEF ServerOf
<1> HIDE DEF s
<1>2. ASSUME NEW f \in Families, HasAuthority(s.authority[f])
      PROVE  s.authority[f] = AuthorityOf(f, s.authority[f].key_id, s.authority[f].key, s.principal)
  <2>1. s.authority[f] = ConfiguredAuthority(env, f)
    BY <1>1
  <2>2. /\ ConfiguredAuthority(env, f) = AuthorityOf(f, env["key_id"], env["key"], Token(env))
        /\ ConfiguredAuthority(env, f) = AuthorityRecord(f, env["key_id"], env["key"], Token(env))
    BY <1>2, <2>1, ConfiguredFacts
  <2>3. s.authority[f].key_id = env["key_id"] /\ s.authority[f].key = env["key"]
    BY <2>1, <2>2 DEF AuthorityRecord
  <2> QED BY <1>1, <2>1, <2>2, <2>3
<1>3. ASSUME "android_volume" \in s.gates PROVE HasAuthority(s.authority["android_volume"])
  BY <1>1, <1>3 DEF Families
<1> QED BY <1>2, <1>3 DEF s, AuthoritySound

-----------------------------------------------------------------------------
(* Routing *)

\* When no early return goes further, what goes further is what follows them.
LEMMA FirstDo ==
    ASSUME NEW returns, IsList(returns), NEW otherwise,
           \A i \in DOMAIN returns : returns[i][2].do = "nothing",
           First(returns, otherwise).do # "nothing"
    PROVE  None(returns) /\ First(returns, otherwise) = otherwise
BY FirstFacts

\* A session that is found is one of the store, and has not ended.
LEMMA FoundFacts ==
    ASSUME NEW phases, NEW r, ValidateSessionRequest(phases, r) = "found"
    PROVE  r.session \in DOMAIN phases /\ phases[r.session] \notin {"none", "ended"}
<1> DEFINE returns ==
        << <<r.version = "absent", "protocol_version_required">>,
           <<r.version \in {"twice", "stateless_and_other"}, "invalid_protocol_version">>,
           <<r.version # "legacy", "unsupported_protocol_version">>,
           <<r.session = "absent", "session_required">>,
           <<r.session \in {"twice", "malformed"}, "session_not_found">>,
           <<r.session \notin DOMAIN phases, "session_not_found">>,
           <<phases[IF r.session \in DOMAIN phases THEN r.session ELSE "s1"] \in {"none", "ended"},
             "session_not_found">> >>
<1>1. ValidateSessionRequest(phases, r) = First(returns, "found")
  BY DEF ValidateSessionRequest
<1>2. IsList(returns) /\ \A i \in DOMAIN returns : returns[i][2] # "found"
  BY DEF IsList
<1>3. ASSUME None(returns)
      PROVE  r.session \in DOMAIN phases /\ phases[r.session] \notin {"none", "ended"}
  <2>1. 6 \in DOMAIN returns /\ 7 \in DOMAIN returns
    OBVIOUS
  <2>2. ~ returns[6][1] /\ ~ returns[7][1]
    <3> HIDE DEF returns
    <3> QED BY <1>3, <2>1 DEF None
  <2> QED BY <2>2
<1>4. None(returns)
  <2> HIDE DEF returns
  <2> QED BY <1>1, <1>2, FirstFacts
<1> QED BY <1>3, <1>4

\* What a body can be.
MessageKinds == {"parse_error", "invalid_request", "request", "notification", "response"}

LEMMA MessageFacts ==
    ASSUME NEW r
    PROVE  ParseIncomingMessage(r) \in MessageKinds
<1>1. ValidateRequestOrNotification(r) \in MessageKinds
  <2> DEFINE back == << <<r.rpc = "not_a_string", "invalid_request">>,
                        <<r.params = "not_an_object", "invalid_request">>,
                        <<r.id = "absent", "notification">>,
                        <<~ ValidRequestId(r), "invalid_request">> >>
  <2>1. ValidateRequestOrNotification(r) = First(back, "request")
    BY DEF ValidateRequestOrNotification
  <2>2. IsList(back) /\ \A i \in DOMAIN back : back[i][2] \in MessageKinds
    BY DEF IsList, MessageKinds
  <2> HIDE DEF back
  <2> QED BY <2>1, <2>2, FirstFacts DEF MessageKinds
<1>2. ValidateResponse(r) \in MessageKinds
  <2> DEFINE back ==
        << <<r.params # "absent", "invalid_request">>,
           <<(r.result = "absent") = (r.error = "absent"), "invalid_request">>,
           <<r.result # "absent" /\ (r.result # "object" \/ ~ ValidRequestId(r)), "invalid_request">>,
           <<r.error # "absent" /\ (r.error # "object" \/ r.id = "bad"), "invalid_request">> >>
  <2>1. ValidateResponse(r) = First(back, "response")
    BY DEF ValidateResponse
  <2>2. IsList(back) /\ \A i \in DOMAIN back : back[i][2] \in MessageKinds
    BY DEF IsList, MessageKinds
  <2> HIDE DEF back
  <2> QED BY <2>1, <2>2, FirstFacts DEF MessageKinds
<1> DEFINE back == << <<r.body = "not_json", "parse_error">>,
                      <<r.body = "not_an_object" \/ r.jsonrpc # "2.0", "invalid_request">> >>
           rest == IF r.rpc = "absent" THEN ValidateResponse(r) ELSE ValidateRequestOrNotification(r)
<1>3. ParseIncomingMessage(r) = First(back, rest)
  BY DEF ParseIncomingMessage
<1>4. IsList(back) /\ \A i \in DOMAIN back : back[i][2] \in MessageKinds
  BY DEF IsList, MessageKinds
<1>5. rest \in MessageKinds
  BY <1>1, <1>2
<1> HIDE DEF back, rest
<1> QED BY <1>3, <1>4, <1>5, FirstFacts

\* A request that reaches a tool comes without a session and asks for no live
\* mutation, or with an active one; only a session that is found is activated.
Reached(s, phases, r, out) ==
    /\ out.do \in {"nothing", "create_session", "activate", "terminate", "call_tool"}
    /\ out.do = "call_tool" =>
          \/ DeclaresStatelessRequest(s, r) /\ ~ stateless_live_mutation_requested(r)
          \/ /\ ~ DeclaresStatelessRequest(s, r) /\ ValidateSessionRequest(phases, r) = "found"
             /\ PhaseOf(phases, r) = "active"
    /\ out.do = "activate" => ValidateSessionRequest(phases, r) = "found"

LEMMA LegacyPostFacts ==
    ASSUME NEW s, NEW phases, NEW r, ~ DeclaresStatelessRequest(s, r)
    PROVE  Reached(s, phases, r, HandleLegacyMcpPost(phases, r))
<1> DEFINE message == ParseIncomingMessage(r)
           found == ValidateSessionRequest(phases, r)
           phase0 == PhaseOf(phases, r)
           returns ==
             << <<~ HasJsonContentType(r), Answer("unsupported_content_type")>>,
                <<~ AcceptsMediaType(r, "json") \/ ~ AcceptsMediaType(r, "sse"), Answer("unsupported_accept")>>,
                <<r.grant \in {"twice", "oversized"}, Answer("invalid_capability_grant_header")>>,
                <<message \in {"parse_error", "invalid_request"}, Answer(message)>>,
                <<message = "request" /\ r.id = "large", Answer("payload_too_large")>> >>
           rest == IF message = "request" /\ r.rpc = "initialize" THEN InitializeResponse(r)
                   ELSE IF found # "found" THEN Answer(found)
                   ELSE CASE message = "request" -> LegacyRequest(phase0, r)
                          [] message = "notification" -> LegacyNotification(phase0, r)
                          [] message = "response" -> LegacyResponse(phase0, r)
           out == HandleLegacyMcpPost(phases, r)
<1>0. \A a : Answer(a).do = "nothing"
  BY DEF Answer
<1>1. out = First(returns, rest)
  BY DEF HandleLegacyMcpPost
<1>2. IsList(returns) /\ \A i \in DOMAIN returns : returns[i][2].do = "nothing"
  BY <1>0 DEF IsList
<1>3. returns[4][1] = (message \in {"parse_error", "invalid_request"})
  OBVIOUS
<1> HIDE DEF returns, out, found, phase0
<1> SUFFICES ASSUME out.do # "nothing"
             PROVE  Reached(s, phases, r, out)
  BY DEF out, Reached
<1>4. None(returns) /\ out = rest
  <2> HIDE DEF rest
  <2> QED BY <1>1, <1>2, FirstDo
<1>5. InitializeResponse(r).do \in {"nothing", "create_session"}
  <2> DEFINE back == << <<r.grant # "absent", Answer("capability_context_not_allowed")>>,
                        <<r.session # "absent", Answer("session_not_allowed")>>,
                        <<~ ValidInitializeParams(r), Answer("invalid_params")>> >>
  <2>1. InitializeResponse(r) = First(back, Do("create_session"))
    BY DEF InitializeResponse
  <2>2. IsList(back) /\ \A i \in DOMAIN back : back[i][2].do = "nothing"
    BY <1>0 DEF IsList
  <2>3. Do("create_session").do = "create_session"
    BY DEF Do
  <2> HIDE DEF back
  <2> QED BY <2>1, <2>2, <2>3, FirstFacts
<1>6. /\ LegacyRequest(phase0, r).do \in {"nothing", "call_tool"}
      /\ (LegacyRequest(phase0, r).do = "call_tool" => phase0 = "active")
  <2> DEFINE back ==
        << <<r.grant # "absent" /\ r.rpc # "tools/call", Answer("capability_context_not_allowed")>>,
           <<r.rpc = "ping", Answer("ok")>>,
           <<phase0 # "active", Answer("server_not_initialized")>>,
           <<r.rpc = "tools/list", Answer("ok")>>,
           <<r.rpc # "tools/call", Answer("method_not_available")>> >>
  <2>1. LegacyRequest(phase0, r) = First(back, Do("call_tool"))
    BY DEF LegacyRequest
  <2>2. IsList(back) /\ \A i \in DOMAIN back : back[i][2].do = "nothing"
    BY <1>0 DEF IsList
  <2>3. Do("call_tool").do = "call_tool"
    BY DEF Do
  <2>4. ASSUME None(back) PROVE phase0 = "active"
    <3>1. 3 \in DOMAIN back /\ (back[3][1] = (phase0 # "active"))
      OBVIOUS
    <3> HIDE DEF back
    <3> QED BY <2>4, <3>1 DEF None
  <2> HIDE DEF back
  <2> QED BY <2>1, <2>2, <2>3, <2>4, FirstFacts
<1>7. LegacyNotification(phase0, r).do \in {"nothing", "activate"}
  <2> DEFINE back ==
        << <<r.grant # "absent", Answer("capability_context_not_allowed")>>,
           <<r.rpc = "notifications/initialized", Do("activate")>>,
           <<phase0 # "active", Answer("server_not_initialized")>> >>
  <2>1. LegacyNotification(phase0, r) = First(back, Answer("accepted"))
    BY DEF LegacyNotification
  <2>2. IsList(back) /\ \A i \in DOMAIN back : back[i][2].do \in {"nothing", "activate"}
    BY <1>0 DEF IsList, Do
  <2> HIDE DEF back
  <2> QED BY <1>0, <2>1, <2>2, FirstFacts
<1>8. LegacyResponse(phase0, r).do = "nothing"
  <2> DEFINE back ==
        << <<r.grant # "absent", Answer("capability_context_not_allowed")>>,
           <<phase0 # "active", Answer("server_not_initialized")>> >>
  <2>1. LegacyResponse(phase0, r) = First(back, Answer("accepted"))
    BY DEF LegacyResponse
  <2>2. IsList(back) /\ \A i \in DOMAIN back : back[i][2].do = "nothing"
    BY <1>0 DEF IsList
  <2> HIDE DEF back
  <2> QED BY <1>0, <2>1, <2>2, FirstFacts
<1>9. message \in {"request", "notification", "response"}
  <2>1. message \in MessageKinds
    BY MessageFacts
  <2>2. message \notin {"parse_error", "invalid_request"}
    <3> HIDE DEF message
    <3>1. 4 \in DOMAIN returns /\ (returns[4][1] = (message \in {"parse_error", "invalid_request"}))
      BY DEF returns
    <3> QED BY <1>4, <3>1 DEF None
  <2> HIDE DEF message
  <2> QED BY <2>1, <2>2 DEF MessageKinds
<1> HIDE DEF message
<1>10. CASE message = "request" /\ r.rpc = "initialize"
  BY <1>4, <1>5, <1>10 DEF Reached
<1>11. CASE ~ (message = "request" /\ r.rpc = "initialize") /\ found # "found"
  BY <1>0, <1>4, <1>11
<1>12. CASE ~ (message = "request" /\ r.rpc = "initialize") /\ found = "found"
  <2>1. Reached(s, phases, r, out)
    BY <1>4, <1>6, <1>7, <1>8, <1>9, <1>12 DEF Reached, found, phase0
  <2> QED BY <2>1
<1> QED BY <1>10, <1>11, <1>12

LEMMA StatelessPostFacts ==
    ASSUME NEW s, NEW phases, NEW r, DeclaresStatelessRequest(s, r)
    PROVE  Reached(s, phases, r, HandleStatelessMcpPost(s, r))
<1> DEFINE message == ParseIncomingMessage(r)
           metadata == StatelessMetadata(r)
           routing == StatelessRouting(s, r)
           returns ==
             << <<~ HasJsonContentType(r), Answer("unsupported_content_type")>>,
                <<~ AcceptsMediaType(r, "json") \/ ~ AcceptsMediaType(r, "sse"), Answer("unsupported_accept")>>,
                <<message = "parse_error", Answer(message)>>,
                <<message # "request", Answer("invalid_request")>>,
                <<r.id = "large", Answer("payload_too_large")>>,
                <<metadata # "valid", Answer(metadata)>>,
                <<routing # "valid", Answer(routing)>> >>
           back ==
             << <<r.rpc \in {"server/discover", "tools/list"},
                  Answer(IF r.params = "object" THEN "ok" ELSE "invalid_params")>>,
                <<r.rpc # "tools/call", Answer("method_not_found")>>,
                <<r.tool \notin available_tools(s), Answer("invalid_params")>>,
                <<stateless_live_mutation_requested(r), Answer("invalid_params")>> >>
           out == HandleStatelessMcpPost(s, r)
<1>0. \A a : Answer(a).do = "nothing"
  BY DEF Answer
<1>1. out = First(returns, StatelessMethod(s, r))
  BY DEF HandleStatelessMcpPost
<1>2. IsList(returns) /\ \A i \in DOMAIN returns : returns[i][2].do = "nothing"
  BY <1>0 DEF IsList
<1>3. StatelessMethod(s, r) = First(back, Do("call_tool"))
  BY DEF StatelessMethod
<1>4. IsList(back) /\ \A i \in DOMAIN back : back[i][2].do = "nothing"
  BY <1>0 DEF IsList
<1>5. Do("call_tool").do = "call_tool"
  BY DEF Do
<1>6. ASSUME None(back) PROVE ~ stateless_live_mutation_requested(r)
  <2>1. 4 \in DOMAIN back /\ (stateless_live_mutation_requested(r) => back[4][1])
    OBVIOUS
  <2> HIDE DEF back
  <2> QED BY <1>6, <2>1 DEF None
<1> HIDE DEF back, returns, out
<1>7. out.do \in {"nothing", "call_tool"} /\ (out.do = "call_tool" => None(back))
  BY <1>1, <1>2, <1>3, <1>4, <1>5, FirstFacts
<1> QED BY <1>6, <1>7 DEF out, Reached

LEMMA RouteFacts ==
    ASSUME NEW s, NEW phases, NEW r, NEW out, out = Route(s, phases, r), out.do # "nothing"
    PROVE  require_mcp_auth(s, r) = "admitted" /\ Reached(s, phases, r, out)
<1> DEFINE auth == require_mcp_auth(s, r)
           limits == EnforceMcpRequestLimits(r)
           layers == << <<auth # "admitted", Answer(auth)>>, <<limits # "admitted", Answer(limits)>> >>
           returns ==
             << <<~ ValidateTransport(s, r), Answer("transport_security_rejected")>>,
                <<r.http # "POST" /\ DeclaresExactStatelessHeader(r), Answer("method_not_allowed")>>,
                <<r.http # "POST" /\ r.grant # "absent", Answer("capability_context_not_allowed")>>,
                <<r.http \notin {"GET", "DELETE", "POST"}, Answer("method_not_allowed")>> >>
           rest == CASE r.http = "GET" -> HandleMcpGet(s, phases, r)
                     [] r.http = "DELETE" -> HandleMcpDelete(phases, r)
                     [] r.http = "POST" -> IF DeclaresStatelessRequest(s, r) THEN HandleStatelessMcpPost(s, r)
                                           ELSE HandleLegacyMcpPost(phases, r)
           inner == HandleMcpRequest(s, phases, r)
<1>0. \A a : Answer(a).do = "nothing"
  BY DEF Answer
<1>1. Route(s, phases, r) = First(layers, inner)
  BY DEF Route
<1>2. inner = First(returns, rest)
  BY DEF HandleMcpRequest
<1>3. IsList(layers) /\ \A i \in DOMAIN layers : layers[i][2].do = "nothing"
  BY <1>0 DEF IsList
<1>4. IsList(returns) /\ \A i \in DOMAIN returns : returns[i][2].do = "nothing"
  BY <1>0 DEF IsList
<1>5. ASSUME None(layers) PROVE auth = "admitted"
  <2> HIDE DEF auth
  <2>1. 1 \in DOMAIN layers /\ (layers[1][1] = (auth # "admitted"))
    OBVIOUS
  <2> HIDE DEF layers
  <2> QED BY <1>5, <2>1 DEF None
<1>6. ASSUME None(returns) PROVE r.http \in {"GET", "DELETE", "POST"}
  <2>1. 4 \in DOMAIN returns /\ (returns[4][1] = (r.http \notin {"GET", "DELETE", "POST"}))
    OBVIOUS
  <2> HIDE DEF returns
  <2> QED BY <1>6, <2>1 DEF None
<1> HIDE DEF layers, inner
<1>7. None(layers) /\ out = inner
  BY <1>1, <1>3, FirstDo
<1> HIDE DEF returns, rest
<1>8. None(returns) /\ out = rest
  BY <1>2, <1>4, <1>7, FirstDo
<1>9. HandleMcpGet(s, phases, r).do = "nothing"
  <2> DEFINE found == ValidateSessionRequest(phases, r)
             back == << <<~ AcceptsMediaType(r, "sse"), Answer("unsupported_accept")>>,
                        <<found # "found", Answer(found)>>,
                        <<PhaseOf(phases, r) # "active", Answer("server_not_initialized")>>,
                        <<~ s.sse \/ r.last_event = "absent", Answer("method_not_allowed")>>,
                        <<r.last_event \in {"twice", "malformed"}, Answer("invalid_last_event_id")>> >>
  <2>1. HandleMcpGet(s, phases, r) = First(back, Answer("replayed"))
    BY DEF HandleMcpGet
  <2>2. IsList(back) /\ \A i \in DOMAIN back : back[i][2].do = "nothing"
    BY <1>0 DEF IsList
  <2> HIDE DEF back
  <2> QED BY <1>0, <2>1, <2>2, FirstFacts
<1>10. HandleMcpDelete(phases, r).do \in {"nothing", "terminate"}
  BY <1>0 DEF HandleMcpDelete, Do
<1>11. CASE r.http = "GET"
  BY <1>8, <1>9, <1>11 DEF rest
<1>12. CASE r.http = "DELETE"
  <2>1. out = HandleMcpDelete(phases, r)
    BY <1>8, <1>12 DEF rest
  <2> QED BY <1>5, <1>7, <1>10, <2>1 DEF Reached
<1>13. CASE r.http = "POST"
  <2>1. out = IF DeclaresStatelessRequest(s, r) THEN HandleStatelessMcpPost(s, r)
              ELSE HandleLegacyMcpPost(phases, r)
    BY <1>8, <1>13 DEF rest
  <2>2. Reached(s, phases, r, out)
    BY <2>1, LegacyPostFacts, StatelessPostFacts
  <2> QED BY <1>5, <1>7, <2>2
<1> QED BY <1>6, <1>8, <1>11, <1>12, <1>13

-----------------------------------------------------------------------------
(* Tool calls *)

\* An answer that is recorded as denied.
Refusal(a) == a.audit = <<"denied">> /\ a.answer \notin {"ok", "await"}

\* A list of early returns, all of them refusals.
Refusals(R) == R \in Seq(Range(R)) /\ \A i \in DOMAIN R : Refusal(R[i][2])

\* C has the elements of A and those of B, in a row.
Joined(A, B, C) ==
    /\ \A i \in DOMAIN A : i \in DOMAIN C /\ C[i] = A[i]
    /\ \A i \in DOMAIN B : i + Len(A) \in DOMAIN C /\ C[i + Len(A)] = B[i]
    /\ \A i \in DOMAIN C : (\E j \in DOMAIN A : C[i] = A[j]) \/ (\E j \in DOMAIN B : C[i] = B[j])
    /\ C \in Seq(Range(C))

LEMMA ConcatElements ==
    ASSUME NEW A, NEW B, Refusals(A), Refusals(B)
    PROVE  Joined(A, B, A \o B)
<1> DEFINE S == Range(A) \cup Range(B)
           C == A \o B
<1>1. A \in Seq(S) /\ B \in Seq(S)
  BY DEF Refusals, Range
<1> HIDE DEF S
<1>2. /\ C \in Seq(S) /\ Len(C) = Len(A) + Len(B)
      /\ \A i \in 1..Len(A) + Len(B) : C[i] = IF i <= Len(A) THEN A[i] ELSE B[i - Len(A)]
  BY <1>1, ConcatProperties
<1>3. /\ Len(A) \in Nat /\ Len(B) \in Nat /\ DOMAIN A = 1..Len(A) /\ DOMAIN B = 1..Len(B)
      /\ DOMAIN C = 1..Len(C)
  BY <1>1, <1>2
<1> HIDE DEF C
<1>4. \A i \in DOMAIN A : i \in DOMAIN C /\ C[i] = A[i]
  BY <1>2, <1>3
<1>5. \A i \in DOMAIN B : i + Len(A) \in DOMAIN C /\ C[i + Len(A)] = B[i]
  <2> TAKE i \in DOMAIN B
  <2>1. i \in 1..Len(B) /\ i + Len(A) \in 1..Len(A) + Len(B) /\ ~ (i + Len(A) <= Len(A))
        /\ i + Len(A) - Len(A) = i
    BY <1>3
  <2>2. C[i + Len(A)] = B[i + Len(A) - Len(A)]
    BY <1>2, <2>1
  <2> QED BY <1>2, <1>3, <2>1, <2>2
<1>6. \A i \in DOMAIN C : (\E j \in DOMAIN A : C[i] = A[j]) \/ (\E j \in DOMAIN B : C[i] = B[j])
  <2> TAKE i \in DOMAIN C
  <2>1. CASE i <= Len(A)
    BY <1>2, <1>3, <2>1
  <2>2. CASE ~ (i <= Len(A))
    <3>1. i - Len(A) \in DOMAIN B
      BY <1>2, <1>3, <2>2
    <3>2. C[i] = B[i - Len(A)]
      BY <1>2, <1>3, <2>2
    <3> QED BY <3>1, <3>2
  <2> QED BY <2>1, <2>2
<1>7. C \in Seq(Range(C))
  BY <1>2, <1>3 DEF Range
<1> QED BY <1>4, <1>5, <1>6, <1>7 DEF C, Joined

LEMMA ConcatRefusals ==
    ASSUME NEW A, NEW B, Refusals(A), Refusals(B)
    PROVE  Refusals(A \o B) /\ (None(A \o B) <=> None(A) /\ None(B))
<1> DEFINE C == A \o B
<1>1. /\ \A i \in DOMAIN A : i \in DOMAIN C /\ C[i] = A[i]
      /\ \A i \in DOMAIN B : i + Len(A) \in DOMAIN C /\ C[i + Len(A)] = B[i]
      /\ \A i \in DOMAIN C : (\E j \in DOMAIN A : C[i] = A[j]) \/ (\E j \in DOMAIN B : C[i] = B[j])
      /\ C \in Seq(Range(C))
  BY ConcatElements DEF Joined
<1> HIDE DEF C
<1>2. \A i \in DOMAIN C : Refusal(C[i][2])
  BY <1>1 DEF Refusals
<1>3. None(C) <=> None(A) /\ None(B)
  BY <1>1 DEF None
<1> QED BY <1>1, <1>2, <1>3 DEF Refusals, C

\* A handler that goes on has passed all of them.
LEMMA RefusalsPassed ==
    ASSUME NEW R, Refusals(R), First(R, Await).answer = "await"
    PROVE  None(R)
<1>1. IsList(R)
  BY DEF Refusals, IsList
<1> QED BY <1>1, FirstFacts DEF Refusals, Refusal

LEMMA RefusedOrElse ==
    ASSUME NEW R, Refusals(R), NEW a
    PROVE  First(R, a) = a \/ Refusal(First(R, a))
<1>1. IsList(R)
  BY DEF Refusals, IsList
<1> QED BY <1>1, FirstFacts DEF Refusals

LEMMA ShortRefusals ==
    ASSUME NEW x, NEW y, Refusal(x[2])
    PROVE  Refusals(<<x>>) /\ (Refusal(y[2]) => Refusals(<<x, y>>))
BY DEF Refusals, Range

\* The parts of which the handlers of the mutations are made.
LEMMA HandlerParts ==
    ASSUME NEW s, NEW r, NEW ctx, NEW f
    PROVE  /\ Refusals(ArgumentsRefused(r)) /\ Refusals(BadArguments(r)) /\ Refusals(StatelessLive(r, ctx))
           /\ Refusals(GrantWithPreview(r)) /\ Refusals(Unauthorised(s, r, f)) /\ Refusals(WorkersBusy(r))
           /\ Refusals(EnvelopeTooLarge(r))
<1>1. Refusals(ArgumentsRefused(r))
  <2> DEFINE x == <<r.args \in {"absent", "unfit"}, Denied("invalid_params")>>
  <2>1. Refusal(x[2])
    BY DEF Denied, Refusal
  <2>2. ArgumentsRefused(r) = <<x>>
    BY DEF ArgumentsRefused
  <2> HIDE DEF x
  <2> QED BY <2>1, <2>2, ShortRefusals
<1>2. Refusals(BadArguments(r))
  <2> DEFINE x == <<r.args # "ok" /\ r.grant # "absent", Denied("capability_context_not_allowed")>>
             y == <<r.args # "ok", Denied("invalid_params")>>
  <2>1. Refusal(x[2]) /\ Refusal(y[2])
    BY DEF Denied, Refusal
  <2>2. BadArguments(r) = <<x, y>>
    BY DEF BadArguments
  <2> HIDE DEF x, y
  <2> QED BY <2>1, <2>2, ShortRefusals
<1>3. Refusals(StatelessLive(r, ctx))
  <2> DEFINE x == <<Live(r) /\ ctx = "stateless", Denied("invalid_params")>>
  <2>1. Refusal(x[2])
    BY DEF Denied, Refusal
  <2>2. StatelessLive(r, ctx) = <<x>>
    BY DEF StatelessLive
  <2> HIDE DEF x
  <2> QED BY <2>1, <2>2, ShortRefusals
<1>4. Refusals(GrantWithPreview(r))
  <2> DEFINE x == <<r.grant # "absent" /\ ~ Live(r), Denied("capability_context_not_allowed")>>
  <2>1. Refusal(x[2])
    BY DEF Denied, Refusal
  <2>2. GrantWithPreview(r) = <<x>>
    BY DEF GrantWithPreview
  <2> HIDE DEF x
  <2> QED BY <2>1, <2>2, ShortRefusals
<1>5. Refusals(Unauthorised(s, r, f))
  <2> DEFINE x == <<Live(r) /\ ~ HasAuthority(s.authority[f]), Denied("capability_denied")>>
             y == <<Live(r) /\ r.grant = "absent", Denied("capability_denied")>>
  <2>1. Refusal(x[2]) /\ Refusal(y[2])
    BY DEF Denied, Refusal
  <2>2. Unauthorised(s, r, f) = <<x, y>>
    BY DEF Unauthorised
  <2> HIDE DEF x, y
  <2> QED BY <2>1, <2>2, ShortRefusals
<1>6. Refusals(WorkersBusy(r))
  <2> DEFINE x == <<Live(r) /\ r.slot = "workers_taken", Denied("worker_capacity")>>
  <2>1. Refusal(x[2])
    BY DEF Denied, Refusal
  <2>2. WorkersBusy(r) = <<x>>
    BY DEF WorkersBusy
  <2> HIDE DEF x
  <2> QED BY <2>1, <2>2, ShortRefusals
<1>7. Refusals(EnvelopeTooLarge(r))
  <2> DEFINE x == <<r.id = "long", Denied("payload_too_large")>>
  <2>1. Refusal(x[2])
    BY DEF Denied, Refusal
  <2>2. EnvelopeTooLarge(r) = <<x>>
    BY DEF EnvelopeTooLarge
  <2> HIDE DEF x
  <2> QED BY <2>1, <2>2, ShortRefusals
<1> QED BY <1>1, <1>2, <1>3, <1>4, <1>5, <1>6, <1>7

LEMMA PassedAuthority ==
    ASSUME NEW s, NEW r, NEW f, Live(r), None(Unauthorised(s, r, f))
    PROVE  HasAuthority(s.authority[f])
<1> DEFINE R == Unauthorised(s, r, f)
           b == Live(r) /\ ~ HasAuthority(s.authority[f])
           c == Live(r) /\ r.grant = "absent"
<1>1. b \in BOOLEAN
  OBVIOUS
<1>2. R = << <<b, Denied("capability_denied")>>, <<c, Denied("capability_denied")>> >>
  BY DEF Unauthorised
<1> HIDE DEF R, b, c
<1>3. 1 \in DOMAIN R /\ R[1][1] = b
  BY <1>2
<1>4. ~ b
  BY <1>3 DEF None, R
<1> QED BY <1>4 DEF b

LEMMA PassedEnvelope ==
    ASSUME NEW r, None(EnvelopeTooLarge(r))
    PROVE  r.id # "long"
<1> DEFINE R == EnvelopeTooLarge(r)
           b == r.id = "long"
<1>1. R = << <<b, Denied("payload_too_large")>> >>
  BY DEF EnvelopeTooLarge
<1> HIDE DEF R, b
<1>2. 1 \in DOMAIN R /\ R[1][1] = b
  BY <1>1
<1>3. ~ b
  BY <1>2 DEF None, R
<1> QED BY <1>3 DEF b

\* A live call that is handed to its worker has passed the check for an
\* authority, or the gate of the volume control, and its answer fits unless it
\* is a refusal of the path.
LEMMA CallFacts ==
    ASSUME NEW s, NEW r, NEW ctx, r.tool \in MutationTools, Live(r),
           HandleToolCall(s, r, ctx).answer = "await"
    PROVE  /\ IF r.tool = "set_android_volume" THEN "android_volume" \in s.gates
              ELSE HasAuthority(s.authority[r.tool])
           /\ r.id = "long" => \/ r.tool = "set_android_volume"
                               \/ r.tool = "create_directory" /\ r.target = "outside"
<1> DEFINE t == r.tool
           returns ==
             << <<r.params = "absent", Unrecorded("invalid_params")>>,
                <<r.params = "unfit", Unrecorded("invalid_params")>>,
                <<r.grant # "absent" /\ r.tool \notin MutationTools, Unrecorded("capability_context_not_allowed")>> >>
           handled == IF t = "create_directory" THEN CreateDirectory(s, r, ctx)
                      ELSE IF t = "copy_file" THEN CopyFile(s, r, ctx)
                      ELSE IF t = "trash_file" THEN TrashFile(s, r, ctx)
                      ELSE IF t = "write_file" THEN WriteFile(s, r, ctx)
                      ELSE SetAndroidVolume(s, r, ctx)
<1>1. HandleToolCall(s, r, ctx) = First(returns, handled)
  <2>1. HandleToolCall(s, r, ctx) = First(returns, MatchTool(s, r, ctx))
    BY DEF HandleToolCall
  <2>2. MatchTool(s, r, ctx) = handled
    <3>1. t \in Tools
      BY DEF MutationTools, Tools, BaseTools, OptionalTools
    <3> QED BY <3>1 DEF MutationTools, MatchTool
  <2> QED BY <2>1, <2>2
<1>2. IsList(returns) /\ \A i \in DOMAIN returns : returns[i][2].answer # "await"
  BY DEF IsList, Unrecorded
<1>3. handled.answer = "await"
  <2> HIDE DEF returns, handled
  <2> QED BY <1>1, <1>2, FirstFacts
<1>4. CASE t = "create_directory"
  <2> DEFINE A == ArgumentsRefused(r)
             B == StatelessLive(r, ctx)
             C == Unauthorised(s, r, "create_directory")
             b == r.target # "outside" /\ r.id = "long"
             x == <<b, Denied("payload_too_large")>>
             D == <<x>>
             E == WorkersBusy(r)
  <2>1. First(A \o B \o C \o D \o E, Await).answer = "await"
    BY <1>3, <1>4 DEF CreateDirectory
  <2>2. Refusals(A) /\ Refusals(B) /\ Refusals(C) /\ Refusals(D) /\ Refusals(E)
    <3>1. Refusal(x[2])
      BY DEF Denied, Refusal
    <3> HIDE DEF x
    <3> QED BY <3>1, HandlerParts, ShortRefusals
  <2>6. 1 \in DOMAIN D /\ D[1][1] = b
    <3> HIDE DEF b
    <3> QED OBVIOUS
  <2> HIDE DEF A, B, C, D, E
  <2>3. Refusals(A \o B) /\ Refusals(A \o B \o C) /\ Refusals(A \o B \o C \o D) /\ Refusals(A \o B \o C \o D \o E)
    BY <2>2, ConcatRefusals
  <2>4. None(A \o B \o C \o D \o E)
    BY <2>1, <2>3, RefusalsPassed
  <2>5. None(C) /\ None(D)
    BY <2>2, <2>3, <2>4, ConcatRefusals
  <2>7. r.id = "long" => r.target = "outside"
    <3> HIDE DEF b
    <3>1. ~ b
      BY <2>5, <2>6 DEF None
    <3> QED BY <3>1 DEF b
  <2> QED BY <1>4, <2>5, <2>7, PassedAuthority DEF C
<1>5. CASE t = "copy_file"
  <2> DEFINE A == BadArguments(r)
             B == StatelessLive(r, ctx)
             G == GrantWithPreview(r)
             C == Unauthorised(s, r, "copy_file")
             D == EnvelopeTooLarge(r)
             x == <<r.target = "outside", Denied("invalid_params")>>
             H == <<x>>
             E == WorkersBusy(r)
  <2>1. First(A \o B \o G \o C \o D \o H \o E, Await).answer = "await"
    BY <1>3, <1>5 DEF CopyFile
  <2>2. Refusals(A) /\ Refusals(B) /\ Refusals(G) /\ Refusals(C) /\ Refusals(D) /\ Refusals(H) /\ Refusals(E)
    <3>1. Refusal(x[2])
      BY DEF Denied, Refusal
    <3> HIDE DEF x
    <3> QED BY <3>1, HandlerParts, ShortRefusals
  <2> HIDE DEF A, B, C, D, E, G, H
  <2>3. /\ Refusals(A \o B) /\ Refusals(A \o B \o G) /\ Refusals(A \o B \o G \o C)
        /\ Refusals(A \o B \o G \o C \o D) /\ Refusals(A \o B \o G \o C \o D \o H)
        /\ Refusals(A \o B \o G \o C \o D \o H \o E)
    BY <2>2, ConcatRefusals
  <2>4. None(A \o B \o G \o C \o D \o H \o E)
    BY <2>1, <2>3, RefusalsPassed
  <2>5. None(C) /\ None(D)
    BY <2>2, <2>3, <2>4, ConcatRefusals
  <2> QED BY <1>5, <2>5, PassedAuthority, PassedEnvelope DEF C, D
<1>6. CASE t = "trash_file"
  <2> DEFINE A == BadArguments(r)
             B == StatelessLive(r, ctx)
             G == GrantWithPreview(r)
             C == Unauthorised(s, r, "trash_file")
             D == EnvelopeTooLarge(r)
             E == WorkersBusy(r)
  <2>1. First(A \o B \o G \o C \o D \o E, Await).answer = "await"
    BY <1>3, <1>6 DEF TrashFile
  <2>2. Refusals(A) /\ Refusals(B) /\ Refusals(G) /\ Refusals(C) /\ Refusals(D) /\ Refusals(E)
    BY HandlerParts
  <2> HIDE DEF A, B, C, D, E, G
  <2>3. /\ Refusals(A \o B) /\ Refusals(A \o B \o G) /\ Refusals(A \o B \o G \o C)
        /\ Refusals(A \o B \o G \o C \o D) /\ Refusals(A \o B \o G \o C \o D \o E)
    BY <2>2, ConcatRefusals
  <2>4. None(A \o B \o G \o C \o D \o E)
    BY <2>1, <2>3, RefusalsPassed
  <2>5. None(C) /\ None(D)
    BY <2>2, <2>3, <2>4, ConcatRefusals
  <2> QED BY <1>6, <2>5, PassedAuthority, PassedEnvelope DEF C, D
<1>7. CASE t = "write_file"
  <2> DEFINE A == ArgumentsRefused(r)
             B == StatelessLive(r, ctx)
             C == Unauthorised(s, r, "write_file")
             D == EnvelopeTooLarge(r)
             E == WorkersBusy(r)
  <2>1. First(A \o B \o C \o D \o E, Await).answer = "await"
    BY <1>3, <1>7 DEF WriteFile
  <2>2. Refusals(A) /\ Refusals(B) /\ Refusals(C) /\ Refusals(D) /\ Refusals(E)
    BY HandlerParts
  <2> HIDE DEF A, B, C, D, E
  <2>3. Refusals(A \o B) /\ Refusals(A \o B \o C) /\ Refusals(A \o B \o C \o D) /\ Refusals(A \o B \o C \o D \o E)
    BY <2>2, ConcatRefusals
  <2>4. None(A \o B \o C \o D \o E)
    BY <2>1, <2>3, RefusalsPassed
  <2>5. None(C) /\ None(D)
    BY <2>2, <2>3, <2>4, ConcatRefusals
  <2> QED BY <1>7, <2>5, PassedAuthority, PassedEnvelope DEF C, D
<1>8. CASE t = "set_android_volume"
  <2> DEFINE A == ArgumentsRefused(r)
             B == StatelessLive(r, ctx)
             b == ~ GateOpen(s, "android_volume")
             x == <<b, Denied("unavailable")>>
             y == <<r.target = "outside", Denied("invalid_params")>>
             C == <<x, y>>
  <2>1. First(A \o B \o C, Await).answer = "await"
    BY <1>3, <1>8 DEF SetAndroidVolume
  <2>2. Refusals(A) /\ Refusals(B) /\ Refusals(C)
    <3>1. Refusal(x[2]) /\ Refusal(y[2])
      BY DEF Denied, Refusal
    <3> HIDE DEF x, y
    <3> QED BY <3>1, HandlerParts, ShortRefusals
  <2>3. 1 \in DOMAIN C /\ C[1][1] = b
    <3> HIDE DEF b, y
    <3> QED OBVIOUS
  <2> HIDE DEF A, B, C
  <2>4. Refusals(A \o B) /\ Refusals(A \o B \o C)
    BY <2>2, ConcatRefusals
  <2>5. None(A \o B \o C)
    BY <2>1, <2>4, RefusalsPassed
  <2>6. None(C)
    BY <2>2, <2>4, <2>5, ConcatRefusals
  <2>7. GateOpen(s, "android_volume")
    <3> HIDE DEF b
    <3>1. ~ b
      BY <2>3, <2>6 DEF None
    <3> QED BY <3>1 DEF b
  <2> QED BY <1>8, <2>7 DEF GateOpen
<1> QED BY <1>4, <1>5, <1>6, <1>7, <1>8 DEF MutationTools

-----------------------------------------------------------------------------
(* Requests *)

\* A request names one of the targets.
IsRequest(r) == "target" \in DOMAIN r /\ r["target"] \in Targets

LEMMA ChangedRequest ==
    ASSUME NEW r, IsRequest(r), NEW f, NEW c, f = "target" => c \in Targets
    PROVE  IsRequest([r EXCEPT ![f] = c])
BY DEF IsRequest

LEMMA BaseRequests ==
    /\ \A r \in {SessionRequest, StatelessRequest, Terminate, LiveProbe} : IsRequest(r)
    /\ \A r \in Plain \cup Previews \cup LiveCalls : IsRequest(r)
    /\ Probes \subseteq Plain \cup Previews \cup {SessionRequest, StatelessRequest}
    /\ IsRequest(Initialize) /\ IsRequest(Initialized)
<1>1. IsRequest(SessionRequest)
  BY DEF IsRequest, SessionRequest, Targets
<1>2. IsRequest(StatelessRequest)
  BY <1>1 DEF IsRequest, StatelessRequest
<1>3. IsRequest(Terminate) /\ IsRequest(LiveProbe)
  BY <1>1 DEF IsRequest, Terminate, LiveProbe
<1>4. IsRequest(Initialize) /\ IsRequest(Initialized) /\ IsRequest(ClientResponse) /\ IsRequest(Resume)
  BY <1>1 DEF IsRequest, Initialize, Initialized, ClientResponse, Resume
<1>5. IsRequest(Discover) /\ IsRequest(StatelessList)
  BY <1>2 DEF IsRequest, Discover, StatelessList
<1>6. \A r \in Plain : IsRequest(r)
  BY <1>1, <1>4, <1>5 DEF IsRequest, Plain
<1>7. \A r \in Previews : IsRequest(r)
  BY <1>1, <1>2 DEF IsRequest, Previews
<1>8. \A r \in LiveCalls : IsRequest(r)
  BY <1>1 DEF IsRequest, LiveCalls
<1> QED BY <1>1, <1>2, <1>3, <1>4, <1>6, <1>7, <1>8 DEF Probes, Plain

LEMMA SessionRequests ==
    ASSUME NEW requests, \A r \in requests : IsRequest(r), NEW sid
    PROVE  \A r \in InSession(requests, sid) : IsRequest(r)
BY DEF IsRequest, InSession

LEMMA HeldRequests ==
    ASSUME NEW requests, \A r \in requests : IsRequest(r), NEW i
    PROVE  \A r \in Holding(requests, i) : IsRequest(r)
BY DEF IsRequest, Holding

LEMMA NearRequests ==
    ASSUME NEW r, IsRequest(r), NEW fields \in {LayerFields, CallFields}, ReceiveNear(r, fields)
    PROVE  \E q : IsRequest(q) /\ Receive(q)
<1>1. \A f \in DOMAIN fields : f = "target" => fields[f] \subseteq Targets
  <2>1. "target" \notin DOMAIN LayerFields
    BY DEF LayerFields
  <2>2. CallFields["target"] = {"other", "outside"}
    BY DEF CallFields
  <2> QED BY <2>1, <2>2 DEF Targets
<1>2. CASE Receive(r)
  BY <1>2
<1>3. ASSUME NEW f \in DOMAIN fields, NEW c \in fields[f], Receive([r EXCEPT ![f] = c])
      PROVE  \E q : IsRequest(q) /\ Receive(q)
  <2>1. IsRequest([r EXCEPT ![f] = c])
    BY <1>1, ChangedRequest
  <2> QED BY <1>3, <2>1
<1> QED BY <1>2, <1>3 DEF ReceiveNear

\* Every request the server receives is one.
LEMMA AllRequests ==
    ASSUME ReceiveAny
    PROVE  \E r : IsRequest(r) /\ Receive(r)
<1>1. PICK sid \in {s \in SessionIds : s = "s1" \/ sessions[s] # "none"} :
        \/ \E r \in InSession({Terminate}, sid) : Receive(r)
        \/ \E r \in InSession({Initialize, Initialized}, sid) : Receive(r)
        \/ \E r \in InSession(Plain \ Probes, sid) : Receive(r)
        \/ \E r \in InSession(Probes, sid) : ReceiveNear(r, LayerFields)
        \/ \E r \in InSession(Previews, sid) : ReceiveNear(r, CallFields)
        \/ \E i \in GrantIds : \E r \in Holding(InSession({LiveProbe}, sid), i) : ReceiveNear(r, LayerFields)
        \/ \E i \in GrantIds : \E r \in Holding(InSession(LiveCalls, sid), i) : ReceiveNear(r, CallFields)
  BY DEF ReceiveAny
<1>2. CASE \E r \in InSession({Terminate}, sid) : Receive(r)
  BY <1>2, BaseRequests, SessionRequests
<1>3. CASE \E r \in InSession({Initialize, Initialized}, sid) : Receive(r)
  BY <1>3, BaseRequests, SessionRequests
<1>4. CASE \E r \in InSession(Plain \ Probes, sid) : Receive(r)
  BY <1>4, BaseRequests, SessionRequests
<1>5. CASE \E r \in InSession(Probes, sid) : ReceiveNear(r, LayerFields)
  <2>1. \A r \in InSession(Probes, sid) : IsRequest(r)
    BY BaseRequests, SessionRequests
  <2> QED BY <1>5, <2>1, NearRequests
<1>6. CASE \E r \in InSession(Previews, sid) : ReceiveNear(r, CallFields)
  <2>1. \A r \in InSession(Previews, sid) : IsRequest(r)
    BY BaseRequests, SessionRequests
  <2> QED BY <1>6, <2>1, NearRequests
<1>7. CASE \E i \in GrantIds : \E r \in Holding(InSession({LiveProbe}, sid), i) : ReceiveNear(r, LayerFields)
  <2>1. \A r \in InSession({LiveProbe}, sid) : IsRequest(r)
    BY BaseRequests, SessionRequests
  <2>2. \A i : \A r \in Holding(InSession({LiveProbe}, sid), i) : IsRequest(r)
    BY <2>1, HeldRequests
  <2> QED BY <1>7, <2>2, NearRequests
<1>8. CASE \E i \in GrantIds : \E r \in Holding(InSession(LiveCalls, sid), i) : ReceiveNear(r, CallFields)
  <2>1. \A r \in InSession(LiveCalls, sid) : IsRequest(r)
    BY BaseRequests, SessionRequests
  <2>2. \A i : \A r \in Holding(InSession(LiveCalls, sid), i) : IsRequest(r)
    BY <2>1, HeldRequests
  <2> QED BY <1>8, <2>2, NearRequests
<1> QED BY <1>1, <1>2, <1>3, <1>4, <1>5, <1>6, <1>7, <1>8

-----------------------------------------------------------------------------
(* The steps *)

LEMMA OwnRange ==
    ASSUME NEW S, NEW q \in Seq(S)
    PROVE  q \in Seq(Range(q))
BY DEF Range

LEMMA AppendFacts ==
    ASSUME NEW q, q \in Seq(Range(q)), NEW e
    PROVE  /\ Len(q) \in Nat /\ Len(Append(q, e)) = Len(q) + 1
           /\ \A i \in 1..Len(q) : Append(q, e)[i] = q[i]
           /\ Append(q, e)[Len(q) + 1] = e
           /\ Append(q, e) \in Seq(Range(Append(q, e)))
<1> DEFINE S == Range(q) \cup {e}
<1>1. q \in Seq(S)
  BY DEF Range
<1>2. Append(q, e) \in Seq(S)
  BY <1>1
<1> HIDE DEF S
<1>3. Append(q, e) \in Seq(Range(Append(q, e)))
  BY <1>2, OwnRange
<1> QED BY <1>1, <1>3

\* The parts of the invariant that a step leaves alone when it changes neither
\* grants nor effects.
LEMMA EffectsKept ==
    ASSUME EffectsAuthorised, UNCHANGED <<grants, effects>>
    PROVE  EffectsAuthorised'
BY DEF EffectsAuthorised

LEMMA InitialStates ==
    ASSUME Init
    PROVE  IInv
<1>1. grants = <<>> /\ effects = <<>> /\ pending = NoCall /\ phase = "stopped"
  BY DEF Init
<1>2. sessions \in [SessionIds -> {"none", "initializing", "active", "ended"}]
  BY DEF Init
<1>3. Len(grants) = 0 /\ Len(effects) = 0 /\ grants \in Seq(Range(grants)) /\ effects \in Seq(Range(effects))
  BY <1>1 DEF Range
<1>4. ~ LivePending
  BY <1>1 DEF LivePending
<1> QED BY <1>1, <1>2, <1>3, <1>4 DEF IInv, EffectsAuthorised

\* A session of an effect is that of its grant.
LEMMA EffectSession ==
    ASSUME IInv, NEW i \in 1..Len(effects)
    PROVE  /\ effects[i].grant \in 1..Len(grants) /\ effects[i].session = grants[effects[i].grant].session
           /\ effects[i].session \in SessionIds /\ sessions[effects[i].session] # "none"
           /\ EffectRefused(effects[i])
BY DEF IInv, EffectsAuthorised, TokenSound

\* A step that changes neither grants nor effects, forgets no spent grant,
\* revives no session and leaves no call that IInv does not allow.
LEMMA QuietStep ==
    ASSUME IInv, UNCHANGED <<grants, effects>>, spent \subseteq spent',
           sessions' \in [SessionIds -> {"none", "initializing", "active", "ended"}],
           \A x \in SessionIds : /\ sessions[x] = "ended" => sessions'[x] = "ended"
                                 /\ sessions[x] # "none" => sessions'[x] # "none",
           phase' = "serving" => AuthoritySound(server'),
           LivePending' => PendingSound',
           LivePending' => (LivePending /\ pending' = pending) \/ sessions'[pending'.ctx] # "ended"
    PROVE  IInv'
<1>1. EffectsAuthorised'
  BY EffectsKept DEF IInv
<1>2. \A i \in 1..Len(grants) : TokenSound(grants[i], i)'
  BY DEF IInv, TokenSound
<1>3. ASSUME NEW i \in 1..Len(effects)
      PROVE  /\ effects[i].grant \in 1..Len(grants) /\ (sessions[effects[i].session] # "none")'
             /\ EffectRefused(effects[i])'
  <2>1. /\ effects[i].grant \in 1..Len(grants)
        /\ effects[i].session \in SessionIds /\ sessions[effects[i].session] # "none"
        /\ EffectRefused(effects[i])
    BY <1>3, EffectSession
  <2>2. CASE effects[i].grant \in spent
    BY <2>1, <2>2 DEF EffectRefused
  <2>3. CASE sessions[effects[i].session] = "ended" /\ (LivePending => pending.ctx # effects[i].session)
    BY <2>1, <2>3 DEF EffectRefused
  <2> QED BY <2>1, <2>2, <2>3 DEF EffectRefused
<1> QED BY <1>1, <1>2, <1>3 DEF IInv

LEMMA StartStep ==
    ASSUME IInv, NEW env, NEW n, Start(env, n)
    PROVE  IInv'
<1>1. phase = "stopped" /\ UNCHANGED <<sessions, spent, grants, pending, effects>>
  BY DEF Start
<1>2. ~ LivePending
  BY <1>1 DEF IInv, PendingSound
<1>3. ~ LivePending'
  BY <1>1, <1>2 DEF LivePending
<1>4. phase' = "serving" => AuthoritySound(server')
  BY ServerSound DEF Start
<1> QED BY <1>1, <1>3, <1>4, QuietStep DEF IInv

LEMMA StopStep ==
    ASSUME IInv, Stop
    PROVE  IInv'
<1>1. /\ phase' = "stopped" /\ pending' = NoCall /\ UNCHANGED <<grants, effects>>
      /\ sessions' = [x \in SessionIds |-> IF sessions[x] = "none" THEN "none" ELSE "ended"]
  BY DEF Stop
<1>2. ~ LivePending'
  BY <1>1 DEF LivePending
<1>3. EffectsAuthorised'
  BY <1>1, EffectsKept DEF IInv
<1>4. \A i \in 1..Len(grants) : TokenSound(grants[i], i)'
  BY <1>1 DEF IInv, TokenSound
<1>5. \A i \in 1..Len(effects) :
         effects[i].grant \in 1..Len(grants) /\ (sessions[effects[i].session] # "none")' /\ EffectRefused(effects[i])'
  BY <1>1, <1>2, EffectSession DEF EffectRefused
<1> QED BY <1>1, <1>2, <1>3, <1>4, <1>5 DEF IInv

LEMMA QuietEnd ==
    ASSUME IInv, UNCHANGED <<phase, server, sessions, spent, grants, effects>>, pending' \in {pending, NoCall}
    PROVE  IInv'
<1>1. LivePending' => LivePending /\ pending' = pending
  BY DEF LivePending
<1>2. LivePending' => PendingSound'
  BY <1>1 DEF IInv, PendingSound
<1> QED BY <1>1, <1>2, QuietStep DEF IInv

\* What the issuer prints is a token for what its operator meant.
LEMMA IssuedSound ==
    ASSUME NEW f \in Families, NEW env, NEW id, NEW u \in SessionIds, NEW x \in Targets,
           IssueFor(env, f, id, u, x) # NoToken
    PROVE  TokenSound(Issued(f, env, u, x, IssueFor(env, f, id, u, x)), id)
<1> DEFINE t == Target(f, x, world)
           a == ConfiguredAuthority(env, f)
           token == IssueFor(env, f, id, u, x)
           g == Issued(f, env, u, x, token)
<1>1. HasAuthority(a) /\ ~ IsError(t) /\ token = IssueAt(a, id, u, t)
  BY DEF IssueFor
<1>2. a = AuthorityOf(f, env["key_id"], env["key"], Token(env))
  BY <1>1, ConfiguredFacts
<1>3. /\ x \in {"plain", "other"} /\ Identified(f, IdentityOf(f, x, world))
      /\ t = Meant(f, x, IdentityOf(f, x, world))
  BY <1>1, TargetFacts
<1>4. /\ g.token = token /\ g.family = f /\ g.principal = Token(env) /\ g.key[1] = env["key_id"]
      /\ g.key[2] = env["key"] /\ g.key = <<g.key[1], g.key[2]>> /\ g.session = u /\ g.target = x
      /\ g.identity = IdentityOf(f, x, world)
  BY DEF Issued
<1> HIDE DEF g, token, a, t
<1>5. TokenSound(g, id)
  BY <1>1, <1>2, <1>3, <1>4 DEF TokenSound, Identified
<1> QED BY <1>5 DEF g, token

LEMMA IssueStep ==
    ASSUME IInv, NEW f \in Families, NEW env, NEW u \in SessionIds, NEW x \in Targets, NEW file, NEW d, NEW n,
           IssueGrant(f, env, u, x, file, d, n)
    PROVE  IInv'
<1> DEFINE id == Len(grants) + 1
           token == IssueFor(env, f, id, u, x)
           g == Issued(f, env, u, x, token)
<1>1. token # NoToken /\ grants' = Append(grants, g)
  <2>1. CASE f = "create_directory"
    BY <2>1 DEF IssueGrant, IssueCreateDirectoryGrant
  <2>2. CASE f = "copy_file"
    BY <2>2 DEF IssueGrant, IssueCopyFileGrant
  <2>3. CASE f = "trash_file"
    BY <2>3 DEF IssueGrant, IssueTrashFileGrant
  <2>4. CASE f = "write_file"
    BY <2>4 DEF IssueGrant, IssueWriteFileGrant
  <2>5. CASE f = "android_volume"
    BY <2>5 DEF IssueGrant, IssueAndroidVolumeGrant
  <2> QED BY <2>1, <2>2, <2>3, <2>4, <2>5 DEF Families
<1>2. UNCHANGED <<phase, server, sessions, spent, pending, effects>>
  BY DEF IssueGrant
<1>3. TokenSound(g, id)
  BY <1>1, IssuedSound
<1> HIDE DEF g, token
<1>4. /\ Len(grants) \in Nat /\ Len(grants') = Len(grants) + 1 /\ grants'[id] = g
      /\ \A i \in 1..Len(grants) : grants'[i] = grants[i]
      /\ grants' \in Seq(Range(grants'))
  BY <1>1, AppendFacts DEF IInv
<1>5. \A i \in 1..Len(grants') : TokenSound(grants'[i], i)
  <2> TAKE i \in 1..Len(grants')
  <2>1. CASE i = id
    BY <1>3, <1>4, <2>1
  <2>2. CASE i # id
    <3>1. i \in 1..Len(grants)
      BY <1>4, <2>2
    <3> QED BY <1>4, <3>1 DEF IInv
  <2> QED BY <2>1, <2>2
<1>6. \A i \in 1..Len(effects) : effects[i].grant \in 1..Len(grants)
  BY DEF IInv
<1>7. EffectsAuthorised'
  BY <1>2, <1>4, <1>6 DEF IInv, EffectsAuthorised
<1>8. \A i \in 1..Len(effects) : effects[i].grant \in 1..Len(grants')
  BY <1>4, <1>6
<1>9. LivePending' => PendingSound'
  BY <1>2 DEF IInv, LivePending, PendingSound
<1>10. \A i \in 1..Len(effects) : sessions[effects[i].session] # "none" /\ EffectRefused(effects[i])
  BY DEF IInv
<1>11. \A i \in 1..Len(effects) : (sessions[effects[i].session] # "none" /\ EffectRefused(effects[i]))'
  BY <1>2, <1>10 DEF EffectRefused, LivePending
<1> QED BY <1>2, <1>4, <1>5, <1>7, <1>8, <1>9, <1>11 DEF IInv

LEMMA IssueAnyStep ==
    ASSUME IInv, IssueAny
    PROVE  IInv'
<1>1. PICK f \in Families, u \in SessionIds :
        \/ \E e \in IssuerEnvironments : IssueGrant(f, e[1], u, "plain", "private", "replace", e[2])
        \/ IssueGrant(f, FullEnvironment, u, "other", "private", "replace", 1)
        \/ \E file \in {"private", "target", "config", "changed_while_read"}, d \in {"create", "replace"} :
              IssueGrant(f, FullEnvironment, u, "plain", file, d, 1)
  BY DEF IssueAny
<1>2. "plain" \in Targets /\ "other" \in Targets
  BY DEF Targets
<1> QED BY <1>1, <1>2, IssueStep

\* A call that a worker will run was admitted for the server's principal, with
\* an active session, and for a tool that has an authority.
LEMMA CallStep ==
    ASSUME IInv, NEW r, IsRequest(r), phase = "serving", Route(server, sessions, r).do = "call_tool",
           CallTool(r), UNCHANGED <<phase, server, sessions>>, LivePending'
    PROVE  \/ LivePending /\ pending' = pending
           \/ PendingSound' /\ sessions'[pending'.ctx] # "ended"
<1> DEFINE ctx == ToolInvocationContext(server, r)
           out == HandleToolCall(server, r, ctx)
<1>1. CASE out.answer # "await"
  BY <1>1 DEF CallTool, LivePending
<1>2. CASE out.answer = "await" /\ ~ (r.tool \in MutationTools /\ Live(r))
  <2>1. pending' = [tool |-> r.tool, live |-> FALSE, id |-> r.id, ctx |-> ctx]
    BY <1>2 DEF CallTool
  <2> QED BY <2>1 DEF LivePending
<1>3. CASE out.answer = "await" /\ r.tool \in MutationTools /\ Live(r)
  <2>1. pending' = [tool |-> r.tool, live |-> TRUE, id |-> r.id, ctx |-> ctx,
                    target |-> r.target, grant |-> r.grant,
                    principal |-> ExtractBearerToken(r), admitted |-> PhaseOf(sessions, r)]
    BY <1>3 DEF CallTool
  <2>2. /\ pending'.tool = r.tool /\ pending'.ctx = ctx /\ pending'.target = r.target
        /\ pending'.principal = ExtractBearerToken(r) /\ pending'.admitted = PhaseOf(sessions, r)
    BY <2>1
  <2>3. require_mcp_auth(server, r) = "admitted" /\ Reached(server, sessions, r, Route(server, sessions, r))
    BY RouteFacts
  <2>4. stateless_live_mutation_requested(r)
    BY <1>3 DEF stateless_live_mutation_requested, Live
  <2>5. /\ ~ DeclaresStatelessRequest(server, r) /\ ValidateSessionRequest(sessions, r) = "found"
        /\ PhaseOf(sessions, r) = "active"
    BY <2>3, <2>4 DEF Reached
  <2>6. ctx = r.session
    BY <2>5 DEF ToolInvocationContext
  <2>7. r.session \in SessionIds /\ sessions[r.session] \notin {"none", "ended"}
    BY <2>5, FoundFacts DEF IInv
  <2>8. AuthoritySound(server)
    BY DEF IInv
  <2>9. HasAuthority(server.authority[FamilyOf(r.tool)])
    <3>1. IF r.tool = "set_android_volume" THEN "android_volume" \in server.gates
          ELSE HasAuthority(server.authority[r.tool])
      BY <1>3, CallFacts
    <3> QED BY <2>8, <3>1 DEF FamilyOf, AuthoritySound
  <2>10. FamilyOf(r.tool) \in Families
    BY <1>3 DEF FamilyOf, Families, MutationTools
  <2>11. server.principal # "none"
    BY <2>8, <2>9, <2>10, AuthorityFacts DEF AuthoritySound
  <2>12. ExtractBearerToken(r) = server.principal
    BY <2>3, <2>11 DEF require_mcp_auth
  <2>13. r.target \in Targets
    BY DEF IsRequest
  <2>14. PendingSound'
    BY <1>3, <2>2, <2>5, <2>6, <2>7, <2>9, <2>12, <2>13 DEF PendingSound
  <2> QED BY <2>2, <2>6, <2>7, <2>14
<1> QED BY <1>1, <1>2, <1>3

LEMMA ReceiveStep ==
    ASSUME IInv, NEW r, IsRequest(r), Receive(r)
    PROVE  IInv'
<1> DEFINE out == Route(server, sessions, r)
           Phases == {"none", "initializing", "active", "ended"}
<1>1. phase = "serving" /\ UNCHANGED <<phase, server, spent, grants, effects>>
  BY DEF Receive
<1>2. sessions \in [SessionIds -> Phases]
  BY DEF IInv
<1>3. ASSUME UNCHANGED pending PROVE LivePending' => LivePending /\ pending' = pending
  BY <1>3 DEF LivePending
<1>4. ASSUME UNCHANGED pending, sessions' \in [SessionIds -> Phases],
             \A x \in SessionIds : /\ sessions[x] = "ended" => sessions'[x] = "ended"
                                   /\ sessions[x] # "none" => sessions'[x] # "none"
      PROVE  IInv'
  <2>1. LivePending' => PendingSound'
    BY <1>1, <1>3, <1>4 DEF IInv, PendingSound
  <2> QED BY <1>1, <1>3, <1>4, <2>1, QuietStep DEF IInv
<1>5. CASE out.do = "nothing"
  <2>1. UNCHANGED <<sessions, pending>>
    BY <1>5 DEF Receive
  <2> QED BY <1>2, <1>4, <2>1
<1>6. CASE out.do = "create_session"
  <2>1. UNCHANGED pending /\ CreateSession
    BY <1>6 DEF Receive
  <2>2. PICK x \in SessionIds : sessions[x] = "none" /\ sessions' = [sessions EXCEPT ![x] = "initializing"]
    BY <2>1 DEF CreateSession
  <2> QED BY <1>2, <1>4, <2>1, <2>2
<1>7. CASE out.do = "activate"
  <2>1. UNCHANGED pending /\ sessions' = [sessions EXCEPT ![r.session] = "active"]
    BY <1>7 DEF Receive
  <2>2. ValidateSessionRequest(sessions, r) = "found"
    BY <1>7, RouteFacts DEF Reached
  <2>3. sessions[r.session] \notin {"none", "ended"}
    BY <2>2, FoundFacts
  <2> QED BY <1>2, <1>4, <2>1, <2>3
<1>8. CASE out.do = "terminate"
  <2>1. UNCHANGED pending /\ sessions' = [sessions EXCEPT ![r.session] = "ended"]
    BY <1>8 DEF Receive
  <2> QED BY <1>2, <1>4, <2>1
<1>9. CASE out.do = "call_tool"
  <2>1. CallTool(r) /\ UNCHANGED sessions
    BY <1>9 DEF Receive
  <2>2. LivePending' => (LivePending /\ pending' = pending) \/ (PendingSound' /\ sessions'[pending'.ctx] # "ended")
    BY <1>1, <1>9, <2>1, CallStep
  <2>3. LivePending /\ pending' = pending => PendingSound'
    BY <1>1, <2>1 DEF IInv, PendingSound
  <2> QED BY <1>1, <1>2, <2>1, <2>2, <2>3, QuietStep DEF IInv
<1>10. out.do \in {"nothing", "create_session", "activate", "terminate", "call_tool"}
  BY RouteFacts DEF Reached
<1> QED BY <1>5, <1>6, <1>7, <1>8, <1>9, <1>10

\* The authority of a principal consumes the token of a sound grant in session
\* s, for an operation on a target with an identity.
Consumes(a, p, g, id, s, f, x, i) ==
    /\ f \in Families /\ a = AuthorityRecord(f, a.key_id, a.key, p) /\ TokenSound(g, id)
    /\ x \in {"plain", "other"} /\ Identified(f, i)
    /\ ~ IsError(ConsumeAt(a, g.token, s, Meant(f, x, i)))

LEMMA ConsumedToken ==
    ASSUME NEW a, NEW p, NEW g, NEW id, NEW s, NEW f, NEW x, NEW i, Consumes(a, p, g, id, s, f, x, i)
    PROVE  /\ ConsumeAt(a, g.token, s, Meant(f, x, i)) = [spend |-> id]
           /\ g.family = f /\ g.session = s /\ g.target = x /\ g.principal = p
           /\ g.key = <<a.key_id, a.key>> /\ g.identity = i
<1>0. /\ f \in Families /\ a = AuthorityRecord(f, a.key_id, a.key, p) /\ TokenSound(g, id)
      /\ x \in {"plain", "other"} /\ Identified(f, i)
      /\ ~ IsError(ConsumeAt(a, g.token, s, Meant(f, x, i)))
  BY DEF Consumes
<1> DEFINE b == AuthorityOf(g.family, g.key[1], g.key[2], g.principal)
<1>1. /\ g.family \in Families /\ g.target \in {"plain", "other"} /\ Identified(g.family, g.identity)
      /\ g.key = <<g.key[1], g.key[2]>>
      /\ HasAuthority(b) /\ g.token = IssueAt(b, id, g.session, Meant(g.family, g.target, g.identity))
  BY <1>0 DEF TokenSound, Identified
<1>2. b = AuthorityRecord(g.family, g.key[1], g.key[2], g.principal)
  BY <1>1, AuthorityFacts
<1> DEFINE c == Consumed(f, a.key_id, a.key, p, g.family, g.key[1], g.key[2], g.principal, id,
                         s, g.session, x, g.target, i, g.identity)
<1>3. ConsumeAt(a, g.token, s, Meant(f, x, i)) = c
  <2> HIDE DEF b
  <2> QED BY <1>0, <1>1, <1>2 DEF Consumed
<1>4. Accepted(f, a.key_id, a.key, p, g.family, g.key[1], g.key[2], g.principal, id,
               s, g.session, x, g.target, i, g.identity)
  BY <1>0, <1>3 DEF Accepted
<1>5. /\ f = g.family /\ a.key_id = g.key[1] /\ a.key = g.key[2] /\ p = g.principal
      /\ s = g.session /\ x = g.target /\ i = g.identity /\ c = [spend |-> id]
  BY <1>0, <1>1, <1>4, ConsumedAsIssued
<1> QED BY <1>1, <1>3, <1>5

\* A grant that a worker consumes is the one its call was meant for.
LEMMA ConsumedGrant ==
    ASSUME IInv, LivePending,
           NEW f, f = FamilyOf(pending.tool),
           NEW t, t = Target(f, pending.target, world), ~ IsError(t),
           NEW c, c = ConsumeAt(server.authority[f], TokenOf(pending.grant), pending.ctx, t), ~ IsError(c)
    PROVE  \E k \in 1..Len(grants) :
              LET g == grants[k]
              IN  /\ c = [spend |-> k] /\ g.family = f /\ g.session = pending.ctx
                  /\ g.target = pending.target /\ g.principal = pending.principal
                  /\ g.key = <<server.authority[f].key_id, server.authority[f].key>>
                  /\ g.identity = IdentityOf(f, pending.target, world)
<1>1. PendingSound /\ AuthoritySound(server)
  BY DEF IInv, PendingSound
<1>2. f \in Families
  BY <1>1 DEF PendingSound, FamilyOf, Families, MutationTools
<1> DEFINE a == server.authority[f]
           x == pending.target
           i == IdentityOf(f, x, world)
<1>3. /\ HasAuthority(a) /\ a = AuthorityOf(f, a.key_id, a.key, server.principal)
  BY <1>1, <1>2 DEF PendingSound, AuthoritySound
<1>4. a = AuthorityRecord(f, a.key_id, a.key, server.principal)
  BY <1>2, <1>3, AuthorityFacts
<1>5. x \in {"plain", "other"} /\ Identified(f, i) /\ t = Meant(f, x, i)
  BY <1>1, <1>2, TargetFacts DEF PendingSound
<1>6. PICK m \in GrantIds : TokenOf(pending.grant) = grants[m].token
  <2>1. \A e : IsError([error |-> e])
    BY DEF IsError
  <2>2. TokenOf(pending.grant) # NoToken
    BY <2>1 DEF ConsumeAt, NoToken
  <2>3. IsError(Parse(a, MalformedToken)) /\ MalformedToken.kind = "malformed"
    <3>1. a.family = f
      BY <1>4 DEF AuthorityRecord
    <3>2. \A n : ParseAndVerify(a, MalformedToken, n) = Malformed
      BY DEF ParseAndVerify, MalformedToken
    <3> QED BY <1>2, <2>1, <3>1, <3>2 DEF Families, Parse, ParseCreateDirectory, ParseAndroidVolume,
              ParseCopyFile, ParseTrashFile, ParseWriteFile, Malformed, MalformedToken
  <2>4. TokenOf(pending.grant) # MalformedToken
    BY <2>3 DEF ConsumeAt
  <2>5. \E j \in GrantIds : GrantNames[j] = pending.grant
    BY <2>2, <2>4 DEF TokenOf
  <2>6. TokenOf(pending.grant) = grants[CHOOSE j \in GrantIds : GrantNames[j] = pending.grant].token
    BY <2>5 DEF TokenOf
  <2>7. (CHOOSE j \in GrantIds : GrantNames[j] = pending.grant) \in GrantIds
    BY <2>5
  <2> QED BY <2>6, <2>7
<1> DEFINE g == grants[m]
<1>7. TokenSound(g, m)
  BY DEF IInv, GrantIds
<1>8. c = ConsumeAt(a, g.token, pending.ctx, Meant(f, x, i))
  BY <1>5, <1>6
<1>9. /\ c = [spend |-> m] /\ g.family = f /\ g.session = pending.ctx /\ g.target = x
      /\ g.principal = server.principal /\ g.key = <<a.key_id, a.key>> /\ g.identity = i
  <2>1. Consumes(a, server.principal, g, m, pending.ctx, f, x, i)
    <3> HIDE DEF a, g, x, i
    <3> QED BY <1>2, <1>4, <1>5, <1>7, <1>8 DEF Consumes
  <2> HIDE DEF a, g, x, i
  <2> QED BY <1>8, <2>1, ConsumedToken
<1> QED BY <1>1, <1>9 DEF PendingSound, GrantIds

\* A grant that is consumed and not remembered as spent has had no effect yet:
\* its session would have ended, but a call of it is being served.
LEMMA FreshGrant ==
    ASSUME IInv, LivePending, NEW k, k \notin spent, grants[k].session = pending.ctx
    PROVE  \A i \in 1..Len(effects) : effects[i].grant # k
<1> SUFFICES ASSUME NEW i \in 1..Len(effects), effects[i].grant = k
             PROVE  FALSE
  OBVIOUS
<1>1. effects[i].session = grants[k].session /\ EffectRefused(effects[i])
  BY EffectSession
<1> QED BY <1>1 DEF EffectRefused

\* A new effect that its grant matches.
LEMMA NewEffect ==
    ASSUME IInv, NEW e, NEW k \in 1..Len(grants),
           effects' = Append(effects, e), UNCHANGED <<grants, sessions>>,
           e.grant = k, k \in spent', spent \subseteq spent', ~ LivePending',
           e.family = grants[k].family, e.session = grants[k].session, e.target = grants[k].target,
           e.principal = grants[k].principal, e.key = grants[k].key, e.identity = grants[k].identity,
           e.admitted = "active", sessions[e.session] # "none",
           \A i \in 1..Len(effects) : effects[i].grant # k,
           phase' = "serving" => AuthoritySound(server')
    PROVE  IInv'
<1>1. /\ Len(effects) \in Nat /\ Len(effects') = Len(effects) + 1
      /\ \A i \in 1..Len(effects) : effects'[i] = effects[i]
      /\ effects'[Len(effects) + 1] = e /\ effects' \in Seq(Range(effects'))
  BY AppendFacts DEF IInv
<1>2. \A i \in 1..Len(effects') : (i \in 1..Len(effects) /\ effects'[i] = effects[i])
                                  \/ (i = Len(effects) + 1 /\ effects'[i] = e)
  BY <1>1
<1>3. \A i \in 1..Len(effects') :
         /\ effects'[i].grant \in 1..Len(grants) /\ sessions[effects'[i].session] # "none"
         /\ effects'[i].grant \in spent' \/ sessions[effects'[i].session] = "ended"
  BY <1>2, EffectSession DEF EffectRefused
<1>4. \A i \in 1..Len(effects') : EffectRefused(effects[i])'
  BY <1>3 DEF EffectRefused
<1>5. \A i \in 1..Len(effects') :
         LET d == effects'[i] g == grants[d.grant]
         IN  /\ d.family = g.family /\ d.session = g.session /\ d.target = g.target
             /\ d.principal = g.principal /\ d.key = g.key /\ d.identity = g.identity
             /\ d.admitted = "active"
  <2> TAKE i \in 1..Len(effects')
  <2>1. CASE i \in 1..Len(effects) /\ effects'[i] = effects[i]
    BY <2>1 DEF IInv, EffectsAuthorised
  <2>2. CASE effects'[i] = e
    BY <2>2
  <2> QED BY <1>2, <2>1, <2>2
<1>6. \A i, j \in 1..Len(effects') : effects'[j].grant = effects'[i].grant => i = j
  <2> TAKE i, j \in 1..Len(effects')
  <2>1. i \in 1..Len(effects) /\ j \in 1..Len(effects) => (effects[j].grant = effects[i].grant => i = j)
    BY DEF IInv, EffectsAuthorised
  <2> QED BY <1>2, <2>1
<1>7. EffectsAuthorised'
  BY <1>5, <1>6 DEF EffectsAuthorised
<1>8. \A i \in 1..Len(grants) : TokenSound(grants[i], i)'
  BY DEF IInv, TokenSound
<1>9. sessions' \in [SessionIds -> {"none", "initializing", "active", "ended"}] /\ grants' \in Seq(Range(grants'))
  BY DEF IInv
<1> QED BY <1>1, <1>3, <1>4, <1>7, <1>8, <1>9 DEF IInv

LEMMA MutationStep ==
    ASSUME IInv, NEW outcome, NEW waiter, RunMutation(outcome, waiter)
    PROVE  IInv'
<1> DEFINE f == FamilyOf(pending.tool)
           t == Target(f, pending.target, world)
           c == IF IsError(t) THEN t ELSE ConsumeAt(server.authority[f], TokenOf(pending.grant), pending.ctx, t)
           replayed == ~ IsError(c) /\ c.spend \in spent
           reached == ~ IsError(c) /\ ~ replayed
           effect == reached /\ outcome \in {"ok", "late_failure"}
<1>1. /\ LivePending /\ pending' = NoCall /\ UNCHANGED <<phase, server, sessions, grants>>
      /\ spent' = (IF reached THEN spent \cup {c.spend} ELSE spent)
      /\ effects' = (IF effect THEN Append(effects, Effect(c.spend)) ELSE effects)
  BY DEF RunMutation, LivePending
<1>2. ~ LivePending' /\ PendingSound
  BY <1>1 DEF IInv, LivePending
<1>3. spent \subseteq spent'
  BY <1>1
<1>4. CASE ~ effect
  <2>1. UNCHANGED effects
    BY <1>1, <1>4
  <2> HIDE DEF f, t, c, effect, reached, replayed
  <2> QED BY <1>1, <1>2, <1>3, <2>1, QuietStep DEF IInv
<1>5. CASE effect
  <2>1. ~ IsError(t) /\ ~ IsError(c)
        /\ c = ConsumeAt(server.authority[f], TokenOf(pending.grant), pending.ctx, t)
    BY <1>5
  <2>2. c.spend \notin spent /\ spent' = spent \cup {c.spend} /\ effects' = Append(effects, Effect(c.spend))
    BY <1>1, <1>5
  <2> HIDE DEF f, t, c, effect, reached, replayed
  <2>3. f = FamilyOf(pending.tool) /\ t = Target(f, pending.target, world)
    BY DEF f, t
  <2>4. PICK k \in 1..Len(grants) :
              LET g == grants[k]
              IN  /\ c = [spend |-> k] /\ g.family = f /\ g.session = pending.ctx
                  /\ g.target = pending.target /\ g.principal = pending.principal
                  /\ g.key = <<server.authority[f].key_id, server.authority[f].key>>
                  /\ g.identity = IdentityOf(f, pending.target, world)
    BY <1>1, <2>1, <2>3, ConsumedGrant
  <2>5. c.spend = k
    BY <2>4
  <2> DEFINE e == Effect(k)
  <2>6. /\ e.grant = k /\ e.family = f /\ e.session = pending.ctx /\ e.target = pending.target
        /\ e.principal = pending.principal
        /\ e.key = <<server.authority[f].key_id, server.authority[f].key>>
        /\ e.admitted = pending.admitted /\ e.identity = IdentityOf(f, pending.target, world)
    BY <2>3 DEF Effect
  <2> HIDE DEF e
  <2>7. \A i \in 1..Len(effects) : effects[i].grant # k
    BY <1>1, <2>2, <2>4, <2>5, FreshGrant
  <2>8. e.admitted = "active" /\ sessions[e.session] # "none"
    BY <1>2, <2>6 DEF PendingSound
  <2>9. effects' = Append(effects, e) /\ k \in spent'
    BY <2>2, <2>5 DEF e
  <2>10. phase' = "serving" => AuthoritySound(server')
    BY <1>1 DEF IInv
  <2> QED BY <1>1, <1>2, <1>3, <2>4, <2>6, <2>7, <2>8, <2>9, <2>10, NewEffect
<1> QED BY <1>4, <1>5

-----------------------------------------------------------------------------

\* The inductive invariant: every token is what an authority of its operator
\* signs, every live call that is awaited was admitted for the principal of the
\* server in an active session, and every used grant is spent, or bound to a
\* session that is over (IInv).
THEOREM InductiveInvariant == Spec => []IInv
<1>1. Init => IInv
  BY InitialStates
<1>2. IInv /\ [Next]_vars => IInv'
  <2> SUFFICES ASSUME IInv, [Next]_vars PROVE IInv'
    OBVIOUS
  <2>1. CASE StartAny
    BY <2>1, StartStep DEF StartAny
  <2>2. CASE Stop
    BY <2>2, StopStep
  <2>3. CASE IssueAny
    BY <2>3, IssueAnyStep
  <2>4. CASE OutsideChange
    BY <2>4, QuietEnd DEF OutsideChange
  <2>5. CASE ReceiveAny
    BY <2>5, AllRequests, ReceiveStep
  <2>6. ASSUME NEW outcome \in Outcomes, NEW fits \in BOOLEAN, Finish(outcome, fits) PROVE IInv'
    BY <2>6, QuietEnd DEF Finish
  <2>7. ASSUME NEW outcome, NEW waiter, RunMutation(outcome, waiter) PROVE IInv'
    BY <2>7, MutationStep
  <2>8. CASE DropRequest
    BY <2>8, QuietEnd DEF DropRequest
  <2>9. CASE Deliver
    BY <2>9, QuietEnd DEF Deliver
  <2>10. CASE UNCHANGED vars
    BY <2>10, QuietEnd DEF vars
  <2> QED BY <2>1, <2>2, <2>3, <2>4, <2>5, <2>6, <2>7, <2>8, <2>9, <2>10 DEF Next
<1> QED BY <1>1, <1>2, PTL DEF Spec

\* Every effect of a live call was authorised by a grant of its own, for this
\* tool, principal, key, session, target and file, through requests, restarts
\* and changes of files in any order (consume_at, handle_tool_call and the
\* layers in front of them).
THEOREM EffectSafety == Spec => []EffectsAuthorised
<1>1. IInv => EffectsAuthorised
  BY DEF IInv
<1> QED BY <1>1, InductiveInvariant, PTL

-----------------------------------------------------------------------------
(* The audit record of every call *)

\* A handler that ends in a unless it refuses.
EndsIn(o, a) == o = a \/ Refusal(o)

LEMMA GatedReads ==
    ASSUME NEW s, NEW r, NEW g
    PROVE  EndsIn(GatedRead(s, r, g), Await)
<1> DEFINE x == <<~ IsOmittedOrEmptyObject(r), Denied("invalid_params")>>
           y == <<~ GateOpen(s, g), Denied("unavailable")>>
<1>1. Refusal(x[2]) /\ Refusal(y[2])
  BY DEF Denied, Refusal
<1>2. GatedRead(s, r, g) = First(<<x, y>>, Await)
  BY DEF GatedRead
<1> HIDE DEF x, y
<1>3. Refusals(<<x, y>>)
  BY <1>1, ShortRefusals
<1> QED BY <1>2, <1>3, RefusedOrElse DEF EndsIn

LEMMA CommandProfiles ==
    ASSUME NEW s, NEW r
    PROVE  EndsIn(RunCommandProfile(s, r), Await)
<1> DEFINE A == ArgumentsRefused(r)
           policy == EvaluateCommandPolicy(s, r)
           x == <<"command-execution" \notin s.features, Denied("unavailable")>>
           y == <<policy = "profile_not_allowlisted", Denied("invalid_params")>>
           z == <<policy # "allowed", Denied("unavailable")>>
<1>1. Refusal(x[2]) /\ Refusal(y[2]) /\ Refusal(z[2])
  BY DEF Denied, Refusal
<1>2. RunCommandProfile(s, r) = First(A \o <<x, y, z>>, Await)
  BY DEF RunCommandProfile
<1>3. Refusals(A)
  BY HandlerParts
<1> HIDE DEF A, x, y, z
<1>4. Refusals(<<x, y, z>>)
  BY <1>1 DEF Refusals, Range
<1>5. Refusals(A \o <<x, y, z>>)
  BY <1>3, <1>4, ConcatRefusals
<1> QED BY <1>2, <1>5, RefusedOrElse DEF EndsIn

LEMMA ServiceStatus ==
    ASSUME NEW r
    PROVE  EndsIn(ProjectServiceStatus(r), Allowed)
<1> DEFINE A == ArgumentsRefused(r)
           x == <<r.target = "other", Denied("invalid_params")>>
<1>1. Refusal(x[2])
  BY DEF Denied, Refusal
<1>2. ProjectServiceStatus(r) = First(A \o <<x>>, Allowed)
  BY DEF ProjectServiceStatus
<1>3. Refusals(A)
  BY HandlerParts
<1> HIDE DEF A, x
<1>4. Refusals(<<x>>)
  BY <1>1, ShortRefusals
<1>5. Refusals(A \o <<x>>)
  BY <1>3, <1>4, ConcatRefusals
<1> QED BY <1>2, <1>5, RefusedOrElse DEF EndsIn

LEMMA FileReads ==
    ASSUME NEW r
    PROVE  /\ EndsIn(ListDirectory(r), Await) /\ EndsIn(PathMetadata(r), Await)
           /\ EndsIn(ReadBinaryFile(r), Await) /\ EndsIn(ReadBinaryRange(r), Await)
           /\ EndsIn(ReadTextRange(r), Await) /\ EndsIn(ReadFile(r), Await)
           /\ EndsIn(FindPaths(r), Await) /\ EndsIn(HashFile(r), Await) /\ EndsIn(SearchText(r), Await)
<1> DEFINE A == ArgumentsRefused(r)
           E == EnvelopeTooLarge(r)
           x == <<r.args = "out_of_range", Denied("invalid_params")>>
           O == OutOfRange(r)
<1>1. Refusal(x[2]) /\ O = <<x>>
  BY DEF Denied, Refusal, OutOfRange
<1>2. Refusals(A) /\ Refusals(E)
  BY HandlerParts
<1>3. /\ ListDirectory(r) = First(A \o O, Await) /\ PathMetadata(r) = First(A, Await)
      /\ ReadBinaryFile(r) = First(E \o A, Await) /\ ReadBinaryRange(r) = First(E \o A, Await)
      /\ ReadTextRange(r) = First(E \o A, Await) /\ ReadFile(r) = First(A, Await)
      /\ FindPaths(r) = First(E \o A \o O, Await) /\ HashFile(r) = First(E \o A, Await)
      /\ SearchText(r) = First(A \o O, Await)
  BY DEF ListDirectory, PathMetadata, ReadBinaryFile, ReadBinaryRange, ReadTextRange, ReadFile,
         FindPaths, HashFile, SearchText
<1> HIDE DEF A, E, O, x
<1>4. Refusals(O)
  BY <1>1, ShortRefusals
<1>5. Refusals(E \o A) /\ Refusals(A \o O) /\ Refusals(E \o A \o O)
  BY <1>2, <1>4, ConcatRefusals
<1>6. \A R : Refusals(R) => EndsIn(First(R, Await), Await)
  BY RefusedOrElse DEF EndsIn
<1> QED BY <1>2, <1>3, <1>5, <1>6

LEMMA Mutations ==
    ASSUME NEW s, NEW r, NEW ctx
    PROVE  /\ EndsIn(CreateDirectory(s, r, ctx), Await) /\ EndsIn(CopyFile(s, r, ctx), Await)
           /\ EndsIn(TrashFile(s, r, ctx), Await) /\ EndsIn(WriteFile(s, r, ctx), Await)
           /\ EndsIn(SetAndroidVolume(s, r, ctx), Await)
<1>0. \A R : Refusals(R) => EndsIn(First(R, Await), Await)
  BY RefusedOrElse DEF EndsIn
<1> DEFINE A == ArgumentsRefused(r)
           B == BadArguments(r)
           S == StatelessLive(r, ctx)
           G == GrantWithPreview(r)
           U(f) == Unauthorised(s, r, f)
           E == EnvelopeTooLarge(r)
           W == WorkersBusy(r)
           x == <<r.target # "outside" /\ r.id = "long", Denied("payload_too_large")>>
           y == <<r.target = "outside", Denied("invalid_params")>>
           z == <<~ GateOpen(s, "android_volume"), Denied("unavailable")>>
<1>1. /\ Refusals(A) /\ Refusals(B) /\ Refusals(S) /\ Refusals(G) /\ Refusals(E) /\ Refusals(W)
      /\ \A f : Refusals(U(f))
  BY HandlerParts
<1>2. Refusal(x[2]) /\ Refusal(y[2]) /\ Refusal(z[2])
  BY DEF Denied, Refusal
<1>3. CreateDirectory(s, r, ctx) = First(A \o S \o U("create_directory") \o <<x>> \o W, Await)
  BY DEF CreateDirectory
<1>4. CopyFile(s, r, ctx) = First(B \o S \o G \o U("copy_file") \o E \o <<y>> \o W, Await)
  BY DEF CopyFile
<1>5. TrashFile(s, r, ctx) = First(B \o S \o G \o U("trash_file") \o E \o W, Await)
  BY DEF TrashFile
<1>6. WriteFile(s, r, ctx) = First(A \o S \o U("write_file") \o E \o W, Await)
  BY DEF WriteFile
<1>7. SetAndroidVolume(s, r, ctx) = First(A \o S \o <<z, y>>, Await)
  BY DEF SetAndroidVolume
<1> HIDE DEF A, B, S, G, U, E, W, x, y, z
<1>8. Refusals(<<x>>) /\ Refusals(<<y>>) /\ Refusals(<<z, y>>)
  BY <1>2, ShortRefusals
<1>9. Refusals(A \o S) /\ Refusals(B \o S) /\ Refusals(B \o S \o G)
  BY <1>1, ConcatRefusals
<1>10. EndsIn(CreateDirectory(s, r, ctx), Await)
  <2>1. Refusals(A \o S \o U("create_directory")) /\ Refusals(A \o S \o U("create_directory") \o <<x>>)
    BY <1>1, <1>8, <1>9, ConcatRefusals
  <2>2. Refusals(A \o S \o U("create_directory") \o <<x>> \o W)
    BY <1>1, <2>1, ConcatRefusals
  <2> QED BY <1>0, <1>3, <2>2
<1>11. EndsIn(CopyFile(s, r, ctx), Await)
  <2>1. Refusals(B \o S \o G \o U("copy_file")) /\ Refusals(B \o S \o G \o U("copy_file") \o E)
    BY <1>1, <1>9, ConcatRefusals
  <2>2. Refusals(B \o S \o G \o U("copy_file") \o E \o <<y>>)
    BY <1>8, <2>1, ConcatRefusals
  <2>3. Refusals(B \o S \o G \o U("copy_file") \o E \o <<y>> \o W)
    BY <1>1, <2>2, ConcatRefusals
  <2> QED BY <1>0, <1>4, <2>3
<1>12. EndsIn(TrashFile(s, r, ctx), Await)
  <2>1. Refusals(B \o S \o G \o U("trash_file")) /\ Refusals(B \o S \o G \o U("trash_file") \o E)
    BY <1>1, <1>9, ConcatRefusals
  <2>2. Refusals(B \o S \o G \o U("trash_file") \o E \o W)
    BY <1>1, <2>1, ConcatRefusals
  <2> QED BY <1>0, <1>5, <2>2
<1>13. EndsIn(WriteFile(s, r, ctx), Await)
  <2>1. Refusals(A \o S \o U("write_file")) /\ Refusals(A \o S \o U("write_file") \o E)
    BY <1>1, <1>9, ConcatRefusals
  <2>2. Refusals(A \o S \o U("write_file") \o E \o W)
    BY <1>1, <2>1, ConcatRefusals
  <2> QED BY <1>0, <1>6, <2>2
<1>14. EndsIn(SetAndroidVolume(s, r, ctx), Await)
  <2>1. Refusals(A \o S \o <<z, y>>)
    BY <1>8, <1>9, ConcatRefusals
  <2> QED BY <1>0, <1>7, <2>1
<1> QED BY <1>10, <1>11, <1>12, <1>13, <1>14

\* A tool call is refused before there is a handler, and not recorded; or it
\* is refused by its handler, or answered at once, or awaited.
LEMMA HandledFacts ==
    ASSUME NEW s, NEW r, NEW ctx, NEW out, out = HandleToolCall(s, r, ctx)
    PROVE  \/ out.audit = <<>> /\ out.answer # "await"
           \/ Refusal(out)
           \/ out = Allowed /\ r.tool \in AnsweredAtOnce
           \/ out = Await /\ r.tool \in Tools \ AnsweredAtOnce
<1> DEFINE t == r.tool
           returns ==
             << <<r.params = "absent", Unrecorded("invalid_params")>>,
                <<r.params = "unfit", Unrecorded("invalid_params")>>,
                <<r.grant # "absent" /\ r.tool \notin MutationTools, Unrecorded("capability_context_not_allowed")>> >>
           rest == MatchTool(s, r, ctx)
<1>1. out = First(returns, rest)
  BY DEF HandleToolCall
<1>2. IsList(returns) /\ \A i \in DOMAIN returns : returns[i][2].audit = <<>> /\ returns[i][2].answer # "await"
  BY DEF IsList, Unrecorded
<1>3. out = rest \/ (out.audit = <<>> /\ out.answer # "await")
  <2> HIDE DEF returns, rest
  <2> QED BY <1>1, <1>2, FirstFacts
<1>4. CASE t \in AnsweredAtOnce
  <2>1. EndsIn(RuntimeStatus(r), Allowed) /\ EndsIn(NoArgumentTool(r), Allowed)
    BY DEF RuntimeStatus, NoArgumentTool, EndsIn, Refusal, Denied
  <2>2. EndsIn(ProjectServiceStatus(r), Allowed)
    BY ServiceStatus
  <2>3. rest \in {RuntimeStatus(r), NoArgumentTool(r), ProjectServiceStatus(r)}
    <3>1. t \in Tools
      BY <1>4 DEF AnsweredAtOnce, Tools, BaseTools, OptionalTools
    <3> QED BY <1>4, <3>1 DEF AnsweredAtOnce, MatchTool
  <2> HIDE DEF rest
  <2> QED BY <1>3, <1>4, <2>1, <2>2, <2>3 DEF EndsIn
<1>5. CASE t \in MutationTools
  <2>1. rest \in {CreateDirectory(s, r, ctx), CopyFile(s, r, ctx), TrashFile(s, r, ctx), WriteFile(s, r, ctx),
                  SetAndroidVolume(s, r, ctx)}
    <3>1. t \in Tools
      BY <1>5 DEF MutationTools, Tools, BaseTools, OptionalTools
    <3> QED BY <1>5, <3>1 DEF MutationTools, MatchTool
  <2>2. t \in Tools \ AnsweredAtOnce
    BY <1>5 DEF MutationTools, Tools, BaseTools, OptionalTools, AnsweredAtOnce
  <2> HIDE DEF rest
  <2>3. EndsIn(rest, Await)
    BY <2>1, Mutations
  <2> QED BY <1>3, <2>2, <2>3 DEF EndsIn
<1>6. CASE t \in {"android_battery_status", "android_volume_status", "android_rish_status", "run_command_profile"}
  <2>1. rest \in {AndroidBatteryStatus(s, r), AndroidVolumeStatus(s, r), AndroidRishStatus(s, r), RunCommandProfile(s, r)}
    <3>1. t \in Tools
      BY <1>6 DEF Tools, BaseTools, OptionalTools
    <3> QED BY <1>6, <3>1 DEF MatchTool
  <2>2. t \in Tools \ AnsweredAtOnce
    BY <1>6 DEF Tools, BaseTools, OptionalTools, AnsweredAtOnce
  <2> HIDE DEF rest
  <2>3. EndsIn(rest, Await)
    BY <2>1, GatedReads, CommandProfiles DEF AndroidBatteryStatus, AndroidVolumeStatus, AndroidRishStatus
  <2> QED BY <1>3, <2>2, <2>3 DEF EndsIn
<1>7. CASE t \in {"list_directory", "path_metadata", "read_binary_file", "read_binary_range", "read_text_range",
                  "read_file", "find_paths", "hash_file", "search_text"}
  <2>1. rest \in {ListDirectory(r), PathMetadata(r), ReadBinaryFile(r), ReadBinaryRange(r), ReadTextRange(r),
                  ReadFile(r), FindPaths(r), HashFile(r), SearchText(r)}
    <3>1. t \in Tools
      BY <1>7 DEF Tools, BaseTools, OptionalTools
    <3> QED BY <1>7, <3>1 DEF MatchTool
  <2>2. t \in Tools \ AnsweredAtOnce
    BY <1>7 DEF Tools, BaseTools, OptionalTools, AnsweredAtOnce
  <2> HIDE DEF rest
  <2>3. EndsIn(rest, Await)
    BY <2>1, FileReads
  <2> QED BY <1>3, <2>2, <2>3 DEF EndsIn
<1>8. CASE t \notin Tools
  <2>1. rest = Unrecorded("method_not_available")
    BY <1>8 DEF Tools, BaseTools, OptionalTools, MatchTool
  <2> HIDE DEF rest
  <2> QED BY <1>3, <2>1 DEF Unrecorded
<1>9. t \in Tools => \/ t \in AnsweredAtOnce \/ t \in MutationTools
                     \/ t \in {"android_battery_status", "android_volume_status", "android_rish_status", "run_command_profile"}
                     \/ t \in {"list_directory", "path_metadata", "read_binary_file", "read_binary_range",
                               "read_text_range", "read_file", "find_paths", "hash_file", "search_text"}
  BY DEF Tools, BaseTools, OptionalTools, AnsweredAtOnce, MutationTools
<1> HIDE DEF rest, returns
<1> QED BY <1>4, <1>5, <1>6, <1>7, <1>8, <1>9

\* No error of a mutation is answered as a success.
LEMMA ErrorAnswers ==
    ASSUME NEW tool \in MutationTools, NEW e
    PROVE  Refusal(Denied(MutationError(tool, e)))
<1>1. CopyFileError(e) \notin {"ok", "await"}
  BY Zenon DEF CopyFileError
<1>2. TrashFileError(e) \notin {"ok", "await"}
  BY Zenon DEF TrashFileError
<1>3. WriteFileError(e) \notin {"ok", "await"}
  BY Zenon DEF WriteFileError
<1>4. CreateDirectoryError(e) \notin {"ok", "await"}
  BY DEF CreateDirectoryError
<1>5. MutationError(tool, e) \notin {"ok", "await"}
  BY <1>1, <1>2, <1>3, <1>4 DEF MutationError, MutationTools
<1> QED BY <1>5 DEF Refusal, Denied

\* The part of a handler after its await ends in a success or in a refusal.
LEMMA DoneFacts ==
    ASSUME NEW p, p.tool \in Tools \ AnsweredAtOnce, NEW outcome
    PROVE  EndsIn(Done(p, outcome), Allowed)
<1>0. \A a : a \notin {"ok", "await"} => Refusal(Denied(a))
  BY DEF Refusal, Denied
<1>1. ASSUME NEW invalid, NEW too_large, NEW changed
      PROVE  EndsIn(ReadDone(outcome, invalid, too_large, changed), Allowed)
  <2> DEFINE R == << <<outcome = "ok", Allowed>>,
                     <<outcome \in {"oversized"} \cup too_large, Denied("payload_too_large")>>,
                     <<outcome \in invalid, Denied("invalid_params")>>,
                     <<outcome \in changed, Denied("resource_changed")>> >>
  <2>1. ReadDone(outcome, invalid, too_large, changed) = First(R, Denied("internal_error"))
    BY DEF ReadDone
  <2>2. IsList(R) /\ \A i \in DOMAIN R : EndsIn(R[i][2], Allowed)
    BY <1>0 DEF IsList, EndsIn
  <2>3. EndsIn(Denied("internal_error"), Allowed)
    BY <1>0 DEF EndsIn
  <2> HIDE DEF R
  <2> QED BY <2>1, <2>2, <2>3, FirstFacts
<1>2. EndsIn(GatedReadDone(outcome), Allowed) /\ EndsIn(RunCommandProfileDone(outcome), Allowed)
  BY <1>0 DEF GatedReadDone, RunCommandProfileDone, EndsIn
<1>3. ASSUME p.tool \in MutationTools
      PROVE  EndsIn(PreviewDone(p.tool, p, outcome), Allowed)
  <2> DEFINE R == << <<outcome # "ok", Denied(MutationError(p.tool, outcome))>>,
                     <<p.id = "long" /\ p.tool # "set_android_volume", Denied("payload_too_large")>> >>
  <2>1. PreviewDone(p.tool, p, outcome) = First(R, Allowed)
    BY DEF PreviewDone
  <2>2. Refusal(Denied(MutationError(p.tool, outcome))) /\ Refusal(Denied("payload_too_large"))
    BY <1>0, <1>3, ErrorAnswers
  <2>3. IsList(R) /\ \A i \in DOMAIN R : Refusal(R[i][2])
    BY <2>2 DEF IsList
  <2> HIDE DEF R
  <2> QED BY <2>1, <2>3, FirstFacts DEF EndsIn
<1>4. /\ EndsIn(ListDirectoryDone(outcome), Allowed) /\ EndsIn(PathMetadataDone(outcome), Allowed)
      /\ EndsIn(ReadBinaryFileDone(outcome), Allowed) /\ EndsIn(ReadBinaryRangeDone(outcome), Allowed)
      /\ EndsIn(ReadTextRangeDone(outcome), Allowed) /\ EndsIn(ReadFileDone(outcome), Allowed)
      /\ EndsIn(FindPathsDone(outcome), Allowed) /\ EndsIn(HashFileDone(outcome), Allowed)
      /\ EndsIn(SearchTextDone(outcome), Allowed)
  BY <1>1 DEF ListDirectoryDone, PathMetadataDone, ReadBinaryFileDone, ReadBinaryRangeDone, ReadTextRangeDone,
              ReadFileDone, FindPathsDone, HashFileDone, SearchTextDone
<1>5. CASE p.tool \in MutationTools
  <2>1. Done(p, outcome) = PreviewDone(p.tool, p, outcome)
    BY <1>5 DEF Done, MutationTools
  <2> QED BY <1>3, <1>5, <2>1
<1>6. CASE p.tool \notin MutationTools
  BY <1>2, <1>4, <1>6 DEF Done, Tools, BaseTools, OptionalTools, AnsweredAtOnce, MutationTools
<1> QED BY <1>5, <1>6

\* What cannot be prepared is refused.
LEMMA TargetErrors ==
    ASSUME NEW f \in Families, f # "android_volume", NEW x, NEW w, IsError(Target(f, x, w))
    PROVE  Target(f, x, w).error # "ok"
<1>1. TargetInvalid.error # "ok"
  BY DEF TargetInvalid
<1>2. CASE f = "create_directory"
  BY <1>1, <1>2 DEF Target, PrepareCreateDirectory, CreateDirectoryTarget, IsError
<1>3. CASE f = "copy_file"
  BY <1>1, <1>3 DEF Target, PrepareCopyFile, CopyFileTarget, IsError
<1>4. CASE f = "trash_file"
  BY <1>1, <1>4 DEF Target, PrepareTrashFile, TrashFileTarget, IsError
<1>5. CASE f = "write_file"
  BY <1>1, <1>5 DEF Target, PrepareWriteFile, WriteFileTarget, IsError
<1> QED BY <1>2, <1>3, <1>4, <1>5 DEF Families

LEMMA OutsideRefused ==
    ASSUME NEW w
    PROVE  IsError(Target("create_directory", "outside", w))
BY DEF Target, PrepareCreateDirectory, PathError, IsError

\* A step that leaves the call that is awaited, or ends it, and whose answer is
\* truthful.
LEMMA AuditKept ==
    ASSUME AuditInv, pending' \in {pending, NoCall}, AuditTruthful',
           pending' # NoCall \/ last' # Nothing => phase' = "serving",
           \A x \in SessionIds : sessions[x] # "none" => sessions'[x] # "none"
    PROVE  AuditInv'
BY DEF AuditInv, PendingAnswerable

\* There is nothing wrong with no answer.
LEMMA NothingTruthful ==
    ASSUME last' = Nothing
    PROVE  AuditTruthful'
<1>1. last'.kind = "none" /\ last'.live = FALSE /\ last'.effect = FALSE
  BY DEF Nothing
<1> QED BY <1>1 DEF AuditTruthful

\* The answer of a handler on its way to the caller: the record stays, and an
\* answer is replaced only when its session has ended meanwhile.
LEMMA AnsweredFacts ==
    ASSUME AuditInv, pending # NoCall, NEW done, NEW fits, NEW a, a = Answered(done, fits),
           sessions \in [SessionIds -> {"none", "initializing", "active", "ended"}]
    PROVE  /\ a.audit = done.audit
           /\ \/ a.answer = done.answer
              \/ /\ a.answer = "session_not_found" /\ server.sse
                 /\ pending.ctx \in SessionIds /\ sessions[pending.ctx] = "ended"
<1>1. PendingAnswerable
  BY DEF AuditInv
<1>2. /\ pending.ctx # "stateless" => pending.ctx \in SessionIds
      /\ pending.ctx \in SessionIds => sessions[pending.ctx] # "none"
  BY <1>1 DEF PendingAnswerable
<1> DEFINE m == MaybeSseResponse(server, sessions, pending.ctx, done.answer, fits)
<1>3. \/ m = done.answer
      \/ /\ m = "session_not_found" /\ server.sse
         /\ pending.ctx \in SessionIds /\ sessions[pending.ctx] = "ended"
  BY <1>2 DEF MaybeSseResponse
<1> HIDE DEF m
<1>4. a = [answer |-> m, audit |-> done.audit]
  BY DEF Answered, m
<1> QED BY <1>3, <1>4

LEMMA AuditCallStep ==
    ASSUME AuditInv, IInv, NEW r, Route(server, sessions, r).do = "call_tool", CallTool(r),
           phase = "serving", last = Nothing, UNCHANGED <<phase, server, sessions>>
    PROVE  AuditInv'
<1> DEFINE ctx == ToolInvocationContext(server, r)
           out == HandleToolCall(server, r, ctx)
           live == r.tool \in MutationTools /\ Live(r)
<1>1. \/ out.audit = <<>> /\ out.answer # "await"
      \/ Refusal(out)
      \/ out = Allowed /\ r.tool \in AnsweredAtOnce
      \/ out = Await /\ r.tool \in Tools \ AnsweredAtOnce
  BY HandledFacts
<1>0. ctx \in SessionIds \cup {"stateless"} /\ (ctx \in SessionIds => sessions[ctx] # "none")
  <2>1. Reached(server, sessions, r, Route(server, sessions, r))
    BY RouteFacts
  <2>2. CASE DeclaresStatelessRequest(server, r)
    BY <2>2 DEF ToolInvocationContext, SessionIds
  <2>3. CASE ~ DeclaresStatelessRequest(server, r)
    <3>1. r.session \in DOMAIN sessions /\ sessions[r.session] \notin {"none", "ended"}
      BY <2>1, <2>3, FoundFacts DEF Reached
    <3> QED BY <2>3, <3>1 DEF ToolInvocationContext, IInv
  <2> QED BY <2>2, <2>3
<1>2. CASE out.answer = "await"
  <2>1. r.tool \in Tools \ AnsweredAtOnce
    BY <1>1, <1>2 DEF Refusal, Allowed
  <2>2. UNCHANGED last /\ AuditTruthful'
    BY <1>2, NothingTruthful DEF CallTool
  <2>3. CASE live
    <3>1. pending' = [tool |-> r.tool, live |-> TRUE, id |-> r.id, ctx |-> ctx,
                      target |-> r.target, grant |-> r.grant,
                      principal |-> ExtractBearerToken(r), admitted |-> PhaseOf(sessions, r)]
      BY <1>2, <2>3 DEF CallTool
    <3>2. /\ pending'.tool = r.tool /\ pending'.id = r.id /\ pending'.target = r.target
          /\ pending'.ctx = ctx
      BY <3>1
    <3>3. r.id = "long" => r.tool = "set_android_volume" \/ (r.tool = "create_directory" /\ r.target = "outside")
      BY <1>2, <2>3, CallFacts
    <3> HIDE DEF ctx
    <3> QED BY <1>0, <2>1, <2>2, <2>3, <3>2, <3>3 DEF AuditInv, PendingAnswerable
  <2>4. CASE ~ live
    <3>1. pending' = [tool |-> r.tool, live |-> FALSE, id |-> r.id, ctx |-> ctx]
      BY <1>2, <2>4 DEF CallTool
    <3>2. pending'.tool = r.tool /\ pending'.live = FALSE /\ pending'.ctx = ctx
      BY <3>1
    <3> HIDE DEF ctx
    <3> QED BY <1>0, <2>1, <2>2, <3>2 DEF AuditInv, PendingAnswerable
  <2> QED BY <2>3, <2>4
<1>3. CASE out.answer # "await"
  <2>1. UNCHANGED pending
    BY <1>3 DEF CallTool
  <2>2. last' = [kind |-> IF out.audit = <<>> THEN "refused" ELSE "handled", ctx |-> ctx,
                 answer |-> out.answer, audit |-> out.audit, live |-> live, effect |-> FALSE]
    BY <1>3 DEF CallTool, Ended
  <2>3. /\ last'.kind = (IF out.audit = <<>> THEN "refused" ELSE "handled") /\ last'.answer = out.answer
        /\ last'.audit = out.audit /\ last'.live = live /\ last'.effect = FALSE
    <3> HIDE DEF live, out
    <3> QED BY <2>2
  <2>4. CASE out.audit = <<>>
    <3> HIDE DEF live, out
    <3> QED BY <2>1, <2>3, <2>4, AuditKept DEF AuditTruthful
  <2>5. CASE Refusal(out)
    <3> HIDE DEF live, out
    <3> QED BY <2>1, <2>3, <2>5, AuditKept DEF AuditTruthful, Refusal
  <2>6. CASE out = Allowed /\ r.tool \in AnsweredAtOnce
    <3>1. ~ live
      BY <2>6 DEF AnsweredAtOnce, MutationTools
    <3>2. out.audit = <<"allowed">> /\ out.answer = "ok"
      BY <2>6 DEF Allowed
    <3> HIDE DEF live, out
    <3> QED BY <2>1, <2>3, <3>1, <3>2, AuditKept DEF AuditTruthful
  <2>7. out # Await
    BY <1>3 DEF Await
  <2> HIDE DEF out
  <2> QED BY <1>1, <2>4, <2>5, <2>6, <2>7
<1> QED BY <1>2, <1>3

LEMMA AuditReceiveStep ==
    ASSUME AuditInv, IInv, NEW r, Receive(r)
    PROVE  AuditInv'
<1> DEFINE out == Route(server, sessions, r)
<1>0. phase = "serving" /\ last = Nothing /\ UNCHANGED <<phase, server>>
  BY DEF Receive
<1>1. CASE out.do = "nothing"
  <2>1. UNCHANGED <<sessions, pending>> /\ last' = Ended("refused", "none", [answer |-> out.answer, audit |-> <<>>])
    BY <1>1 DEF Receive
  <2>2. /\ last'.kind = "refused" /\ last'.audit = <<>> /\ last'.live = FALSE /\ last'.effect = FALSE
    BY <2>1 DEF Ended
  <2>3. AuditTruthful'
    BY <2>2 DEF AuditTruthful
  <2> QED BY <1>0, <2>1, <2>3, AuditKept
<1>2. CASE out.do \in {"create_session", "activate", "terminate"}
  <2>1. UNCHANGED <<pending, last>>
    BY <1>2 DEF Receive
  <2>2. \E x, p : p # "none" /\ sessions' = [sessions EXCEPT ![x] = p]
    BY <1>2 DEF Receive, CreateSession
  <2>3. \A x \in SessionIds : sessions[x] # "none" => sessions'[x] # "none"
    BY <2>2 DEF IInv
  <2> QED BY <1>0, <2>1, <2>3, AuditKept, NothingTruthful
<1>3. CASE out.do = "call_tool"
  <2>1. CallTool(r) /\ UNCHANGED sessions
    BY <1>3 DEF Receive
  <2> QED BY <1>0, <1>3, <2>1, AuditCallStep
<1>4. out.do \in {"nothing", "create_session", "activate", "terminate", "call_tool"}
  BY RouteFacts DEF Reached
<1> QED BY <1>1, <1>2, <1>3, <1>4

\* A handler that ends in a success or a refusal is answered truthfully.
LEMMA AnswerTruthful ==
    ASSUME AuditInv, pending # NoCall, NEW done, NEW fits, EndsIn(done, Allowed),
           sessions \in [SessionIds -> {"none", "initializing", "active", "ended"}],
           UNCHANGED <<server, sessions>>,
           last'.kind = "handled", last'.ctx = pending.ctx,
           last'.answer = Answered(done, fits).answer, last'.audit = Answered(done, fits).audit,
           last'.live /\ done = Allowed => last'.effect
    PROVE  AuditTruthful'
<1> DEFINE a == Answered(done, fits)
<1>1. /\ a.audit = done.audit
      /\ \/ a.answer = done.answer
         \/ /\ a.answer = "session_not_found" /\ server.sse
            /\ pending.ctx \in SessionIds /\ sessions[pending.ctx] = "ended"
  BY AnsweredFacts
<1>2. last'.answer = a.answer /\ last'.audit = a.audit
  OBVIOUS
<1>3. \/ done = Allowed /\ done.audit = <<"allowed">> /\ done.answer = "ok"
      \/ done.audit = <<"denied">> /\ done.answer # "ok"
  BY DEF EndsIn, Allowed, Refusal
<1> HIDE DEF a
<1>4. CASE a.answer = done.answer
  BY <1>1, <1>2, <1>3, <1>4 DEF AuditTruthful
<1>5. CASE a.answer # done.answer
  <2>1. AnswerLost'
    BY <1>1, <1>2, <1>5 DEF AnswerLost
  <2>2. last'.answer # "ok"
    BY <1>1, <1>2, <1>5
  <2> QED BY <1>1, <1>2, <1>3, <2>1, <2>2 DEF AuditTruthful
<1> QED BY <1>4, <1>5

LEMMA AuditFinishStep ==
    ASSUME AuditInv, IInv, NEW outcome, NEW fits, Finish(outcome, fits)
    PROVE  AuditInv'
<1> DEFINE done == Done(pending, outcome)
           a == Answered(done, fits)
<1>0. pending # NoCall /\ PendingAnswerable /\ UNCHANGED <<phase, server, sessions>>
  BY DEF Finish, AuditInv
<1>1. EndsIn(done, Allowed)
  BY <1>0, DoneFacts DEF PendingAnswerable
<1>2. pending' = NoCall /\ last' = Ended("handled", pending.ctx, a)
  BY DEF Finish
<1> HIDE DEF done
<1>3. /\ last'.kind = "handled" /\ last'.ctx = pending.ctx
      /\ last'.answer = a.answer /\ last'.audit = a.audit
      /\ last'.live = FALSE /\ last'.effect = FALSE
  <2> HIDE DEF a
  <2> QED BY <1>2 DEF Ended
<1>4. AuditTruthful'
  BY <1>0, <1>1, <1>3, AnswerTruthful DEF IInv
<1> QED BY <1>0, <1>2, <1>4, AuditKept DEF PendingAnswerable

LEMMA AuditMutationStep ==
    ASSUME AuditInv, IInv, NEW outcome, NEW waiter, RunMutation(outcome, waiter)
    PROVE  AuditInv'
<1> DEFINE f == FamilyOf(pending.tool)
           t == Target(f, pending.target, world)
           c == IF IsError(t) THEN t ELSE ConsumeAt(server.authority[f], TokenOf(pending.grant), pending.ctx, t)
           replayed == ~ IsError(c) /\ c.spend \in spent
           reached == ~ IsError(c) /\ ~ replayed
           e == IF IsError(t) THEN (IF f = "android_volume" THEN "unauthorized" ELSE t.error)
                ELSE IF ~ reached THEN "unauthorized" ELSE outcome
           effect == reached /\ outcome \in {"ok", "late_failure"}
           done == LiveDone(pending.tool, pending, e)
           a == Answered(done, TRUE)
<1>1. /\ pending # NoCall /\ pending.live /\ pending' = NoCall
      /\ UNCHANGED <<phase, server, sessions>>
      /\ last' = IF waiter = "waits"
                 THEN [Ended("handled", pending.ctx, a) EXCEPT !.live = TRUE, !.effect = effect]
                 ELSE [kind |-> "dropped", ctx |-> pending.ctx, answer |-> "timeout", live |-> TRUE,
                       effect |-> effect, audit |-> IF e = "ok" THEN <<"allowed">> ELSE <<"denied">>]
  BY DEF RunMutation
<1>2. PendingAnswerable
  BY <1>1 DEF AuditInv
<1>3. pending.tool \in MutationTools /\ f \in Families
  BY <1>1, <1>2 DEF PendingAnswerable, FamilyOf, Families, MutationTools
<1>4. IsError(t) => e # "ok"
  BY <1>3, TargetErrors
<1>5. e = "ok" => effect
  BY <1>4
<1>6. pending.id = "long" /\ pending.tool # "set_android_volume" => e # "ok"
  <2>1. pending.id = "long" /\ pending.tool # "set_android_volume" => IsError(t)
    BY <1>1, <1>2, OutsideRefused DEF PendingAnswerable, FamilyOf
  <2> QED BY <1>4, <2>1
<1> HIDE DEF f, t, c, replayed, reached, e, effect
<1>7. \/ e = "ok" /\ done = Allowed
      \/ e # "ok" /\ done = Denied(MutationError(pending.tool, e))
  BY <1>6 DEF LiveDone
<1>8. EndsIn(done, Allowed) /\ (done = Allowed => e = "ok")
  <2>1. e # "ok" => Refusal(done)
    BY <1>3, <1>7, ErrorAnswers
  <2>2. ~ Refusal(Allowed)
    BY DEF Refusal, Allowed
  <2> HIDE DEF done
  <2> QED BY <1>7, <2>1, <2>2 DEF EndsIn
<1> HIDE DEF done
<1>9. CASE waiter = "waits"
  <2>1. /\ last'.kind = "handled" /\ last'.ctx = pending.ctx
        /\ last'.answer = a.answer /\ last'.audit = a.audit /\ last'.effect = effect
    <3> HIDE DEF a
    <3> QED BY <1>1, <1>9 DEF Ended
  <2>2. AuditTruthful'
    BY <1>1, <1>5, <1>8, <2>1, AnswerTruthful DEF IInv
  <2> QED BY <1>1, <1>2, <2>2, AuditKept DEF PendingAnswerable
<1>10. CASE waiter # "waits"
  <2>1. /\ last'.kind = "dropped" /\ last'.effect = effect
        /\ last'.audit = IF e = "ok" THEN <<"allowed">> ELSE <<"denied">>
    BY <1>1, <1>10
  <2>2. AuditTruthful'
    BY <1>5, <2>1 DEF AuditTruthful
  <2> QED BY <1>1, <1>2, <2>2, AuditKept DEF PendingAnswerable
<1> QED BY <1>9, <1>10

LEMMA AuditDropStep ==
    ASSUME AuditInv, DropRequest
    PROVE  AuditInv'
<1>0. PendingAnswerable /\ UNCHANGED <<phase, server, sessions>>
  BY DEF DropRequest, AuditInv
<1>1. /\ pending' = NoCall
      /\ last'.kind = "dropped" /\ last'.effect = FALSE /\ last'.audit \in {<<"denied">>, <<>>}
  BY DEF DropRequest
<1>2. AuditTruthful'
  BY <1>1 DEF AuditTruthful
<1> QED BY <1>0, <1>1, <1>2, AuditKept DEF PendingAnswerable

\* The inductive invariant of the audit records: beside AuditTruthful, every
\* call that is awaited is of a tool that awaits, came in a session that existed
\* or in none, and the answer of a live one was found to fit before its worker
\* was started (the preflight of handle_create_directory, handle_copy_file,
\* handle_trash_file and handle_write_file).  That the session existed is what
\* leaves its end during the call as the only reason for maybe_sse_response to
\* replace the answer.
THEOREM AuditInvariant == Spec => []AuditInv
<1>1. Init => AuditInv
  <2> SUFFICES ASSUME Init PROVE AuditInv
    OBVIOUS
  <2>1. /\ pending = NoCall /\ last = Nothing
        /\ last.kind = "none" /\ last.live = FALSE /\ last.effect = FALSE
    BY DEF Init, Nothing
  <2> QED BY <2>1 DEF AuditInv, AuditTruthful
<1>2. AuditInv /\ IInv /\ [Next]_vars => AuditInv'
  <2> SUFFICES ASSUME AuditInv, IInv, [Next]_vars PROVE AuditInv'
    OBVIOUS
  <2>0. ASSUME UNCHANGED <<phase, sessions, pending, last>>, last = Nothing PROVE AuditInv'
    BY <2>0, AuditKept, NothingTruthful DEF AuditInv, PendingAnswerable
  <2>1. CASE StartAny
    <3>1. phase = "stopped" /\ UNCHANGED <<sessions, pending, last>>
      BY <2>1 DEF StartAny, Start
    <3>2. pending = NoCall /\ last = Nothing
      BY <3>1 DEF AuditInv, PendingAnswerable
    <3> QED BY <3>1, <3>2, AuditKept, NothingTruthful
  <2>2. CASE Stop
    <3>1. /\ pending' = NoCall /\ last' = Nothing
          /\ \A x \in SessionIds : sessions[x] # "none" => sessions'[x] # "none"
      BY <2>2 DEF Stop
    <3> QED BY <3>1, AuditKept, NothingTruthful
  <2>3. CASE IssueAny
    BY <2>0, <2>3 DEF IssueAny, IssueGrant
  <2>4. CASE OutsideChange
    BY <2>0, <2>4 DEF OutsideChange
  <2>5. CASE ReceiveAny
    BY <2>5, AllRequests, AuditReceiveStep
  <2>6. ASSUME NEW outcome \in Outcomes, NEW fits \in BOOLEAN, Finish(outcome, fits) PROVE AuditInv'
    BY <2>6, AuditFinishStep
  <2>7. ASSUME NEW outcome, NEW waiter, RunMutation(outcome, waiter) PROVE AuditInv'
    BY <2>7, AuditMutationStep
  <2>8. CASE DropRequest
    BY <2>8, AuditDropStep
  <2>9. CASE Deliver
    BY <2>9, AuditKept, NothingTruthful DEF Deliver, AuditInv, PendingAnswerable
  <2>10. CASE UNCHANGED vars
    BY <2>10 DEF vars, AuditInv, PendingAnswerable, AuditTruthful, AnswerLost
  <2> QED BY <2>1, <2>2, <2>3, <2>4, <2>5, <2>6, <2>7, <2>8, <2>9, <2>10 DEF Next
<1> QED BY <1>1, <1>2, InductiveInvariant, PTL DEF Spec

\* A call that reached a handler leaves exactly one audit record.  Success is
\* answered only if it was recorded, and what was recorded as a success is
\* answered as one unless SSE is on and the session ended during the call
\* (maybe_sse_response); for a live call the record agrees with what happened,
\* and a mutation is recorded even when nobody waits for the answer (the audit
\* guards of the handlers of mcp_transport.rs).
THEOREM AuditSafety == Spec => []AuditTruthful
<1>1. AuditInv => AuditTruthful
  BY DEF AuditInv
<1> QED BY <1>1, AuditInvariant, PTL

-----------------------------------------------------------------------------
(* The catalogue *)

\* A server serves with gates that are compiled in, and without a principal
\* only on the loopback interface.
LEMMA ServingFacts ==
    ASSUME NEW env, Main(env) = "serving"
    PROVE  ServerConsistent(ServerOf(env))
<1> DEFINE s == ServerOf(env)
<1>1. /\ s.principal = Token(env) /\ s.loopback = ListenerIsLoopback(env)
      /\ s.gates = {g \in Gates \ {"android_volume"} : Enabled(env, g)}
                   \cup {g \in {"android_volume"} : HasAuthority(ConfiguredAuthority(env, g))}
      /\ s.features = CompiledIn(env["build"])
  BY DEF ServerOf
<1>2. /\ Load(env) /\ validate_runtime_auth_posture(env) # "invalid"
      /\ BoundariesSound(env) /\ ClientsSound(env)
  BY DEF Main
<1> HIDE DEF s
<1>3. ASSUME "android_volume" \in s.gates
      PROVE  GateFeature["android_volume"] \in s.features
  <2>1. HasAuthority(ConfiguredAuthority(env, "android_volume"))
    BY <1>1, <1>3
  <2>2. Enabled(env, "android_volume")
    BY <2>1 DEF ConfiguredAuthority, ConfiguredAndroidVolumeAuthority, HasAuthority, NoAuthority
  <2> QED BY <1>1, <1>2, <2>2 DEF Load, validate_android_capabilities
<1>4. \A g \in {"battery", "volume_status", "command"} : g \in s.gates => GateFeature[g] \in s.features
  BY <1>1, <1>2 DEF ClientsSound
<1>5. "rish" \in s.gates => GateFeature["rish"] \in s.features
  <2>1. "rish" \in s.gates => Enabled(env, "rish")
    BY <1>1
  <2>2. GateFeature["rish"] = "android-rish"
    BY DEF GateFeature
  <2> QED BY <1>1, <1>2, <2>1, <2>2 DEF Load, validate_android_rish_configuration
<1>6. s.principal = "none" => s.loopback
  BY <1>1, <1>2 DEF validate_runtime_auth_posture, BoundariesSound
<1> QED BY <1>3, <1>4, <1>5, <1>6 DEF ServerConsistent, OptionalGates, s

LEMMA OneReturn ==
    ASSUME NEW b, NEW a
    PROVE  None(<< <<b, a>> >>) <=> ~ b
BY DEF None

LEMMA TwoReturns ==
    ASSUME NEW b, NEW a, NEW c, NEW d
    PROVE  None(<< <<b, a>>, <<c, d>> >>) <=> ~ b /\ ~ c
BY DEF None

\* A request that none of the checks of its arguments refuses.
Fine(r) ==
    r.args = "ok" /\ r.params = "object" /\ r.id = "short" /\ r.target = "plain" /\ r.slot = "free"

LEMMA PartsPassed ==
    ASSUME NEW s, NEW r, Fine(r), NEW ctx, NEW f
    PROVE  /\ None(ArgumentsRefused(r)) /\ None(BadArguments(r)) /\ None(EnvelopeTooLarge(r))
           /\ None(OutOfRange(r)) /\ None(WorkersBusy(r))
           /\ ctx # "stateless" => None(StatelessLive(r, ctx))
           /\ r.grant = "absent" \/ Live(r) => None(GrantWithPreview(r))
           /\ None(Unauthorised(s, r, f)) <=> (Live(r) => HasAuthority(s.authority[f]) /\ r.grant # "absent")
<1>1. None(ArgumentsRefused(r))
  <2> DEFINE b == r.args \in {"absent", "unfit"}
  <2>1. ArgumentsRefused(r) = << <<b, Denied("invalid_params")>> >>
    BY DEF ArgumentsRefused
  <2>2. ~ b
    BY DEF Fine
  <2> HIDE DEF b
  <2> QED BY <2>1, <2>2, OneReturn
<1>2. None(BadArguments(r))
  <2> DEFINE b == r.args # "ok" /\ r.grant # "absent"
             c == r.args # "ok"
  <2>1. BadArguments(r) = << <<b, Denied("capability_context_not_allowed")>>, <<c, Denied("invalid_params")>> >>
    BY DEF BadArguments
  <2>2. ~ b /\ ~ c
    BY DEF Fine
  <2> HIDE DEF b, c
  <2> QED BY <2>1, <2>2, TwoReturns
<1>3. None(EnvelopeTooLarge(r))
  <2> DEFINE b == r.id = "long"
  <2>1. EnvelopeTooLarge(r) = << <<b, Denied("payload_too_large")>> >>
    BY DEF EnvelopeTooLarge
  <2>2. ~ b
    BY DEF Fine
  <2> HIDE DEF b
  <2> QED BY <2>1, <2>2, OneReturn
<1>4. None(OutOfRange(r))
  <2> DEFINE b == r.args = "out_of_range"
  <2>1. OutOfRange(r) = << <<b, Denied("invalid_params")>> >>
    BY DEF OutOfRange
  <2>2. ~ b
    BY DEF Fine
  <2> HIDE DEF b
  <2> QED BY <2>1, <2>2, OneReturn
<1>5. None(WorkersBusy(r))
  <2> DEFINE b == Live(r) /\ r.slot = "workers_taken"
  <2>1. WorkersBusy(r) = << <<b, Denied("worker_capacity")>> >>
    BY DEF WorkersBusy
  <2>2. ~ b
    BY DEF Fine
  <2> HIDE DEF b
  <2> QED BY <2>1, <2>2, OneReturn
<1>6. ASSUME ctx # "stateless" PROVE None(StatelessLive(r, ctx))
  <2> DEFINE b == Live(r) /\ ctx = "stateless"
  <2>1. StatelessLive(r, ctx) = << <<b, Denied("invalid_params")>> >>
    BY DEF StatelessLive
  <2>2. ~ b
    BY <1>6
  <2> HIDE DEF b
  <2> QED BY <2>1, <2>2, OneReturn
<1>7. ASSUME r.grant = "absent" \/ Live(r) PROVE None(GrantWithPreview(r))
  <2> DEFINE b == r.grant # "absent" /\ ~ Live(r)
  <2>1. GrantWithPreview(r) = << <<b, Denied("capability_context_not_allowed")>> >>
    BY DEF GrantWithPreview
  <2>2. ~ b
    BY <1>7
  <2> HIDE DEF b
  <2> QED BY <2>1, <2>2, OneReturn
<1>8. None(Unauthorised(s, r, f)) <=> (Live(r) => HasAuthority(s.authority[f]) /\ r.grant # "absent")
  <2> DEFINE b == Live(r) /\ ~ HasAuthority(s.authority[f])
             c == Live(r) /\ r.grant = "absent"
  <2>1. Unauthorised(s, r, f) = << <<b, Denied("capability_denied")>>, <<c, Denied("capability_denied")>> >>
    BY DEF Unauthorised
  <2>2. ~ b /\ ~ c <=> (Live(r) => HasAuthority(s.authority[f]) /\ r.grant # "absent")
    OBVIOUS
  <2> HIDE DEF b, c
  <2>3. None(Unauthorised(s, r, f)) <=> ~ b /\ ~ c
    BY <2>1, TwoReturns
  <2> QED BY <2>2, <2>3
<1> QED BY <1>1, <1>2, <1>3, <1>4, <1>5, <1>6, <1>7, <1>8

\* A list of refusals lets pass what none of them applies to.
LEMMA Passes ==
    ASSUME NEW R, Refusals(R)
    PROVE  /\ None(R) => First(R, Await) = Await
           /\ ~ None(R) => First(R, Await).answer # "await"
<1>1. None(R) => First(R, Await) = Await
  BY DEF None, First
<1> QED BY <1>1, RefusalsPassed

\* A list of which one part decides.
Decides(R, U) == Refusals(R) /\ (None(R) <=> None(U))

LEMMA DecidedBy ==
    ASSUME NEW R, NEW U, Refusals(R)
    PROVE  /\ None(R) => (Refusals(U) => Decides(R \o U, U))
           /\ \A V : Decides(R, V) /\ Refusals(U) /\ None(U) => Decides(R \o U, V)
BY ConcatRefusals DEF Decides

\* The grant that a live call needs, and the authority to check it.
Ready(s, r, f) == Live(r) => HasAuthority(s.authority[f]) /\ r.grant # "absent"

\* A fine request for a mutation of a file goes to the worker when it is a
\* preview, or when it has a grant and the server an authority, and only then.
LEMMA FineMutations ==
    ASSUME NEW s, NEW r, Fine(r), NEW ctx, ctx # "stateless", r.grant = "absent" \/ Live(r)
    PROVE  /\ CreateDirectory(s, r, ctx).answer = "await" <=> Ready(s, r, "create_directory")
           /\ CopyFile(s, r, ctx).answer = "await" <=> Ready(s, r, "copy_file")
           /\ TrashFile(s, r, ctx).answer = "await" <=> Ready(s, r, "trash_file")
           /\ WriteFile(s, r, ctx).answer = "await" <=> Ready(s, r, "write_file")
           /\ Ready(s, r, "create_directory") => CreateDirectory(s, r, ctx) = Await
           /\ Ready(s, r, "copy_file") => CopyFile(s, r, ctx) = Await
           /\ Ready(s, r, "trash_file") => TrashFile(s, r, ctx) = Await
           /\ Ready(s, r, "write_file") => WriteFile(s, r, ctx) = Await
<1> DEFINE A == ArgumentsRefused(r)
           B == BadArguments(r)
           S == StatelessLive(r, ctx)
           G == GrantWithPreview(r)
           U(f) == Unauthorised(s, r, f)
           E == EnvelopeTooLarge(r)
           W == WorkersBusy(r)
           b == r.target # "outside" /\ r.id = "long"
           c == r.target = "outside"
           D == << <<b, Denied("payload_too_large")>> >>
           H == << <<c, Denied("invalid_params")>> >>
<1>1. /\ Refusals(A) /\ Refusals(B) /\ Refusals(S) /\ Refusals(G) /\ Refusals(E) /\ Refusals(W)
      /\ \A f : Refusals(U(f))
  BY HandlerParts
<1>2. Refusals(D) /\ Refusals(H)
  <2> DEFINE x == <<b, Denied("payload_too_large")>>
             y == <<c, Denied("invalid_params")>>
  <2>1. Refusal(x[2]) /\ Refusal(y[2])
    BY DEF Denied, Refusal
  <2>2. D = <<x>> /\ H = <<y>>
    OBVIOUS
  <2> HIDE DEF x, y, D, H
  <2> QED BY <2>1, <2>2, ShortRefusals
<1>3. /\ None(A) /\ None(B) /\ None(S) /\ None(G) /\ None(E) /\ None(W)
      /\ \A f : None(U(f)) <=> Ready(s, r, f)
  BY PartsPassed DEF Ready
<1>4. None(D) /\ None(H)
  <2>1. ~ b /\ ~ c
    BY DEF Fine
  <2> HIDE DEF b, c
  <2> QED BY <2>1, OneReturn
<1>5. CreateDirectory(s, r, ctx) = First(A \o S \o U("create_directory") \o D \o W, Await)
  BY DEF CreateDirectory
<1>6. CopyFile(s, r, ctx) = First(B \o S \o G \o U("copy_file") \o E \o H \o W, Await)
  BY DEF CopyFile
<1>7. TrashFile(s, r, ctx) = First(B \o S \o G \o U("trash_file") \o E \o W, Await)
  BY DEF TrashFile
<1>8. WriteFile(s, r, ctx) = First(A \o S \o U("write_file") \o E \o W, Await)
  BY DEF WriteFile
<1> HIDE DEF A, B, S, G, U, E, W, D, H
<1>9. /\ Refusals(A \o S) /\ None(A \o S) /\ Refusals(B \o S) /\ None(B \o S)
  BY <1>1, <1>3, ConcatRefusals
<1>10. Refusals(B \o S \o G) /\ None(B \o S \o G)
  BY <1>1, <1>3, <1>9, ConcatRefusals
<1>11. /\ CreateDirectory(s, r, ctx).answer = "await" <=> Ready(s, r, "create_directory")
       /\ Ready(s, r, "create_directory") => CreateDirectory(s, r, ctx) = Await
  <2>1. Decides(A \o S \o U("create_directory"), U("create_directory"))
    BY <1>1, <1>9, <1>10, DecidedBy
  <2>2. Decides(A \o S \o U("create_directory") \o D, U("create_directory"))
    BY <1>1, <1>2, <1>3, <1>4, <2>1, DecidedBy DEF Decides
  <2>3. Decides(A \o S \o U("create_directory") \o D \o W, U("create_directory"))
    BY <1>1, <1>2, <1>3, <1>4, <2>2, DecidedBy DEF Decides
  <2> QED BY <1>3, <1>5, <2>3, Passes DEF Decides, Await
<1>12. /\ CopyFile(s, r, ctx).answer = "await" <=> Ready(s, r, "copy_file")
       /\ Ready(s, r, "copy_file") => CopyFile(s, r, ctx) = Await
  <2>1. Decides(B \o S \o G \o U("copy_file"), U("copy_file"))
    BY <1>1, <1>9, <1>10, DecidedBy
  <2>2. Decides(B \o S \o G \o U("copy_file") \o E, U("copy_file"))
    BY <1>1, <1>2, <1>3, <1>4, <2>1, DecidedBy DEF Decides
  <2>3. Decides(B \o S \o G \o U("copy_file") \o E \o H, U("copy_file"))
    BY <1>1, <1>2, <1>3, <1>4, <2>2, DecidedBy DEF Decides
  <2>4. Decides(B \o S \o G \o U("copy_file") \o E \o H \o W, U("copy_file"))
    BY <1>1, <1>2, <1>3, <1>4, <2>3, DecidedBy DEF Decides
  <2> QED BY <1>3, <1>6, <2>4, Passes DEF Decides, Await
<1>13. /\ TrashFile(s, r, ctx).answer = "await" <=> Ready(s, r, "trash_file")
       /\ Ready(s, r, "trash_file") => TrashFile(s, r, ctx) = Await
  <2>1. Decides(B \o S \o G \o U("trash_file"), U("trash_file"))
    BY <1>1, <1>9, <1>10, DecidedBy
  <2>2. Decides(B \o S \o G \o U("trash_file") \o E, U("trash_file"))
    BY <1>1, <1>2, <1>3, <1>4, <2>1, DecidedBy DEF Decides
  <2>3. Decides(B \o S \o G \o U("trash_file") \o E \o W, U("trash_file"))
    BY <1>1, <1>2, <1>3, <1>4, <2>2, DecidedBy DEF Decides
  <2> QED BY <1>3, <1>7, <2>3, Passes DEF Decides, Await
<1>14. /\ WriteFile(s, r, ctx).answer = "await" <=> Ready(s, r, "write_file")
       /\ Ready(s, r, "write_file") => WriteFile(s, r, ctx) = Await
  <2>1. Decides(A \o S \o U("write_file"), U("write_file"))
    BY <1>1, <1>9, <1>10, DecidedBy
  <2>2. Decides(A \o S \o U("write_file") \o E, U("write_file"))
    BY <1>1, <1>2, <1>3, <1>4, <2>1, DecidedBy DEF Decides
  <2>3. Decides(A \o S \o U("write_file") \o E \o W, U("write_file"))
    BY <1>1, <1>2, <1>3, <1>4, <2>2, DecidedBy DEF Decides
  <2> QED BY <1>3, <1>8, <2>3, Passes DEF Decides, Await
<1> QED BY <1>11, <1>12, <1>13, <1>14, Zenon

\* A tool behind a gate goes on when the gate is open and is unavailable when it
\* is not.
Gated(o, open) == IF open THEN o = Await ELSE o = Denied("unavailable")

LEMMA FineGatedReads ==
    ASSUME NEW s, NEW r, Fine(r), NEW g
    PROVE  Gated(GatedRead(s, r, g), GateOpen(s, g))
<1> DEFINE b == ~ IsOmittedOrEmptyObject(r)
           c == ~ GateOpen(s, g)
           R == << <<b, Denied("invalid_params")>>, <<c, Denied("unavailable")>> >>
<1>1. GatedRead(s, r, g) = First(R, Await)
  BY DEF GatedRead
<1>2. ~ b
  BY DEF Fine, IsOmittedOrEmptyObject
<1>3. c <=> ~ GateOpen(s, g)
  OBVIOUS
<1> HIDE DEF b, c
<1>4. IsList(R) /\ DOMAIN R = {1, 2} /\ R[1][1] = b /\ R[2][1] = c /\ R[2][2] = Denied("unavailable")
  BY DEF IsList
<1> HIDE DEF R
<1>5. IF c THEN First(R, Await) = Denied("unavailable") ELSE First(R, Await) = Await
  BY <1>2, <1>4, FirstFacts DEF None
<1> QED BY <1>1, <1>3, <1>5 DEF Gated

\* What is refused after the checks of the arguments is unavailable.
LEMMA GatedBy ==
    ASSUME NEW Q, Refusals(Q), None(Q), NEW Z, Refusals(Z),
           \A i \in DOMAIN Z : Z[i][1] => Z[i][2] = Denied("unavailable")
    PROVE  Gated(First(Q \o Z, Await), None(Z))
<1> DEFINE R == Q \o Z
<1>1. Joined(Q, Z, R)
  BY ConcatElements
<1>2. Refusals(R) /\ (None(R) <=> None(Z))
  BY ConcatRefusals
<1>3. IsList(R)
  BY <1>2 DEF Refusals, IsList
<1> HIDE DEF R
<1>4. ASSUME NEW i \in DOMAIN R, R[i][1]
      PROVE  R[i][2] = Denied("unavailable")
  <2>1. (\E j \in DOMAIN Q : R[i] = Q[j]) \/ (\E j \in DOMAIN Z : R[i] = Z[j])
    BY <1>1 DEF Joined
  <2>2. ASSUME NEW j \in DOMAIN Q, R[i] = Q[j] PROVE FALSE
    BY <1>4, <2>2, Zenon DEF None
  <2>3. ASSUME NEW j \in DOMAIN Z, R[i] = Z[j] PROVE R[i][2] = Denied("unavailable")
    BY <1>4, <2>3, Zenon
  <2> QED BY <2>1, <2>2, <2>3
<1>5. None(R) => First(R, Await) = Await
  BY <1>2, Passes
<1>6. ~ None(R) => First(R, Await) = Denied("unavailable")
  BY <1>2, <1>3, <1>4, FirstFacts
<1> QED BY <1>2, <1>5, <1>6 DEF Gated, R

LEMMA FineVolume ==
    ASSUME NEW s, NEW r, Fine(r), NEW ctx, ctx # "stateless"
    PROVE  Gated(SetAndroidVolume(s, r, ctx), GateOpen(s, "android_volume"))
<1> DEFINE A == ArgumentsRefused(r)
           S == StatelessLive(r, ctx)
           b == ~ GateOpen(s, "android_volume")
           c == r.target = "outside"
           x == <<b, Denied("unavailable")>>
           y == <<c, Denied("invalid_params")>>
           Z == <<x, y>>
<1>1. SetAndroidVolume(s, r, ctx) = First(A \o S \o Z, Await)
  BY DEF SetAndroidVolume
<1>2. Refusals(A) /\ None(A) /\ Refusals(S) /\ None(S)
  BY HandlerParts, PartsPassed
<1>3. ~ c /\ (b <=> ~ GateOpen(s, "android_volume"))
  BY DEF Fine
<1> HIDE DEF b, c, A, S
<1>4. Refusal(x[2]) /\ Refusal(y[2])
  BY DEF Denied, Refusal
<1>5. DOMAIN Z = {1, 2} /\ Z[1] = x /\ Z[2] = y /\ x[1] = b /\ y[1] = c /\ x[2] = Denied("unavailable")
  OBVIOUS
<1>6. Refusals(Z)
  <2> HIDE DEF x, y
  <2> QED BY <1>4, ShortRefusals
<1> HIDE DEF Z, x, y
<1>7. Refusals(A \o S) /\ None(A \o S)
  BY <1>2, ConcatRefusals
<1>8. (\A i \in DOMAIN Z : Z[i][1] => Z[i][2] = Denied("unavailable")) /\ (None(Z) <=> ~ b)
  BY <1>3, <1>5 DEF None
<1>9. Gated(First(A \o S \o Z, Await), None(Z))
  BY <1>6, <1>7, <1>8, GatedBy
<1> QED BY <1>1, <1>3, <1>8, <1>9 DEF Gated

LEMMA FineCommand ==
    ASSUME NEW s, NEW r, Fine(r)
    PROVE  Gated(RunCommandProfile(s, r), GateOpen(s, "command"))
<1> DEFINE A == ArgumentsRefused(r)
           policy == EvaluateCommandPolicy(s, r)
           b == "command-execution" \notin s.features
           c == policy = "profile_not_allowlisted"
           d == policy # "allowed"
           x == <<b, Denied("unavailable")>>
           y == <<c, Denied("invalid_params")>>
           z == <<d, Denied("unavailable")>>
           Z == <<x, y, z>>
<1>1. RunCommandProfile(s, r) = First(A \o Z, Await)
  BY DEF RunCommandProfile
<1>2. Refusals(A) /\ None(A)
  BY HandlerParts, PartsPassed
<1>3. IF "command" \in s.gates THEN policy = "allowed" ELSE policy = "runtime_disabled"
  <2> DEFINE g == "command" \notin s.gates
             o == r.target = "other"
             P == << <<g, "runtime_disabled">>, <<o, "profile_not_allowlisted">> >>
  <2>1. policy = First(P, "allowed")
    BY DEF EvaluateCommandPolicy
  <2>2. ~ o /\ (g <=> "command" \notin s.gates)
    BY DEF Fine
  <2> HIDE DEF g, o
  <2>3. IsList(P) /\ DOMAIN P = {1, 2} /\ P[1][1] = g /\ P[2][1] = o /\ P[1][2] = "runtime_disabled"
    BY DEF IsList
  <2> HIDE DEF P, policy
  <2> QED BY <2>1, <2>2, <2>3, FirstFacts DEF None
<1>4. ~ c /\ (b \/ d <=> ~ GateOpen(s, "command"))
  <2>1. GateFeature["command"] = "command-execution"
    BY DEF GateFeature
  <2> HIDE DEF policy
  <2> QED BY <1>3, <2>1 DEF GateOpen
<1> HIDE DEF b, c, d, A
<1>5. Refusal(x[2]) /\ Refusal(y[2]) /\ Refusal(z[2])
  BY DEF Denied, Refusal
<1>6. /\ DOMAIN Z = {1, 2, 3} /\ Z[1] = x /\ Z[2] = y /\ Z[3] = z /\ x[1] = b /\ y[1] = c /\ z[1] = d
      /\ x[2] = Denied("unavailable") /\ z[2] = Denied("unavailable")
  OBVIOUS
<1>7. Refusals(Z)
  <2> HIDE DEF x, y, z
  <2> QED BY <1>5 DEF Refusals, Range
<1> HIDE DEF Z, x, y, z
<1>8. (\A i \in DOMAIN Z : Z[i][1] => Z[i][2] = Denied("unavailable")) /\ (None(Z) <=> ~ (b \/ d))
  BY <1>4, <1>6 DEF None
<1>9. Gated(First(A \o Z, Await), None(Z))
  BY <1>2, <1>7, <1>8, GatedBy
<1> QED BY <1>1, <1>4, <1>8, <1>9 DEF Gated

LEMMA FineReads ==
    ASSUME NEW r, Fine(r)
    PROVE  /\ RuntimeStatus(r) = Allowed /\ NoArgumentTool(r) = Allowed /\ ProjectServiceStatus(r) = Allowed
           /\ ListDirectory(r) = Await /\ PathMetadata(r) = Await /\ ReadBinaryFile(r) = Await
           /\ ReadBinaryRange(r) = Await /\ ReadTextRange(r) = Await /\ ReadFile(r) = Await
           /\ FindPaths(r) = Await /\ HashFile(r) = Await /\ SearchText(r) = Await
<1> DEFINE A == ArgumentsRefused(r)
           E == EnvelopeTooLarge(r)
           O == OutOfRange(r)
           b == r.target = "other"
           x == <<b, Denied("invalid_params")>>
           P == <<x>>
<1>1. RuntimeStatus(r) = Allowed /\ NoArgumentTool(r) = Allowed
  BY DEF Fine, RuntimeStatus, NoArgumentTool, IsOmittedOrEmptyObject
<1>2. Refusals(A) /\ Refusals(E) /\ None(A) /\ None(E) /\ None(O)
  BY HandlerParts, PartsPassed
<1>3. Refusals(O)
  <2> DEFINE y == <<r.args = "out_of_range", Denied("invalid_params")>>
  <2>1. Refusal(y[2]) /\ O = <<y>>
    BY DEF Denied, Refusal, OutOfRange
  <2> HIDE DEF y, O
  <2> QED BY <2>1, ShortRefusals
<1>4. Refusals(P) /\ None(P)
  <2>1. ~ b
    BY DEF Fine
  <2>2. Refusal(x[2])
    BY DEF Denied, Refusal
  <2> HIDE DEF b
  <2>3. None(P)
    BY <2>1, OneReturn
  <2> HIDE DEF x
  <2>4. Refusals(P)
    BY <2>2, ShortRefusals
  <2> QED BY <2>3, <2>4
<1>5. /\ ListDirectory(r) = First(A \o O, Await) /\ PathMetadata(r) = First(A, Await)
      /\ ReadBinaryFile(r) = First(E \o A, Await) /\ ReadBinaryRange(r) = First(E \o A, Await)
      /\ ReadTextRange(r) = First(E \o A, Await) /\ ReadFile(r) = First(A, Await)
      /\ FindPaths(r) = First(E \o A \o O, Await) /\ HashFile(r) = First(E \o A, Await)
      /\ SearchText(r) = First(A \o O, Await)
      /\ ProjectServiceStatus(r) = First(A \o P, Allowed)
  BY DEF ListDirectory, PathMetadata, ReadBinaryFile, ReadBinaryRange, ReadTextRange, ReadFile,
         FindPaths, HashFile, SearchText, ProjectServiceStatus
<1> HIDE DEF A, E, O, P
<1>6. Refusals(E \o A) /\ None(E \o A) /\ None(A \o O) /\ None(A \o P)
  BY <1>2, <1>3, <1>4, ConcatRefusals
<1>7. None(E \o A \o O)
  BY <1>2, <1>3, <1>6, ConcatRefusals
<1>8. \A R : None(R) => First(R, Await) = Await /\ First(R, Allowed) = Allowed
  BY DEF None, First
<1> QED BY <1>1, <1>2, <1>5, <1>6, <1>7, <1>8

\* How a fine request ends or goes on: a preview is never unavailable, unless
\* the gate of an optional tool is closed; a live mutation goes to its worker
\* when it has an authority, or the gate of the volume control is open.
LEMMA FineCalls ==
    ASSUME NEW s, NEW r, Fine(r), NEW ctx, ctx # "stateless", r.tool \in Tools,
           (r.grant = "absent" /\ ~ Live(r)) \/ (r.grant # "absent" /\ Live(r) /\ r.tool \in MutationTools)
    PROVE  LET out == HandleToolCall(s, r, ctx)
           IN  /\ r.tool \in BaseTools /\ ~ Live(r) => out \in {Allowed, Await}
               /\ r.tool = "android_battery_status" => Gated(out, GateOpen(s, "battery"))
               /\ r.tool = "android_volume_status" => Gated(out, GateOpen(s, "volume_status"))
               /\ r.tool = "android_rish_status" => Gated(out, GateOpen(s, "rish"))
               /\ r.tool = "run_command_profile" => Gated(out, GateOpen(s, "command"))
               /\ r.tool = "set_android_volume" => Gated(out, GateOpen(s, "android_volume"))
               /\ r.tool \in MutationTools \ {"set_android_volume"} /\ Live(r) =>
                     (out.answer = "await" <=> HasAuthority(s.authority[r.tool]))
<1> DEFINE b == r.params = "absent"
           c == r.params = "unfit"
           d == r.grant # "absent" /\ r.tool \notin MutationTools
           R == << <<b, Unrecorded("invalid_params")>>, <<c, Unrecorded("invalid_params")>>,
                   <<d, Unrecorded("capability_context_not_allowed")>> >>
           out == MatchTool(s, r, ctx)
<1>1. HandleToolCall(s, r, ctx) = First(R, out)
  BY DEF HandleToolCall
<1>2. ~ b /\ ~ c /\ ~ d
  BY DEF Fine
<1>3. HandleToolCall(s, r, ctx) = out
  <2> HIDE DEF b, c, d, out
  <2>1. None(R)
    BY <1>2 DEF None
  <2> HIDE DEF R
  <2> QED BY <1>1, <2>1 DEF First, None
<1>4. CASE r.tool \in AnsweredAtOnce
  <2>1. out \in {RuntimeStatus(r), NoArgumentTool(r), ProjectServiceStatus(r)}
    BY <1>4 DEF AnsweredAtOnce, MatchTool
  <2>2. out = Allowed
    BY <2>1, FineReads
  <2> QED BY <1>3, <1>4, <2>2 DEF AnsweredAtOnce, MutationTools
<1>5. CASE r.tool \in {"list_directory", "path_metadata", "read_binary_file", "read_binary_range", "read_text_range",
                       "read_file", "find_paths", "hash_file", "search_text"}
  <2>1. out \in {ListDirectory(r), PathMetadata(r), ReadBinaryFile(r), ReadBinaryRange(r), ReadTextRange(r),
                 ReadFile(r), FindPaths(r), HashFile(r), SearchText(r)}
    BY <1>5 DEF MatchTool
  <2>2. out = Await
    BY <2>1, FineReads
  <2> QED BY <1>3, <1>5, <2>2 DEF MutationTools
<1>6. CASE r.tool \in {"android_battery_status", "android_volume_status", "android_rish_status", "run_command_profile"}
  <2>1. /\ r.tool = "android_battery_status" => out = GatedRead(s, r, "battery")
        /\ r.tool = "android_volume_status" => out = GatedRead(s, r, "volume_status")
        /\ r.tool = "android_rish_status" => out = GatedRead(s, r, "rish")
        /\ r.tool = "run_command_profile" => out = RunCommandProfile(s, r)
    BY DEF MatchTool, AndroidBatteryStatus, AndroidVolumeStatus, AndroidRishStatus
  <2> HIDE DEF out
  <2> QED BY <1>3, <1>6, <2>1, FineGatedReads, FineCommand DEF BaseTools, MutationTools
<1>7. CASE r.tool = "set_android_volume"
  <2>1. out = SetAndroidVolume(s, r, ctx)
    BY <1>7 DEF MatchTool
  <2> HIDE DEF out
  <2> QED BY <1>3, <1>7, <2>1, FineVolume DEF BaseTools
<1>8. CASE r.tool \in MutationTools \ {"set_android_volume"}
  <2>1. /\ r.tool = "create_directory" => out = CreateDirectory(s, r, ctx)
        /\ r.tool = "copy_file" => out = CopyFile(s, r, ctx)
        /\ r.tool = "trash_file" => out = TrashFile(s, r, ctx)
        /\ r.tool = "write_file" => out = WriteFile(s, r, ctx)
    BY DEF MatchTool
  <2> HIDE DEF out
  <2>2. (out.answer = "await" <=> Ready(s, r, r.tool)) /\ (Ready(s, r, r.tool) => out = Await)
    <3>1. CASE r.tool = "create_directory"
      BY <2>1, <3>1, FineMutations
    <3>2. CASE r.tool = "copy_file"
      BY <2>1, <3>2, FineMutations
    <3>3. CASE r.tool = "trash_file"
      BY <2>1, <3>3, FineMutations
    <3>4. CASE r.tool = "write_file"
      BY <2>1, <3>4, FineMutations
    <3> QED BY <1>8, <3>1, <3>2, <3>3, <3>4 DEF MutationTools
  <2>3. ~ Live(r) => out = Await
    BY <2>2 DEF Ready
  <2>4. Live(r) => (out.answer = "await" <=> HasAuthority(s.authority[r.tool]))
    BY <2>2 DEF Ready
  <2> QED BY <1>3, <1>8, <2>3, <2>4 DEF MutationTools
<1>9. \/ r.tool \in AnsweredAtOnce \/ r.tool = "set_android_volume"
      \/ r.tool \in MutationTools \ {"set_android_volume"}
      \/ r.tool \in {"android_battery_status", "android_volume_status", "android_rish_status", "run_command_profile"}
      \/ r.tool \in {"list_directory", "path_metadata", "read_binary_file", "read_binary_range", "read_text_range",
                     "read_file", "find_paths", "hash_file", "search_text"}
  BY DEF Tools, BaseTools, OptionalTools, AnsweredAtOnce, MutationTools
<1> HIDE DEF out, R
<1> QED BY <1>4, <1>5, <1>6, <1>7, <1>8, <1>9

LEMMA CatalogueFacts ==
    ASSUME NEW s, ServerConsistent(s)
    PROVE  /\ tools_list_response(s) = available_tools(s)
           /\ tools_list_response(s) =
                {t \in Tools : HandleToolCall(s, [SessionRequest EXCEPT !.tool = t], "s1").answer # "unavailable"}
           /\ \A t \in MutationTools :
                (FamilyOf(t) \in LiveMutationsListed(s, FALSE)) =
                (HandleToolCall(s, [SessionRequest EXCEPT !.tool = t, !.dry_run = "false", !.grant = "g1"],
                                "s1").answer = "await")
<1>1. \A g \in OptionalGates : GateOpen(s, g) <=> g \in s.gates
  BY DEF ServerConsistent, GateOpen
<1>2. \A t \in OptionalTools : t \notin BaseTools
  BY DEF OptionalTools, BaseTools
<1>3. tools_list_response(s) = available_tools(s)
  <2>1. \A t : t \in tools_list_response(s) <=> t \in BaseTools \/ (t \in OptionalTools /\ OptionalToolListed(s, t))
    BY DEF tools_list_response
  <2>2. \A t : t \in available_tools(s) <=> t \in BaseTools \/ (t \in OptionalTools /\ OptionalToolListed(s, t))
    BY DEF available_tools, OptionalTools, OptionalToolListed
  <2> QED BY <2>1, <2>2
<1>4. ASSUME NEW t \in Tools
      PROVE  t \in tools_list_response(s)
             <=> HandleToolCall(s, [SessionRequest EXCEPT !.tool = t], "s1").answer # "unavailable"
  <2> DEFINE r == [SessionRequest EXCEPT !.tool = t]
             out == HandleToolCall(s, r, "s1")
  <2>1. Fine(r) /\ r.tool = t /\ r.grant = "absent" /\ ~ Live(r)
    BY DEF SessionRequest, Fine, Live
  <2>2. "s1" # "stateless"
    OBVIOUS
  <2> HIDE DEF r
  <2>3. /\ t \in BaseTools => out \in {Allowed, Await}
        /\ t = "android_battery_status" => Gated(out, GateOpen(s, "battery"))
        /\ t = "android_volume_status" => Gated(out, GateOpen(s, "volume_status"))
        /\ t = "android_rish_status" => Gated(out, GateOpen(s, "rish"))
        /\ t = "run_command_profile" => Gated(out, GateOpen(s, "command"))
        /\ t = "set_android_volume" => Gated(out, GateOpen(s, "android_volume"))
    BY <2>1, <2>2, FineCalls
  <2> HIDE DEF out
  <2>4. Allowed.answer = "ok" /\ Await.answer = "await" /\ Denied("unavailable").answer = "unavailable"
    BY DEF Allowed, Await, Denied
  <2>5. CASE t \in BaseTools
    <3>1. out.answer # "unavailable"
      BY <2>3, <2>4, <2>5
    <3>2. t \in tools_list_response(s)
      BY <2>5 DEF tools_list_response
    <3> QED BY <3>1, <3>2 DEF out, r
  <2>6. CASE t \in OptionalTools
    <3>1. OptionalToolListed(s, t) <=> out.answer # "unavailable"
      BY <1>1, <2>3, <2>4, <2>6 DEF OptionalToolListed, OptionalTools, OptionalGates, Gated
    <3>2. t \in tools_list_response(s) <=> OptionalToolListed(s, t)
      BY <1>2, <2>6 DEF tools_list_response
    <3> QED BY <3>1, <3>2 DEF out, r
  <2> QED BY <2>5, <2>6 DEF Tools
<1>5. tools_list_response(s) =
        {t \in Tools : HandleToolCall(s, [SessionRequest EXCEPT !.tool = t], "s1").answer # "unavailable"}
  <2>1. tools_list_response(s) \subseteq Tools
    BY DEF tools_list_response, Tools
  <2> QED BY <1>4, <2>1, Zenon
<1>6. ASSUME NEW t \in MutationTools
      PROVE  FamilyOf(t) \in LiveMutationsListed(s, FALSE)
             <=> HandleToolCall(s, [SessionRequest EXCEPT !.tool = t, !.dry_run = "false", !.grant = "g1"],
                                "s1").answer = "await"
  <2> DEFINE r == [SessionRequest EXCEPT !.tool = t, !.dry_run = "false", !.grant = "g1"]
             out == HandleToolCall(s, r, "s1")
  <2>1. Fine(r) /\ r.tool = t /\ r.grant # "absent" /\ Live(r)
    BY DEF SessionRequest, Fine, Live
  <2>2. "s1" # "stateless" /\ t \in Tools
    BY DEF MutationTools, Tools, BaseTools, OptionalTools
  <2> HIDE DEF r
  <2>3. /\ t = "set_android_volume" => Gated(out, GateOpen(s, "android_volume"))
        /\ t # "set_android_volume" => (out.answer = "await" <=> HasAuthority(s.authority[t]))
    BY <2>1, <2>2, FineCalls
  <2> HIDE DEF out
  <2>4. Await.answer = "await" /\ Denied("unavailable").answer = "unavailable"
    BY DEF Await, Denied
  <2>5. CASE t = "set_android_volume"
    <3>1. out.answer = "await" <=> "android_volume" \in s.gates
      BY <1>1, <2>3, <2>4, <2>5 DEF Gated, OptionalGates
    <3>2. FamilyOf(t) \in LiveMutationsListed(s, FALSE) <=> "android_volume" \in s.gates
      BY <2>5 DEF FamilyOf, LiveMutationsListed
    <3> QED BY <3>1, <3>2 DEF out, r
  <2>6. CASE t # "set_android_volume"
    <3>1. t \in Families \ {"android_volume"} /\ FamilyOf(t) = t
      BY <2>6 DEF MutationTools, Families, FamilyOf
    <3>2. FamilyOf(t) \in LiveMutationsListed(s, FALSE) <=> HasAuthority(s.authority[t])
      BY <3>1 DEF LiveMutationsListed
    <3> QED BY <2>3, <2>6, <3>2 DEF out, r
  <2> QED BY <2>5, <2>6
<1>7. \A t \in MutationTools :
         (FamilyOf(t) \in LiveMutationsListed(s, FALSE)) =
         (HandleToolCall(s, [SessionRequest EXCEPT !.tool = t, !.dry_run = "false", !.grant = "g1"],
                         "s1").answer = "await")
  <2> TAKE t \in MutationTools
  <2> DEFINE b == FamilyOf(t) \in LiveMutationsListed(s, FALSE)
             c == HandleToolCall(s, [SessionRequest EXCEPT !.tool = t, !.dry_run = "false", !.grant = "g1"],
                                 "s1").answer = "await"
  <2>0. b \in BOOLEAN /\ c \in BOOLEAN
    OBVIOUS
  <2>1. b <=> c
    BY <1>6
  <2> HIDE DEF b, c
  <2>2. b = c
    BY <2>0, <2>1
  <2> QED BY <2>2 DEF b, c
<1> QED BY <1>3, <1>5, <1>7

\* A process serves only with gates that its features and its configuration
\* open (AppConfig::load, McpRouterBuilder), and then the catalogue says exactly
\* what the handlers do, whatever its environment was.
THEOREM CatalogueSafety == Spec => []CatalogueConsistent
<1>1. Init => CatalogueInv
  BY DEF Init, CatalogueInv
<1>2. CatalogueInv /\ [Next]_vars => CatalogueInv'
  <2> SUFFICES ASSUME CatalogueInv, [Next]_vars PROVE CatalogueInv'
    OBVIOUS
  <2>0. UNCHANGED <<phase, server>> => CatalogueInv'
    BY DEF CatalogueInv
  <2>1. CASE StartAny
    <3>1. ASSUME NEW env, NEW n, Start(env, n) PROVE CatalogueInv'
      BY <3>1, ServingFacts DEF Start, CatalogueInv
    <3> QED BY <2>1, <3>1 DEF StartAny
  <2>2. CASE Stop
    BY <2>2 DEF Stop, CatalogueInv
  <2>3. CASE IssueAny
    BY <2>0, <2>3 DEF IssueAny, IssueGrant
  <2>4. CASE OutsideChange
    BY <2>0, <2>4 DEF OutsideChange
  <2>5. CASE ReceiveAny
    <3>1. \A r : Receive(r) => UNCHANGED <<phase, server>>
      BY DEF Receive
    <3> QED BY <2>0, <2>5, <3>1, AllRequests
  <2>6. ASSUME NEW outcome \in Outcomes, NEW fits \in BOOLEAN, Finish(outcome, fits) PROVE CatalogueInv'
    BY <2>0, <2>6 DEF Finish
  <2>7. ASSUME NEW outcome, NEW waiter, RunMutation(outcome, waiter) PROVE CatalogueInv'
    BY <2>0, <2>7 DEF RunMutation
  <2>8. CASE DropRequest
    BY <2>0, <2>8 DEF DropRequest
  <2>9. CASE Deliver
    BY <2>0, <2>9 DEF Deliver
  <2>10. CASE UNCHANGED vars
    BY <2>0, <2>10 DEF vars
  <2> QED BY <2>1, <2>2, <2>3, <2>4, <2>5, <2>6, <2>7, <2>8, <2>9, <2>10 DEF Next
<1>3. CatalogueInv => CatalogueConsistent
  <2> SUFFICES ASSUME CatalogueInv, phase = "serving" PROVE CatalogueConsistent
    BY DEF CatalogueConsistent
  <2>1. ServerConsistent(server)
    BY DEF CatalogueInv
  <2>2. server.principal = "none" => server.loopback
    BY <2>1 DEF ServerConsistent
  <2> QED BY <2>1, <2>2, CatalogueFacts, Zenon DEF CatalogueConsistent
<1> QED BY <1>1, <1>2, <1>3, PTL DEF Spec
=============================================================================
