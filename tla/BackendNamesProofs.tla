------------------------- MODULE BackendNamesProofs -------------------------
(***************************************************************************)
(* When two sandboxes have different names in the backend, for every       *)
(* alphabet and every pair of lengths: the tenants' prefixes are kept,     *)
(* since the cut leaves the first character of the sandbox's name, which   *)
(* is no dash, so nothing before it is stripped; and a name that is not    *)
(* cut ends in no dash and is kept whole.  With such names the sandbox     *)
(* service keeps tenants' pods apart.                                      *)
(***************************************************************************)
EXTENDS BackendNames, SandboxServiceProofs, SequenceTheorems

(* What sanitising leaves. *)
Safe == Plain \cup {Dash}

(* The part of the name before the sandbox's own. *)
Prefix(tenant) == <<"t", Dash>> \o Sanitize(Take(tenant, PrefixLength)) \o <<Dash>>

(* Tenant ids of at least the prefix's length, as UUIDs are. *)
TenantIds == {s \in Seq(Characters) : Len(s) >= PrefixLength}

-----------------------------------------------------------------------------
(* Where the parts of a concatenation stand.                               *)
LEMMA ConcatEnds ==
    ASSUME NEW a \in Seq(Safe), NEW b \in Seq(Safe), Len(b) >= 1
    PROVE  /\ a \o b \in Seq(Safe)
           /\ Len(a \o b) = Len(a) + Len(b)
           /\ \A i \in 1 .. Len(a) : (a \o b)[i] = a[i]
           /\ (a \o b)[Len(a) + 1] = b[1]
           /\ (a \o b)[Len(a) + Len(b)] = b[Len(b)]
<1>1. Len(a) \in Nat /\ Len(b) \in Nat
  BY LenProperties
<1> QED
  BY <1>1, ConcatProperties

(* Sanitising keeps the length and leaves letters, digits and dashes.      *)
LEMMA SanitizeType ==
    ASSUME NEW s \in Seq(Characters)
    PROVE  /\ Sanitize(s) \in Seq(Safe)
           /\ Len(Sanitize(s)) = Len(s)
<1> DEFINE e(i) == IF Lower[s[i]] \in Plain THEN Lower[s[i]] ELSE Dash
<1>1. Len(s) \in Nat
  OBVIOUS
<1>2. Sanitize(s) \in [1 .. Len(s) -> Safe]
  BY DEF Sanitize, Safe
<1> QED
  BY <1>1, <1>2

(* It leaves the names that SandboxCreate accepts as they are. *)
LEMMA SanitizeValid ==
    ASSUME NEW s \in Seq(Safe)
    PROVE  Sanitize(s) = s
<1>1. \A i \in 1 .. Len(s) : s[i] \in Safe
  OBVIOUS
<1>2. \A i \in 1 .. Len(s) :
        (IF Lower[s[i]] \in Plain THEN Lower[s[i]] ELSE Dash) = s[i]
  BY <1>1, NamesAssumption DEF Safe
<1>3. s = [i \in 1 .. Len(s) |-> s[i]]
  OBVIOUS
<1> QED
  BY <1>2, <1>3 DEF Sanitize

(* The tenant's prefix has a fixed length. *)
LEMMA PrefixType ==
    ASSUME NEW t \in TenantIds
    PROVE  /\ Prefix(t) \in Seq(Safe)
           /\ Len(Prefix(t)) = PrefixLength + 3
           /\ \A i \in 1 .. PrefixLength : Prefix(t)[i + 2] = Sanitize(t)[i]
<1> DEFINE head == Take(t, PrefixLength)
<1>0. PrefixLength \in Nat /\ t \in Seq(Characters) /\ Len(t) >= PrefixLength
  BY NamesAssumption DEF TenantIds
<1>1. /\ head \in Seq(Characters)
      /\ Len(head) = PrefixLength
      /\ \A i \in 1 .. PrefixLength : head[i] = t[i]
  <2>1. head = SubSeq(t, 1, PrefixLength)
    BY <1>0 DEF Take
  <2> QED
    BY <1>0, <2>1
<1>2. /\ Sanitize(head) \in Seq(Safe)
      /\ Len(Sanitize(head)) = PrefixLength
  BY <1>1, SanitizeType
<1>3. \A i \in 1 .. PrefixLength : Sanitize(head)[i] = Sanitize(t)[i]
  BY <1>0, <1>1 DEF Sanitize
<1>4. <<"t", Dash>> \in Seq(Safe) /\ <<Dash>> \in Seq(Safe)
  BY NamesAssumption DEF Safe
<1>5. /\ <<"t", Dash>> \o Sanitize(head) \in Seq(Safe)
      /\ Len(<<"t", Dash>> \o Sanitize(head)) = PrefixLength + 2
      /\ \A i \in 1 .. PrefixLength :
            (<<"t", Dash>> \o Sanitize(head))[i + 2] = Sanitize(head)[i]
  BY <1>0, <1>2, <1>4
<1> DEFINE h == <<"t", Dash>> \o Sanitize(head)
<1>6. Prefix(t) = h \o <<Dash>>
  BY DEF Prefix
<1>7. h \in Seq(Safe) /\ Len(h) = PrefixLength + 2
  BY <1>5
<1>8. \A i \in 1 .. PrefixLength : h[i + 2] = Sanitize(t)[i]
  BY <1>3, <1>5
<1> HIDE DEF h
<1>9. /\ h \o <<Dash>> \in Seq(Safe)
      /\ Len(h \o <<Dash>>) = PrefixLength + 3
      /\ \A i \in 1 .. PrefixLength + 2 : (h \o <<Dash>>)[i] = h[i]
  BY <1>0, <1>4, <1>7
<1>10. \A i \in 1 .. PrefixLength : (h \o <<Dash>>)[i + 2] = h[i + 2]
  BY <1>0, <1>9
<1>11. \A i \in 1 .. PrefixLength : (h \o <<Dash>>)[i + 2] = Sanitize(t)[i]
  BY <1>8, <1>10
<1> QED
  BY <1>6, <1>9, <1>11

(* The full name is the prefix and the sandbox's name. *)
LEMMA FullNameParts ==
    ASSUME NEW t \in TenantIds, NEW n \in ValidNames
    PROVE  /\ FullName(t, n) = Prefix(t) \o n
           /\ n \in Seq(Safe) /\ Len(n) >= 2 /\ n[1] # Dash /\ n[Len(n)] # Dash
           /\ FullName(t, n) \in Seq(Safe)
           /\ Len(FullName(t, n)) = PrefixLength + 3 + Len(n)
<1>1. n \in Seq(Safe) /\ Len(n) >= 2 /\ n[1] # Dash /\ n[Len(n)] # Dash
  BY NamesAssumption DEF ValidNames, Safe
<1>2. FullName(t, n) = Prefix(t) \o n
  BY <1>1, SanitizeValid DEF FullName, Prefix
<1>3. /\ Prefix(t) \in Seq(Safe)
      /\ Len(Prefix(t)) = PrefixLength + 3
  BY PrefixType
<1>4. /\ Prefix(t) \o n \in Seq(Safe)
      /\ Len(Prefix(t) \o n) = PrefixLength + 3 + Len(n)
  <2>1. /\ Prefix(t) \o n \in Seq(Safe)
        /\ Len(Prefix(t) \o n) = Len(Prefix(t)) + Len(n)
    <3>1. Len(n) >= 1
      BY <1>1
    <3> QED
      BY <1>1, <1>3, <3>1, ConcatEnds, Zenon
  <2> QED
    BY <1>3, <2>1
<1>5. /\ FullName(t, n) \in Seq(Safe)
      /\ Len(FullName(t, n)) = PrefixLength + 3 + Len(n)
  BY <1>2, <1>4, Zenon
<1> QED
  BY <1>1, <1>2, <1>5, Zenon

(* Stripping dashes keeps all that stands before a character that is none. *)
LEMMA RStripKeeps ==
    ASSUME NEW s \in Seq(Safe), NEW k \in 1 .. Len(s), s[k] # Dash
    PROVE  \A i \in 1 .. k : i \in DOMAIN RStrip(s) /\ RStrip(s)[i] = s[i]
<1> SUFFICES ASSUME NEW i \in 1 .. k
             PROVE  i \in DOMAIN RStrip(s) /\ RStrip(s)[i] = s[i]
  OBVIOUS
<1>1. i \in {j \in 1 .. Len(s) : \E l \in j .. Len(s) : s[l] # Dash}
  OBVIOUS
<1> QED
  BY <1>1 DEF RStrip

-----------------------------------------------------------------------------
(* Two tenants whose ids differ in the first characters never share a name *)
(* in the backend, however long their sandboxes' names are                 *)
(* (_make_name: "globally unique").                                        *)
THEOREM TenantsApart ==
    ASSUME NEW t \in TenantIds, NEW u \in TenantIds,
           NEW m \in ValidNames, NEW n \in ValidNames,
           BackendName(t, m) = BackendName(u, n)
    PROVE  \A i \in 1 .. PrefixLength : Sanitize(t)[i] = Sanitize(u)[i]
<1> DEFINE p == PrefixLength + 4
           cut(v, w) == Take(FullName(v, w), MaxLength)
<1>0. PrefixLength \in Nat /\ MaxLength \in Nat /\ MaxLength >= p
  BY NamesAssumption
<1>1. ASSUME NEW v \in TenantIds, NEW w \in ValidNames
      PROVE  \A i \in 1 .. PrefixLength : BackendName(v, w)[i + 2] = Sanitize(v)[i]
  <2>1. /\ FullName(v, w) = Prefix(v) \o w
        /\ w \in Seq(Safe) /\ Len(w) >= 2 /\ w[1] # Dash
        /\ FullName(v, w) \in Seq(Safe)
        /\ Len(FullName(v, w)) = PrefixLength + 3 + Len(w)
    BY FullNameParts
  <2>2. /\ Prefix(v) \in Seq(Safe)
        /\ Len(Prefix(v)) = PrefixLength + 3
        /\ \A i \in 1 .. PrefixLength : Prefix(v)[i + 2] = Sanitize(v)[i]
    BY PrefixType
  <2>3. /\ FullName(v, w)[p] = w[1]
        /\ \A i \in 1 .. PrefixLength : FullName(v, w)[i + 2] = Prefix(v)[i + 2]
    <3>1. /\ \A i \in 1 .. PrefixLength + 3 : FullName(v, w)[i] = Prefix(v)[i]
          /\ FullName(v, w)[p] = w[1]
      <4>1. Len(w) >= 1
        BY <2>1
      <4>2. /\ \A i \in 1 .. Len(Prefix(v)) : (Prefix(v) \o w)[i] = Prefix(v)[i]
            /\ (Prefix(v) \o w)[Len(Prefix(v)) + 1] = w[1]
        BY <2>1, <2>2, <4>1, ConcatEnds, Zenon
      <4>3. Len(Prefix(v)) + 1 = p
        BY <1>0, <2>2
      <4> QED
        BY <2>1, <2>2, <4>2, <4>3
    <3> QED
      BY <1>0, <3>1
  <2>4. /\ cut(v, w) \in Seq(Safe)
        /\ Len(cut(v, w)) >= p
        /\ \A i \in 1 .. p : cut(v, w)[i] = FullName(v, w)[i]
    <3> DEFINE f == FullName(v, w)
    <3>1. CASE Len(f) < MaxLength
      <4>1. cut(v, w) = SubSeq(f, 1, Len(f))
        BY <3>1 DEF Take
      <4>2. cut(v, w) = f
        BY <2>1, <4>1
      <4> QED
        BY <1>0, <2>1, <4>2
    <3>2. CASE ~(Len(f) < MaxLength)
      <4>1. cut(v, w) = SubSeq(f, 1, MaxLength)
        BY <3>2 DEF Take
      <4>2. MaxLength <= Len(f)
        BY <1>0, <2>1, <3>2
      <4> HIDE DEF f
      <4> QED
        BY <1>0, <2>1, <4>1, <4>2 DEF f
    <3> QED
      BY <3>1, <3>2
  <2>5. \A i \in 1 .. p : RStrip(cut(v, w))[i] = cut(v, w)[i]
    <3>1. p \in 1 .. Len(cut(v, w)) /\ cut(v, w)[p] # Dash
      BY <1>0, <2>1, <2>3, <2>4
    <3> QED
      BY <2>4, <3>1, RStripKeeps
  <2> QED
    BY <1>0, <2>2, <2>3, <2>4, <2>5 DEF BackendName
<1> QED
  BY <1>1

(* A tenant's sandboxes whose names are short enough to be kept whole have *)
(* different names in the backend.                                         *)
THEOREM ShortNamesApart ==
    ASSUME NEW t \in TenantIds, NEW m \in ValidNames, NEW n \in ValidNames,
           PrefixLength + 3 + Len(m) <= MaxLength,
           PrefixLength + 3 + Len(n) <= MaxLength,
           BackendName(t, m) = BackendName(t, n)
    PROVE  m = n
<1>0. PrefixLength \in Nat /\ MaxLength \in Nat
  BY NamesAssumption
<1>1. ASSUME NEW w \in ValidNames, PrefixLength + 3 + Len(w) <= MaxLength
      PROVE  BackendName(t, w) = Prefix(t) \o w
  <2> DEFINE f == FullName(t, w)
  <2>1. /\ f = Prefix(t) \o w /\ w \in Seq(Safe) /\ Len(w) >= 2 /\ w[Len(w)] # Dash
        /\ f \in Seq(Safe) /\ Len(f) = PrefixLength + 3 + Len(w)
    BY FullNameParts
  <2> HIDE DEF f
  <2>2. Take(f, MaxLength) = f
    <3>1. Len(f) \in Nat /\ Len(f) <= MaxLength
      BY <1>0, <1>1, <2>1
    <3>2. Take(f, MaxLength) = SubSeq(f, 1, Len(f))
      BY <1>0, <3>1 DEF Take
    <3> QED
      BY <2>1, <3>2, SubSeqFull
  <2>3. f[Len(f)] = w[Len(w)]
    <3>1. Prefix(t) \in Seq(Safe) /\ Len(Prefix(t)) = PrefixLength + 3
      BY PrefixType
    <3> QED
      BY <1>0, <2>1, <3>1, ConcatEnds
  <2>4. RStrip(f) = f
    <3>1. Len(f) \in Nat \ {0} /\ f[Len(f)] # Dash
      BY <1>0, <2>1, <2>3
    <3>2. {j \in 1 .. Len(f) : \E k \in j .. Len(f) : f[k] # Dash} = 1 .. Len(f)
      <4>1. \A j \in 1 .. Len(f) : Len(f) \in j .. Len(f)
        BY <3>1
      <4> QED
        BY <3>1, <4>1
    <3>3. f = [i \in 1 .. Len(f) |-> f[i]]
      <4>1. f \in [1 .. Len(f) -> Safe]
        BY <2>1, LenProperties
      <4> QED
        BY <4>1
    <3>4. RStrip(f) = [i \in 1 .. Len(f) |-> f[i]]
      BY <3>2 DEF RStrip
    <3> QED
      BY <3>3, <3>4
  <2> QED
    BY <2>1, <2>2, <2>4 DEF BackendName, f
<1>2. Prefix(t) \o m = Prefix(t) \o n
  BY <1>1
<1>3. Prefix(t) \in Seq(Safe) /\ m \in Seq(Safe) /\ n \in Seq(Safe)
  BY PrefixType, FullNameParts
<1> QED
  BY <1>2, <1>3, ConcatSimplifications

-----------------------------------------------------------------------------
(* The service on these names.                                             *)

(* OpenShell and Kubernetes make the backend's names of the tenant's id    *)
(* and of the name the schema let pass.                                    *)
Makes(id, text) ==
    \A slot \in Slots : MakeName[slot] = BackendName(id[slot[1]], text[slot[2]])

(* The prefixes of the tenants' ids, sanitised, tell them apart.           *)
PrefixesDiffer(id) ==
    \A t, u \in Tenants :
        (\A i \in 1 .. PrefixLength : Sanitize(id[t])[i] = Sanitize(id[u])[i]) => t = u

(* When the tenants' ids differ in their first characters, sanitised, no   *)
(* request ever touches a pod of another tenant: with the names of         *)
(* _make_name and _make_crd_name, however long the sandboxes' names are,   *)
(* in any interleaving and with any faults.                                *)
THEOREM PodsKeptApart ==
    ASSUME NEW id \in [Tenants -> TenantIds], NEW text \in [Names -> ValidNames],
           Makes(id, text), PrefixesDiffer(id)
    PROVE  Spec => OwnPodsOnly
<1>1. ASSUME NEW s \in Slots, NEW t \in Slots, MakeName[s] = MakeName[t]
      PROVE  s[1] = t[1]
  <2>1. /\ s[1] \in Tenants /\ s[2] \in Names /\ t[1] \in Tenants /\ t[2] \in Names
    BY DEF Slots
  <2>2. /\ id[s[1]] \in TenantIds /\ text[s[2]] \in ValidNames
        /\ id[t[1]] \in TenantIds /\ text[t[2]] \in ValidNames
    BY <2>1
  <2>3. BackendName(id[s[1]], text[s[2]]) = BackendName(id[t[1]], text[t[2]])
    BY <1>1 DEF Makes
  <2>4. \A i \in 1 .. PrefixLength : Sanitize(id[s[1]])[i] = Sanitize(id[t[1]])[i]
    BY <2>2, <2>3, TenantsApart
  <2> QED
    BY <2>1, <2>4 DEF PrefixesDiffer
<1>2. TenantsSeparate
  BY <1>1 DEF TenantsSeparate
<1> QED
  BY <1>2, PodsChangeForOwner

=============================================================================
