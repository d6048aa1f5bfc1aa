------------------------ MODULE PluginManagerProofs ------------------------
(***************************************************************************)
(* What holds of the plugin tables and of the managers that handle plugin  *)
(* events for any number of managers, installations, devices, profiles,    *)
(* builds and events: every current value can be read as it was meant,     *)
(* events take effect once, and an answer is the build's it was asked of.  *)
(***************************************************************************)
EXTENDS PluginManager, TLAPS

-----------------------------------------------------------------------------
(* Entity descriptors *)

WantedKeys == UNION {UNION {DOMAIN Entities[b][p] : p \in DOMAIN Entities[b]} : b \in Builds}
Shapes == UNION {UNION {{Entities[b][p][k] : k \in DOMAIN Entities[b][p]} : p \in DOMAIN Entities[b]}
                   : b \in Builds}

Descriptor == [inst : Installations, profile : Profiles, key : WantedKeys, shape : Shapes,
               deprecated : BOOLEAN, revision : Nat]

SameKey(r, q) == r.inst = q.inst /\ r.profile = q.profile /\ r.key = q.key

Newest(r, D) == \A q \in D : SameKey(q, r) => q.revision <= r.revision

\* A revision is written once, every key has a newest one, and only that may
\* be in force.
Descriptors(D) ==
  /\ D \subseteq Descriptor
  /\ \A r, q \in D : SameKey(r, q) /\ r.revision = q.revision => r = q
  /\ \A r \in D : \E q \in D : SameKey(q, r) /\ Newest(q, D)
  /\ \A r \in D : ~r.deprecated => Newest(r, D)

\* Nothing that was written is lost or changes its shape.
Keeps(D, E) == \A r \in D : \E q \in E : SameKey(r, q) /\ r.revision = q.revision /\ r.shape = q.shape

\* What is in force for a profile is what the build declares.
InForce(D, i, p, b) ==
  /\ p \in DOMAIN Entities[b]
  /\ \A k \in DOMAIN Entities[b][p] :
       \E r \in D : /\ r.inst = i /\ r.profile = p /\ r.key = k /\ ~r.deprecated
                    /\ r.shape = Entities[b][p][k]
  /\ \A r \in D : r.inst = i /\ r.profile = p /\ ~r.deprecated =>
       r.key \in DOMAIN Entities[b][p] /\ r.shape = Entities[b][p][r.key]

\* The rows of a profile are the same.
SameRows(D, E, i, p) == \A r : r.inst = i /\ r.profile = p => (r \in D <=> r \in E)

\* The shapes a build declares.
LEMMA DeclaredShapes ==
  ASSUME NEW b \in Builds, NEW p \in DOMAIN Entities[b], NEW k \in DOMAIN Entities[b][p]
  PROVE  k \in WantedKeys /\ Entities[b][p][k] \in Shapes
  BY DEF WantedKeys, Shapes

\* What is in force depends on the rows of the profile.
LEMMA InForceOfRows ==
  ASSUME NEW D, NEW E, NEW i, NEW p, NEW b, InForce(D, i, p, b), SameRows(D, E, i, p)
  PROVE  InForce(E, i, p, b)
  BY DEF InForce, SameRows

\* Keeping is transitive.
LEMMA KeepsOn ==
  ASSUME NEW D, NEW E, NEW F, Keeps(D, E), Keeps(E, F)
  PROVE  Keeps(D, F)
  BY DEF Keeps, SameKey

\* Deprecating some of the rows keeps them all.
LEMMA Deprecating ==
  ASSUME NEW D, Descriptors(D), NEW P \in SUBSET D,
         NEW E, E = {IF r \in P THEN [r EXCEPT !.deprecated = TRUE] ELSE r : r \in D}
  PROVE  Descriptors(E) /\ Keeps(D, E)
<1>1. ASSUME NEW r \in D
      PROVE  \E q \in E : SameKey(r, q) /\ r.revision = q.revision /\ r.shape = q.shape
  <2>1. PICK q : q = IF r \in P THEN [r EXCEPT !.deprecated = TRUE] ELSE r
    OBVIOUS
  <2>2. q \in E
    BY <2>1
  <2>3. r \in Descriptor
    BY DEF Descriptors
  <2>4. SameKey(r, q) /\ r.revision = q.revision /\ r.shape = q.shape
    BY <2>1, <2>3 DEF Descriptor, SameKey
  <2>. QED
    BY <2>2, <2>4
<1>2. ASSUME NEW q \in E
      PROVE  /\ q \in Descriptor
             /\ \E r \in D : /\ q = IF r \in P THEN [r EXCEPT !.deprecated = TRUE] ELSE r
                             /\ SameKey(r, q) /\ r.revision = q.revision
  BY DEF Descriptors, Descriptor, SameKey
<1>3. ASSUME NEW q \in E, NEW z \in E, SameKey(q, z), q.revision = z.revision
      PROVE  q = z
  <2>1. PICK r \in D : q = (IF r \in P THEN [r EXCEPT !.deprecated = TRUE] ELSE r)
                       /\ SameKey(r, q) /\ r.revision = q.revision
    BY <1>2
  <2>2. PICK s \in D : z = (IF s \in P THEN [s EXCEPT !.deprecated = TRUE] ELSE s)
                       /\ SameKey(s, z) /\ s.revision = z.revision
    BY <1>2
  <2>3. r = s
    BY <1>3, <2>1, <2>2 DEF Descriptors, SameKey
  <2>. QED
    BY <2>1, <2>2, <2>3
<1>4. ASSUME NEW q \in E
      PROVE  \E z \in E : SameKey(z, q) /\ Newest(z, E)
  <2>1. PICK r \in D : SameKey(r, q) /\ r.revision = q.revision
    BY <1>2
  <2>2. PICK n \in D : SameKey(n, r) /\ Newest(n, D)
    BY DEF Descriptors
  <2>3. PICK z \in E : SameKey(n, z) /\ n.revision = z.revision
    BY <1>1
  <2>4. ASSUME NEW y \in E, SameKey(y, z) PROVE y.revision <= z.revision
    <3>1. PICK x \in D : SameKey(x, y) /\ x.revision = y.revision
      BY <1>2
    <3>. QED
      BY <2>2, <2>3, <2>4, <3>1 DEF Newest, SameKey
  <2>. QED
    BY <2>1, <2>2, <2>3, <2>4 DEF Newest, SameKey
<1>5. ASSUME NEW q \in E, ~q.deprecated PROVE Newest(q, E)
  <2>1. PICK r \in D : q = (IF r \in P THEN [r EXCEPT !.deprecated = TRUE] ELSE r)
                       /\ SameKey(r, q) /\ r.revision = q.revision
    BY <1>2
  <2>2. r \in Descriptor
    BY DEF Descriptors
  <2>3. ~r.deprecated
    BY <1>5, <2>1, <2>2 DEF Descriptor
  <2>4. Newest(r, D)
    BY <2>3 DEF Descriptors
  <2>5. ASSUME NEW y \in E, SameKey(y, q) PROVE y.revision <= q.revision
    <3>1. PICK x \in D : SameKey(x, y) /\ x.revision = y.revision
      BY <1>2
    <3>. QED
      BY <2>1, <2>4, <2>5, <3>1 DEF Newest, SameKey
  <2>. QED
    BY <2>5 DEF Newest
<1>6. Descriptors(E)
  BY <1>2, <1>3, <1>4, <1>5 DEF Descriptors
<1>. QED
  BY <1>1, <1>6 DEF Keeps

\* Profiles without a device are deprecated, and nothing else changes.
LEMMA DeprecatingUnbound ==
  ASSUME NEW D, Descriptors(D), NEW B, NEW i, NEW E, E = DeprecateUnboundProfiles(D, B, i)
  PROVE  /\ Descriptors(E) /\ Keeps(D, E)
         /\ \A j, p : j # i \/ (\E d \in Devices : B[d] = [inst |-> i, profile |-> p]) => SameRows(D, E, j, p)
<1>. DEFINE P == {r \in D : r.inst = i /\ ~\E d \in Devices : B[d] = [inst |-> i, profile |-> r.profile]}
<1>1. E = {IF r \in P THEN [r EXCEPT !.deprecated = TRUE] ELSE r : r \in D}
  <2>1. ASSUME NEW r \in D
        PROVE  (r \in P) <=> (r.inst = i /\ ~\E d \in Devices : B[d] = [inst |-> i, profile |-> r.profile])
    OBVIOUS
  <2>. HIDE DEF P
  <2>. QED
    BY <2>1 DEF DeprecateUnboundProfiles
<1>2. P \in SUBSET D
  OBVIOUS
<1>3. Descriptors(E) /\ Keeps(D, E)
  <2>. HIDE DEF P
  <2>. QED
    BY <1>1, <1>2, Deprecating
<1>4. ASSUME NEW j, NEW p, j # i \/ (\E d \in Devices : B[d] = [inst |-> i, profile |-> p])
      PROVE  SameRows(D, E, j, p)
  <2>1. ASSUME NEW r \in D, r.inst = j, r.profile = p PROVE r \notin P
    BY <1>4, <2>1
  <2>2. ASSUME NEW q \in E, q.inst = j, q.profile = p PROVE q \in D
    <3>1. PICK r \in D : q = IF r \in P THEN [r EXCEPT !.deprecated = TRUE] ELSE r
      <4>. HIDE DEF P
      <4>. QED
        BY <1>1
    <3>2. CASE r \in P
      <4>1. r \in Descriptor
        BY DEF Descriptors
      <4>2. r.inst = j /\ r.profile = p
        BY <2>2, <3>1, <3>2, <4>1 DEF Descriptor
      <4>. QED
        BY <2>1, <3>2, <4>2
    <3>3. CASE r \notin P
      BY <3>1, <3>3
    <3>. QED
      BY <3>2, <3>3
  <2>3. ASSUME NEW r \in D, r.inst = j, r.profile = p PROVE r \in E
    <3>. HIDE DEF P
    <3>. QED
      BY <1>1, <2>1, <2>3
  <2>. QED
    BY <2>2, <2>3 DEF SameRows
<1>. QED
  BY <1>3, <1>4

\* The parts of a registration: rows that stay in force, rows that go out of
\* force, rows that are new.
Same(D, i, p, b, k) == {r \in LatestDescriptor(D, i, p, k) : r.shape = Entities[b][p][k]}

Active(D, i, p, b) == UNION {Same(D, i, p, b, k) : k \in DOMAIN Entities[b][p]}

Stale(D, i, p, b) ==
  {r \in DescriptorsOf(D, i, p) : r.key \notin DOMAIN Entities[b][p]}
    \cup UNION {LatestDescriptor(D, i, p, k) \ Same(D, i, p, b, k) : k \in DOMAIN Entities[b][p]}

NextRevision(D, i, p, k) == Max({0} \cup {r.revision : r \in LatestDescriptor(D, i, p, k)}) + 1

NewRow(D, i, p, b, k) ==
  [inst |-> i, profile |-> p, key |-> k, shape |-> Entities[b][p][k], deprecated |-> FALSE,
   revision |-> NextRevision(D, i, p, k)]

New(D, i, p, b) == {NewRow(D, i, p, b, k) : k \in {x \in DOMAIN Entities[b][p] : Same(D, i, p, b, x) = {}}}

\* A registration by its parts.
LEMMA RegistrationParts ==
  ASSUME NEW D, NEW i, NEW p, NEW b
  PROVE  RegisterProfileEntities(D, i, p, b) =
           (D \ (Active(D, i, p, b) \cup Stale(D, i, p, b)))
             \cup {[r EXCEPT !.deprecated = TRUE] : r \in Stale(D, i, p, b)}
             \cup {[r EXCEPT !.deprecated = FALSE] : r \in Active(D, i, p, b)}
             \cup New(D, i, p, b)
  BY DEF RegisterProfileEntities, Active, Stale, New, NewRow, NextRevision, Same

\* The latest rows of a key are its newest.
LEMMA LatestIsNewest ==
  ASSUME NEW D, NEW i, NEW p, NEW k, NEW r
  PROVE  r \in LatestDescriptor(D, i, p, k) <=>
           r \in D /\ r.inst = i /\ r.profile = p /\ r.key = k /\ Newest(r, D)
  BY DEF LatestDescriptor, DescriptorsOf, Newest, SameKey

\* The next revision of a key is above every one it has.
LEMMA NextRevisionIsNew ==
  ASSUME NEW D, Descriptors(D), NEW i, NEW p, NEW k
  PROVE  /\ NextRevision(D, i, p, k) \in Nat
         /\ \A q \in D : q.inst = i /\ q.profile = p /\ q.key = k => q.revision < NextRevision(D, i, p, k)
<1>1. \A r \in D : r.revision \in Nat
  BY DEF Descriptors, Descriptor
<1>2. CASE LatestDescriptor(D, i, p, k) = {}
  <2>1. ASSUME NEW q \in D, q.inst = i, q.profile = p, q.key = k PROVE FALSE
    <3>1. PICK r \in D : SameKey(r, q) /\ Newest(r, D)
      BY DEF Descriptors
    <3>. QED
      BY <1>2, <2>1, <3>1, LatestIsNewest DEF SameKey
  <2>2. {0} \cup {r.revision : r \in LatestDescriptor(D, i, p, k)} = {0}
    BY <1>2
  <2>3. Max({0}) = 0
    BY DEF Max
  <2>. QED
    BY <2>1, <2>2, <2>3 DEF NextRevision
<1>3. CASE LatestDescriptor(D, i, p, k) # {}
  <2>1. PICK r \in LatestDescriptor(D, i, p, k) : TRUE
    BY <1>3
  <2>2. r \in D /\ r.inst = i /\ r.profile = p /\ r.key = k /\ Newest(r, D)
    BY LatestIsNewest
  <2>3. PICK n \in Nat : n = r.revision
    BY <1>1, <2>2
  <2>4. ASSUME NEW q \in LatestDescriptor(D, i, p, k) PROVE q.revision = n
    <3>1. q \in D /\ q.inst = i /\ q.profile = p /\ q.key = k /\ Newest(q, D)
      BY LatestIsNewest
    <3>. QED
      BY <1>1, <2>2, <2>3, <3>1 DEF Newest, SameKey
  <2>5. {0} \cup {q.revision : q \in LatestDescriptor(D, i, p, k)} = {0, n}
    BY <2>1, <2>4
  <2>6. Max({0, n}) = n
    BY DEF Max
  <2>7. NextRevision(D, i, p, k) = n + 1
    BY <2>5, <2>6 DEF NextRevision
  <2>8. \A q \in D : q.inst = i /\ q.profile = p /\ q.key = k => q.revision <= n
    BY <2>2, <2>3 DEF Newest, SameKey
  <2>. QED
    BY <1>1, <2>7, <2>8
<1>. QED
  BY <1>2, <1>3

\* What a registration makes of a row.
Registered(r, D, i, p, b) ==
  IF r \in Stale(D, i, p, b) THEN [r EXCEPT !.deprecated = TRUE]
  ELSE IF r \in Active(D, i, p, b) THEN [r EXCEPT !.deprecated = FALSE] ELSE r

\* Which rows go out of force, which stay, and what a registration consists of.
LEMMA RegistrationRows ==
  ASSUME NEW D, Descriptors(D), NEW i \in Installations, NEW p \in Profiles,
         NEW b \in Builds, p \in DOMAIN Entities[b]
  PROVE  /\ \A r : r \in Active(D, i, p, b) <=>
              /\ r \in D /\ r.inst = i /\ r.profile = p /\ r.key \in DOMAIN Entities[b][p]
              /\ Newest(r, D) /\ r.shape = Entities[b][p][r.key]
         /\ \A r : r \in Stale(D, i, p, b) <=>
              /\ r \in D /\ r.inst = i /\ r.profile = p
              /\ r.key \in DOMAIN Entities[b][p] => Newest(r, D) /\ r.shape # Entities[b][p][r.key]
         /\ \A q : q \in RegisterProfileEntities(D, i, p, b) <=>
              (\E r \in D : q = Registered(r, D, i, p, b)) \/ q \in New(D, i, p, b)
<1>1. \A r : r \in Active(D, i, p, b) <=>
        /\ r \in D /\ r.inst = i /\ r.profile = p /\ r.key \in DOMAIN Entities[b][p]
        /\ Newest(r, D) /\ r.shape = Entities[b][p][r.key]
  BY LatestIsNewest DEF Active, Same
<1>2. \A r : r \in Stale(D, i, p, b) <=>
        /\ r \in D /\ r.inst = i /\ r.profile = p
        /\ r.key \in DOMAIN Entities[b][p] => Newest(r, D) /\ r.shape # Entities[b][p][r.key]
  BY LatestIsNewest DEF Stale, Same, DescriptorsOf
<1>3. /\ Active(D, i, p, b) \subseteq D /\ Stale(D, i, p, b) \subseteq D
      /\ \A r \in D : ~(r \in Active(D, i, p, b) /\ r \in Stale(D, i, p, b))
  BY <1>1, <1>2
<1>4. ASSUME NEW q
      PROVE  q \in RegisterProfileEntities(D, i, p, b) <=>
              (\E r \in D : q = Registered(r, D, i, p, b)) \/ q \in New(D, i, p, b)
  BY <1>3, RegistrationParts DEF Registered
<1>. QED
  BY <1>1, <1>2, <1>4

\* A row that is registered keeps everything but whether it is in force.
LEMMA RegisteredRow ==
  ASSUME NEW D, Descriptors(D), NEW r \in D, NEW i, NEW p, NEW b, NEW q, q = Registered(r, D, i, p, b)
  PROVE  /\ q \in Descriptor /\ SameKey(r, q) /\ r.revision = q.revision /\ r.shape = q.shape
         /\ r \in Stale(D, i, p, b) => q.deprecated
         /\ r \notin Stale(D, i, p, b) /\ r \in Active(D, i, p, b) => ~q.deprecated
         /\ r \notin Stale(D, i, p, b) /\ r \in Active(D, i, p, b) /\ ~r.deprecated => q = r
         /\ r \notin Stale(D, i, p, b) /\ r \notin Active(D, i, p, b) => q = r
<1>1. r \in Descriptor
  BY DEF Descriptors
<1>2. CASE r \in Stale(D, i, p, b)
  <2>1. q = [r EXCEPT !.deprecated = TRUE]
    BY <1>2 DEF Registered
  <2>. QED
    BY <1>1, <1>2, <2>1 DEF Descriptor, SameKey
<1>3. CASE r \notin Stale(D, i, p, b) /\ r \in Active(D, i, p, b)
  <2>1. q = [r EXCEPT !.deprecated = FALSE]
    BY <1>3 DEF Registered
  <2>2. q \in Descriptor /\ SameKey(r, q) /\ r.revision = q.revision /\ r.shape = q.shape /\ ~q.deprecated
    BY <1>1, <2>1 DEF Descriptor, SameKey
  <2>3. ~r.deprecated => q = r
    BY <1>1, <2>1 DEF Descriptor
  <2>. QED
    BY <1>3, <2>2, <2>3
<1>4. CASE r \notin Stale(D, i, p, b) /\ r \notin Active(D, i, p, b)
  BY <1>1, <1>4 DEF Registered, SameKey
<1>. QED
  BY <1>2, <1>3, <1>4

\* A new row: its key has no row in force with its shape, and its revision is
\* above all others.
LEMMA NewRows ==
  ASSUME NEW D, Descriptors(D), NEW i \in Installations, NEW p \in Profiles,
         NEW b \in Builds, p \in DOMAIN Entities[b], NEW q \in New(D, i, p, b)
  PROVE  /\ q \in Descriptor /\ q.inst = i /\ q.profile = p /\ ~q.deprecated
         /\ q.key \in DOMAIN Entities[b][p] /\ q.shape = Entities[b][p][q.key]
         /\ q = NewRow(D, i, p, b, q.key)
         /\ \A r \in D : SameKey(r, q) => r.revision < q.revision /\ r \notin Active(D, i, p, b)
<1>1. PICK k \in DOMAIN Entities[b][p] : Same(D, i, p, b, k) = {} /\ q = NewRow(D, i, p, b, k)
  BY DEF New
<1>2. PICK n : n = NextRevision(D, i, p, k)
  OBVIOUS
<1>3. n \in Nat /\ \A r \in D : r.inst = i /\ r.profile = p /\ r.key = k => r.revision < n
  BY <1>2, NextRevisionIsNew
<1>4. k \in WantedKeys /\ Entities[b][p][k] \in Shapes
  BY DeclaredShapes
<1>5. q = [inst |-> i, profile |-> p, key |-> k, shape |-> Entities[b][p][k],
           deprecated |-> FALSE, revision |-> n]
  BY <1>1, <1>2 DEF NewRow
<1>6. q \in Descriptor /\ q.inst = i /\ q.profile = p /\ ~q.deprecated /\ q.key = k
      /\ q.shape = Entities[b][p][k] /\ q.revision = n
  BY <1>3, <1>4, <1>5 DEF Descriptor
<1>7. ASSUME NEW r \in D, SameKey(r, q) PROVE r.revision < q.revision /\ r \notin Active(D, i, p, b)
  <2>1. r.inst = i /\ r.profile = p /\ r.key = k
    BY <1>6, <1>7 DEF SameKey
  <2>2. r \notin Same(D, i, p, b, k)
    BY <1>1
  <2>3. r \notin Active(D, i, p, b)
    BY <2>1, <2>2, RegistrationRows, LatestIsNewest DEF Same
  <2>. QED
    BY <1>3, <1>6, <2>1, <2>3
<1>. QED
  BY <1>1, <1>6, <1>7

\* A row that is neither stale nor active is not in force for its profile.
LEMMA InForceIsRegistered ==
  ASSUME NEW D, Descriptors(D), NEW i \in Installations, NEW p \in Profiles,
         NEW b \in Builds, p \in DOMAIN Entities[b],
         NEW r \in D, ~r.deprecated, r.inst = i, r.profile = p
  PROVE  r \in Stale(D, i, p, b) \/ r \in Active(D, i, p, b)
<1>1. Newest(r, D)
  BY DEF Descriptors
<1>. QED
  BY <1>1, RegistrationRows

\* A registration leaves other profiles alone, loses nothing, and puts in force
\* what the build declares; what was in force for this build stays.
LEMMA Registration ==
  ASSUME NEW D, Descriptors(D), NEW i \in Installations, NEW p \in Profiles,
         NEW b \in Builds, p \in DOMAIN Entities[b], NEW E, E = RegisterProfileEntities(D, i, p, b)
  PROVE  /\ Descriptors(E) /\ Keeps(D, E) /\ InForce(E, i, p, b)
         /\ \A j, q : j # i \/ q # p => SameRows(D, E, j, q)
         /\ InForce(D, i, p, b) => \A r \in D : r.inst = i /\ r.profile = p /\ ~r.deprecated => r \in E
<1>. DEFINE A == Active(D, i, p, b)
            S == Stale(D, i, p, b)
<1>1. \A r : r \in A <=>
        /\ r \in D /\ r.inst = i /\ r.profile = p /\ r.key \in DOMAIN Entities[b][p]
        /\ Newest(r, D) /\ r.shape = Entities[b][p][r.key]
  BY RegistrationRows
<1>2. \A r : r \in S <=>
        /\ r \in D /\ r.inst = i /\ r.profile = p
        /\ r.key \in DOMAIN Entities[b][p] => Newest(r, D) /\ r.shape # Entities[b][p][r.key]
  BY RegistrationRows
<1>3. ASSUME NEW r \in D, NEW q, q = Registered(r, D, i, p, b)
      PROVE  /\ q \in E /\ q \in Descriptor
             /\ SameKey(r, q) /\ r.revision = q.revision /\ r.shape = q.shape
             /\ r \in S => q.deprecated
             /\ r \notin S /\ r \in A => ~q.deprecated
             /\ r \notin S /\ r \in A /\ ~r.deprecated => q = r
             /\ r \notin S /\ r \notin A => q = r
  <2>1. q \in E
    BY <1>3, RegistrationRows
  <2>. QED
    BY <1>3, <2>1, RegisteredRow
<1>4. ASSUME NEW q \in E, q \notin New(D, i, p, b)
      PROVE  \E r \in D : q = Registered(r, D, i, p, b)
  BY <1>4, RegistrationRows
<1>5. ASSUME NEW q \in New(D, i, p, b)
      PROVE  /\ q \in E /\ q \in Descriptor /\ q.inst = i /\ q.profile = p /\ ~q.deprecated
             /\ q.key \in DOMAIN Entities[b][p] /\ q.shape = Entities[b][p][q.key]
             /\ q = NewRow(D, i, p, b, q.key)
             /\ \A r \in D : SameKey(r, q) => r.revision < q.revision /\ r \notin A
  <2>1. q \in E
    BY RegistrationRows
  <2>. QED
    BY <2>1, NewRows
<1>. HIDE DEF A, S
<1>6. \A r \in D : r.revision \in Nat
  BY DEF Descriptors, Descriptor
<1>7. E \subseteq Descriptor
  BY <1>3, <1>4, <1>5
<1>8. \A q \in E : q.revision \in Nat
  BY <1>7 DEF Descriptor
\* A row of D that is newest there, of a key without a new row, is newest.
<1>9. ASSUME NEW r \in D, Newest(r, D), \A n \in New(D, i, p, b) : ~SameKey(n, r),
             NEW q \in E, SameKey(r, q), r.revision = q.revision
      PROVE  Newest(q, E)
  <2>1. ASSUME NEW y \in E, SameKey(y, q) PROVE y.revision <= q.revision
    <3>1. y \notin New(D, i, p, b)
      BY <1>9, <2>1 DEF SameKey
    <3>2. PICK x \in D : y = Registered(x, D, i, p, b)
      BY <1>4, <3>1
    <3>3. SameKey(x, y) /\ x.revision = y.revision
      BY <1>3, <3>2
    <3>4. SameKey(x, r)
      BY <1>9, <2>1, <3>3 DEF SameKey
    <3>. QED
      BY <1>9, <3>3, <3>4 DEF Newest
  <2>. QED
    BY <2>1 DEF Newest
<1>10. ASSUME NEW n \in New(D, i, p, b) PROVE Newest(n, E)
  <2>1. ASSUME NEW y \in E, SameKey(y, n) PROVE y.revision <= n.revision
    <3>1. CASE y \in New(D, i, p, b)
      <4>1. y.key = n.key
        BY <2>1 DEF SameKey
      <4>2. y = NewRow(D, i, p, b, y.key) /\ n = NewRow(D, i, p, b, n.key)
        BY <1>5, <3>1
      <4>3. y = n
        BY <4>1, <4>2
      <4>. QED
        BY <1>8, <4>3
    <3>2. CASE y \notin New(D, i, p, b)
      <4>1. PICK x \in D : y = Registered(x, D, i, p, b)
        BY <1>4, <3>2
      <4>2. SameKey(x, y) /\ x.revision = y.revision
        BY <1>3, <4>1
      <4>3. SameKey(x, n)
        BY <2>1, <4>2 DEF SameKey
      <4>4. x.revision < n.revision
        BY <1>5, <4>3
      <4>5. n \in E
        BY <1>5
      <4>. QED
        BY <1>6, <1>8, <4>2, <4>4, <4>5
    <3>. QED
      BY <3>1, <3>2
  <2>. QED
    BY <2>1 DEF Newest
\* A revision is written once.
<1>11. ASSUME NEW q \in E, NEW z \in E, SameKey(q, z), q.revision = z.revision
       PROVE  q = z
  <2>1. CASE q \in New(D, i, p, b) /\ z \in New(D, i, p, b)
    <3>1. q.key = z.key
      BY <1>11 DEF SameKey
    <3>2. q = NewRow(D, i, p, b, q.key) /\ z = NewRow(D, i, p, b, z.key)
      BY <1>5, <2>1
    <3>. QED
      BY <3>1, <3>2
  <2>2. ASSUME NEW n \in New(D, i, p, b), NEW y \in E, y \notin New(D, i, p, b),
               SameKey(n, y), n.revision = y.revision
        PROVE  FALSE
    <3>1. PICK x \in D : y = Registered(x, D, i, p, b)
      BY <1>4, <2>2
    <3>2. SameKey(x, y) /\ x.revision = y.revision
      BY <1>3, <3>1
    <3>3. SameKey(x, n)
      BY <2>2, <3>2 DEF SameKey
    <3>4. x.revision < n.revision
      BY <1>5, <3>3
    <3>. QED
      BY <1>6, <2>2, <3>2, <3>4
  <2>3. CASE q \notin New(D, i, p, b) /\ z \notin New(D, i, p, b)
    <3>1. PICK r \in D : q = Registered(r, D, i, p, b)
      BY <1>4, <2>3
    <3>2. PICK s \in D : z = Registered(s, D, i, p, b)
      BY <1>4, <2>3
    <3>3. SameKey(r, q) /\ r.revision = q.revision /\ SameKey(s, z) /\ s.revision = z.revision
      BY <1>3, <3>1, <3>2
    <3>4. r = s
      BY <1>11, <3>3 DEF Descriptors, SameKey
    <3>. QED
      BY <3>1, <3>2, <3>4
  <2>. QED
    BY <1>11, <2>1, <2>2, <2>3 DEF SameKey
\* Every key has a newest row.
<1>12. ASSUME NEW q \in E PROVE \E z \in E : SameKey(z, q) /\ Newest(z, E)
  <2>1. CASE \E n \in New(D, i, p, b) : SameKey(n, q)
    BY <1>5, <1>10, <2>1
  <2>2. CASE \A n \in New(D, i, p, b) : ~SameKey(n, q)
    <3>1. q \notin New(D, i, p, b)
      BY <2>2 DEF SameKey
    <3>2. PICK r \in D : q = Registered(r, D, i, p, b)
      BY <1>4, <3>1
    <3>3. PICK x \in D : SameKey(x, r) /\ Newest(x, D)
      BY DEF Descriptors
    <3>4. PICK z : z = Registered(x, D, i, p, b)
      OBVIOUS
    <3>5. z \in E /\ SameKey(x, z) /\ x.revision = z.revision /\ SameKey(r, q)
      BY <1>3, <3>2, <3>4
    <3>6. \A n \in New(D, i, p, b) : ~SameKey(n, x)
      BY <2>2, <3>3, <3>5 DEF SameKey
    <3>7. Newest(z, E)
      BY <1>9, <3>3, <3>5, <3>6
    <3>. QED
      BY <3>3, <3>5, <3>7 DEF SameKey
  <2>. QED
    BY <2>1, <2>2
\* What is in force is newest, and declared if it is of the profile.
<1>13. ASSUME NEW q \in E, ~q.deprecated
       PROVE  /\ Newest(q, E)
              /\ q.inst = i /\ q.profile = p =>
                   q.key \in DOMAIN Entities[b][p] /\ q.shape = Entities[b][p][q.key]
  <2>1. CASE q \in New(D, i, p, b)
    BY <1>5, <1>10, <2>1
  <2>2. CASE q \notin New(D, i, p, b)
    <3>1. PICK r \in D : q = Registered(r, D, i, p, b)
      BY <1>4, <2>2
    <3>2. SameKey(r, q) /\ r.revision = q.revision /\ r.shape = q.shape /\ r \notin S
      BY <1>3, <1>13, <3>1
    <3>3. CASE r \in A
      <4>1. Newest(r, D) /\ r.key \in DOMAIN Entities[b][p] /\ r.shape = Entities[b][p][r.key]
        BY <1>1, <3>3
      <4>2. \A n \in New(D, i, p, b) : ~SameKey(n, r)
        BY <1>5, <3>3 DEF SameKey
      <4>3. Newest(q, E)
        BY <1>9, <3>2, <4>1, <4>2
      <4>. QED
        BY <3>2, <4>1, <4>3 DEF SameKey
    <3>4. CASE r \notin A
      <4>1. q = r
        BY <1>3, <3>1, <3>2, <3>4
      <4>2. Newest(r, D) /\ ~r.deprecated
        BY <1>13, <4>1 DEF Descriptors
      <4>3. ~(r.inst = i /\ r.profile = p)
        BY <3>2, <3>4, <4>2, InForceIsRegistered DEF A, S
      <4>4. \A n \in New(D, i, p, b) : ~SameKey(n, r)
        BY <1>5, <4>3 DEF SameKey
      <4>5. Newest(q, E)
        BY <1>9, <3>2, <4>2, <4>4
      <4>. QED
        BY <4>1, <4>3, <4>5
    <3>. QED
      BY <3>3, <3>4
  <2>. QED
    BY <2>1, <2>2
<1>14. Descriptors(E)
  BY <1>7, <1>11, <1>12, <1>13 DEF Descriptors
<1>15. Keeps(D, E)
  BY <1>3 DEF Keeps
<1>16. InForce(E, i, p, b)
  <2>1. ASSUME NEW k \in DOMAIN Entities[b][p]
        PROVE  \E r \in E : /\ r.inst = i /\ r.profile = p /\ r.key = k /\ ~r.deprecated
                            /\ r.shape = Entities[b][p][k]
    <3>1. CASE Same(D, i, p, b, k) = {}
      <4>1. PICK n : n = NewRow(D, i, p, b, k)
        OBVIOUS
      <4>2. n \in New(D, i, p, b) /\ n.key = k
        BY <3>1, <4>1 DEF New, NewRow
      <4>. QED
        BY <1>5, <4>2
    <3>2. CASE Same(D, i, p, b, k) # {}
      <4>1. PICK r \in Same(D, i, p, b, k) : TRUE
        BY <3>2
      <4>2. r \in D /\ r.inst = i /\ r.profile = p /\ r.key = k /\ Newest(r, D) /\ r.shape = Entities[b][p][k]
        BY LatestIsNewest DEF Same
      <4>3. r \in A /\ r \notin S
        BY <1>1, <1>2, <4>2
      <4>4. PICK q : q = Registered(r, D, i, p, b)
        OBVIOUS
      <4>5. q \in E /\ SameKey(r, q) /\ r.shape = q.shape /\ ~q.deprecated
        BY <1>3, <4>2, <4>3, <4>4
      <4>. QED
        BY <4>2, <4>5 DEF SameKey
    <3>. QED
      BY <3>1, <3>2
  <2>. QED
    BY <1>13, <2>1 DEF InForce
<1>17. ASSUME NEW j, NEW x, j # i \/ x # p PROVE SameRows(D, E, j, x)
  <2>1. ASSUME NEW r \in D, r.inst = j, r.profile = x PROVE r \in E
    <3>1. r \notin A /\ r \notin S
      BY <1>1, <1>2, <1>17, <2>1
    <3>2. PICK q : q = Registered(r, D, i, p, b)
      OBVIOUS
    <3>. QED
      BY <1>3, <3>1, <3>2
  <2>2. ASSUME NEW q \in E, q.inst = j, q.profile = x PROVE q \in D
    <3>1. q \notin New(D, i, p, b)
      BY <1>5, <1>17, <2>2
    <3>2. PICK r \in D : q = Registered(r, D, i, p, b)
      BY <1>4, <3>1
    <3>3. SameKey(r, q)
      BY <1>3, <3>2
    <3>4. r \notin A /\ r \notin S
      BY <1>1, <1>2, <1>17, <2>2, <3>3 DEF SameKey
    <3>. QED
      BY <1>3, <3>2, <3>4
  <2>. QED
    BY <2>1, <2>2 DEF SameRows
<1>18. ASSUME InForce(D, i, p, b), NEW r \in D, r.inst = i, r.profile = p, ~r.deprecated PROVE r \in E
  <2>1. r.key \in DOMAIN Entities[b][p] /\ r.shape = Entities[b][p][r.key]
    BY <1>18 DEF InForce
  <2>2. Newest(r, D)
    BY <1>18 DEF Descriptors
  <2>3. r \in A /\ r \notin S
    BY <1>1, <1>2, <1>18, <2>1, <2>2
  <2>4. PICK q : q = Registered(r, D, i, p, b)
    OBVIOUS
  <2>. QED
    BY <1>3, <1>18, <2>3, <2>4
<1>. QED
  BY <1>14, <1>15, <1>16, <1>17, <1>18

\* The rows of one profile are descriptors among themselves.
LEMMA SliceIsDescriptors ==
  ASSUME NEW D, Descriptors(D), NEW i, NEW p
  PROVE  Descriptors(DescriptorsOf(D, i, p))
<1>. DEFINE S == DescriptorsOf(D, i, p)
<1>1. \A r : r \in S <=> r \in D /\ r.inst = i /\ r.profile = p
  BY DEF DescriptorsOf
<1>. HIDE DEF S
<1>2. \A r \in S : Newest(r, D) => Newest(r, S)
  BY <1>1 DEF Newest
<1>3. ASSUME NEW r \in S PROVE \E q \in S : SameKey(q, r) /\ Newest(q, S)
  <2>1. PICK q \in D : SameKey(q, r) /\ Newest(q, D)
    BY <1>1 DEF Descriptors
  <2>. QED
    BY <1>1, <1>2, <2>1 DEF SameKey
<1>4. Descriptors(S)
  BY <1>1, <1>2, <1>3 DEF Descriptors
<1>. QED
  BY <1>4 DEF S

\* Whether rows are descriptors is a matter of each profile alone.
LEMMA SlicesAreDescriptors ==
  ASSUME NEW E, \A r \in E : Descriptors(DescriptorsOf(E, r.inst, r.profile))
  PROVE  Descriptors(E)
<1>. DEFINE S(r) == DescriptorsOf(E, r.inst, r.profile)
<1>1. \A r, q : q \in S(r) <=> q \in E /\ q.inst = r.inst /\ q.profile = r.profile
  BY DEF DescriptorsOf
<1>2. \A r \in E : Descriptors(S(r))
  OBVIOUS
<1>. HIDE DEF S
<1>3. \A r \in E : Newest(r, S(r)) => Newest(r, E)
  BY <1>1 DEF Newest, SameKey
<1>4. E \subseteq Descriptor
  BY <1>1, <1>2 DEF Descriptors
<1>5. ASSUME NEW r \in E, NEW q \in E, SameKey(r, q), r.revision = q.revision PROVE r = q
  <2>1. r \in S(r) /\ q \in S(r)
    BY <1>1, <1>5 DEF SameKey
  <2>. QED
    BY <1>2, <1>5, <2>1 DEF Descriptors
<1>6. ASSUME NEW r \in E PROVE \E q \in E : SameKey(q, r) /\ Newest(q, E)
  <2>1. r \in S(r)
    BY <1>1
  <2>2. PICK q \in S(r) : SameKey(q, r) /\ Newest(q, S(r))
    BY <1>2, <2>1 DEF Descriptors
  <2>3. q \in E /\ Newest(q, E)
    BY <1>1, <2>2 DEF Newest, SameKey
  <2>. QED
    BY <2>2, <2>3
<1>7. ASSUME NEW r \in E, ~r.deprecated PROVE Newest(r, E)
  <2>1. r \in S(r)
    BY <1>1
  <2>2. Newest(r, S(r))
    BY <1>2, <1>7, <2>1 DEF Descriptors
  <2>. QED
    BY <1>3, <2>2
<1>. QED
  BY <1>4, <1>5, <1>6, <1>7 DEF Descriptors

\* The registration of several profiles of an installation does for each what
\* a registration does, and nothing else.
LEMMA RegisteringEvery ==
  ASSUME NEW D, Descriptors(D), NEW i \in Installations, NEW ps \in SUBSET Profiles, NEW b \in Builds,
         \A p \in ps : p \in DOMAIN Entities[b], NEW E, E = RegisterEvery(D, i, ps, b)
  PROVE  /\ Descriptors(E) /\ Keeps(D, E)
         /\ \A p \in ps : InForce(E, i, p, b)
         /\ \A j, q : j # i => SameRows(D, E, j, q)
<1>. DEFINE S(p) == DescriptorsOf(D, i, p)
            R(p) == RegisterProfileEntities(S(p), i, p, b)
<1>1. \A r, p : r \in S(p) <=> r \in D /\ r.inst = i /\ r.profile = p
  BY DEF DescriptorsOf
<1>2. \A r : r \in E <=> (r \in D /\ ~(r.inst = i /\ r.profile \in ps)) \/ \E p \in ps : r \in R(p)
  BY DEF RegisterEvery
<1>3. ASSUME NEW p \in ps
      PROVE  /\ Descriptors(R(p)) /\ Keeps(S(p), R(p)) /\ InForce(R(p), i, p, b)
             /\ \A j, q : j # i \/ q # p => SameRows(S(p), R(p), j, q)
  <2>1. Descriptors(S(p))
    BY SliceIsDescriptors
  <2>. HIDE DEF S
  <2>. QED
    BY <2>1, Registration
<1>. HIDE DEF S, R
<1>4. \A p \in ps : \A r \in R(p) : r.inst = i /\ r.profile = p
  BY <1>1, <1>3 DEF SameRows
<1>5. ASSUME NEW p \in ps PROVE SameRows(R(p), E, i, p)
  BY <1>2, <1>4 DEF SameRows
<1>6. ASSUME NEW j, NEW q, j # i \/ q \notin ps PROVE SameRows(D, E, j, q)
  BY <1>2, <1>4, <1>6 DEF SameRows
<1>7. ASSUME NEW r \in E PROVE Descriptors(DescriptorsOf(E, r.inst, r.profile))
  <2>1. CASE r.inst = i /\ r.profile \in ps
    <3>1. SameRows(R(r.profile), E, i, r.profile)
      BY <1>5, <2>1
    <3>2. \A q : q \in DescriptorsOf(E, r.inst, r.profile) <=> q \in R(r.profile)
      BY <1>4, <2>1, <3>1 DEF SameRows, DescriptorsOf
    <3>3. DescriptorsOf(E, r.inst, r.profile) = R(r.profile)
      BY <3>2
    <3>. QED
      BY <1>3, <2>1, <3>3
  <2>2. CASE ~(r.inst = i /\ r.profile \in ps)
    <3>1. SameRows(D, E, r.inst, r.profile)
      BY <1>6, <2>2
    <3>2. DescriptorsOf(E, r.inst, r.profile) = DescriptorsOf(D, r.inst, r.profile)
      BY <3>1 DEF SameRows, DescriptorsOf
    <3>. QED
      BY <3>2, SliceIsDescriptors
  <2>. QED
    BY <2>1, <2>2
<1>8. Descriptors(E)
  BY <1>7, SlicesAreDescriptors
<1>9. ASSUME NEW r \in D
      PROVE  \E q \in E : SameKey(r, q) /\ r.revision = q.revision /\ r.shape = q.shape
  <2>1. CASE r.inst = i /\ r.profile \in ps
    <3>1. r \in S(r.profile)
      BY <1>1, <2>1
    <3>2. PICK q \in R(r.profile) : SameKey(r, q) /\ r.revision = q.revision /\ r.shape = q.shape
      BY <1>3, <2>1, <3>1 DEF Keeps
    <3>. QED
      BY <1>2, <2>1, <3>2
  <2>2. CASE ~(r.inst = i /\ r.profile \in ps)
    BY <1>2, <2>2 DEF SameKey
  <2>. QED
    BY <2>1, <2>2
<1>10. ASSUME NEW p \in ps PROVE InForce(E, i, p, b)
  BY <1>3, <1>5, InForceOfRows
<1>. QED
  BY <1>6, <1>8, <1>9, <1>10 DEF Keeps

-----------------------------------------------------------------------------
(* The tables of installations, bindings, descriptors and current values *)

InstallationRow == [state : {"absent", "enabled", "disabled"}, build : Builds \cup {None}]
Binding == [inst : Installations, profile : Profiles]

Bound(B, i, p) == \E d \in Devices : B[d] = [inst |-> i, profile |-> p]

\* A profile with a device is one its installation's build declares, and the
\* rows in force are that build's.
InForceWhereBound(I, B, D) ==
  \A i \in Installations, p \in Profiles :
    Bound(B, i, p) => I[i].state # "absent" /\ InForce(D, i, p, I[i].build)

Readable(S, B, D) ==
  \A s \in S : s.device \in Devices /\ \E r \in D : Describes(r, B, s) /\ r.shape = s.shape

TablesInv ==
  /\ installations \in [Installations -> InstallationRow]
  /\ \A i \in Installations : installations[i].state # "absent" => installations[i].build \in Builds
  /\ bindings \in [Devices -> Binding \cup {None}]
  /\ Descriptors(descriptors)
  /\ InForceWhereBound(installations, bindings, descriptors)
  /\ Readable(states, bindings, descriptors)

\* The rows that the profiles with a device need, of all the rows.
SameWhereBound(D, E, B) == \A i, p : Bound(B, i, p) => SameRows(D, E, i, p)

\* Deprecating profiles without a device, of one installation.
LEMMA DeprecatingIsUnseen ==
  ASSUME NEW D, Descriptors(D), NEW B, NEW i, NEW E, E = DeprecateUnboundProfiles(D, B, i)
  PROVE  Descriptors(E) /\ Keeps(D, E) /\ SameWhereBound(D, E, B)
<1>1. Descriptors(E) /\ Keeps(D, E)
  BY DeprecatingUnbound
<1>2. ASSUME NEW j, NEW p, Bound(B, j, p) PROVE SameRows(D, E, j, p)
  <2>1. CASE j = i
    <3>1. \E d \in Devices : B[d] = [inst |-> i, profile |-> p]
      BY <1>2, <2>1 DEF Bound
    <3>. QED
      BY <3>1, DeprecatingUnbound
  <2>2. CASE j # i
    BY <2>2, DeprecatingUnbound
  <2>. QED
    BY <2>1, <2>2
<1>. QED
  BY <1>1, <1>2 DEF SameWhereBound

\* A binding of an installation is one of a profile to it.
LEMMA BindingParts ==
  ASSUME NEW i, NEW p, NEW j, NEW q, [inst |-> i, profile |-> p] = [inst |-> j, profile |-> q]
  PROVE  i = j /\ p = q
<1>1. [inst |-> i, profile |-> p].inst = i /\ [inst |-> j, profile |-> q].inst = j
      /\ [inst |-> i, profile |-> p].profile = p /\ [inst |-> j, profile |-> q].profile = q
  OBVIOUS
<1>. QED
  BY <1>1

\* What a binding of d to profile p of installation i does to the bindings B,
\* the descriptors D and the values S.
BindsDevice(I, B, D, S, d, i, p, C, E, T) ==
  /\ I[i].state # "absent" /\ I[i].build \in Builds /\ p \in DOMAIN Entities[I[i].build]
  /\ C = [B EXCEPT ![d] = [inst |-> i, profile |-> p]]
  /\ SameWhereBound(RegisterProfileEntities(D, i, p, I[i].build), E, C)
  /\ T \subseteq S
  /\ \A s \in T : s.device = d => B[d] = C[d] \/ B[d] = None \/ s.inst # B[d].inst

\* Binding a device to a profile: the rows of the profile become the build's,
\* which changes nothing for devices that have it already, and the device's
\* values of the installations it leaves and enters are gone.
LEMMA Binds ==
  ASSUME NEW I, NEW B, NEW D, NEW S, NEW d \in Devices, NEW i \in Installations, NEW p \in Profiles,
         B \in [Devices -> Binding \cup {None}], Descriptors(D),
         InForceWhereBound(I, B, D), Readable(S, B, D),
         NEW C, NEW E, NEW T, BindsDevice(I, B, D, S, d, i, p, C, E, T)
  PROVE  InForceWhereBound(I, C, E) /\ Readable(T, C, E)
<1>. DEFINE b == I[i].build
            F == RegisterProfileEntities(D, i, p, b)
<1>0. /\ I[i].state # "absent" /\ b \in Builds /\ p \in DOMAIN Entities[b]
      /\ C = [B EXCEPT ![d] = [inst |-> i, profile |-> p]]
      /\ SameWhereBound(F, E, C)
      /\ T \subseteq S
      /\ \A s \in T : s.device = d => B[d] = C[d] \/ B[d] = None \/ s.inst # B[d].inst
  BY DEF BindsDevice
<1>1. /\ Descriptors(F) /\ InForce(F, i, p, b)
      /\ \A j, q : j # i \/ q # p => SameRows(D, F, j, q)
      /\ InForce(D, i, p, b) => \A r \in D : r.inst = i /\ r.profile = p /\ ~r.deprecated => r \in F
  BY <1>0, Registration
<1>b. b = I[i].build
  OBVIOUS
<1>. HIDE DEF b, F
<1>2. C[d] = [inst |-> i, profile |-> p] /\ \A x \in Devices : x # d => C[x] = B[x]
  BY <1>0
<1>3. ASSUME NEW j \in Installations, NEW q \in Profiles, Bound(C, j, q)
      PROVE  I[j].state # "absent" /\ InForce(E, j, q, I[j].build)
  <2>1. SameRows(F, E, j, q)
    BY <1>0, <1>3 DEF SameWhereBound
  <2>2. CASE j = i /\ q = p
    BY <1>0, <1>1, <1>b, <2>1, <2>2, InForceOfRows
  <2>3. CASE j # i \/ q # p
    <3>1. PICK x \in Devices : C[x] = [inst |-> j, profile |-> q]
      BY <1>3 DEF Bound
    <3>2. x # d
      BY <1>2, <2>3, <3>1, BindingParts
    <3>3. Bound(B, j, q)
      BY <1>2, <3>1, <3>2 DEF Bound
    <3>4. I[j].state # "absent" /\ InForce(D, j, q, I[j].build)
      BY <3>3 DEF InForceWhereBound
    <3>5. SameRows(D, F, j, q)
      BY <1>1, <2>3
    <3>6. InForce(F, j, q, I[j].build)
      BY <3>4, <3>5, InForceOfRows
    <3>. QED
      BY <2>1, <3>4, <3>6, InForceOfRows
  <2>. QED
    BY <2>2, <2>3
<1>4. ASSUME NEW s \in T
      PROVE  s.device \in Devices /\ \E r \in E : Describes(r, C, s) /\ r.shape = s.shape
  <2>1. s.device \in Devices
    BY <1>0 DEF Readable
  <2>2. PICK r \in D : Describes(r, B, s) /\ r.shape = s.shape
    BY <1>0 DEF Readable
  <2>3. r.inst = s.inst /\ ~r.deprecated /\ B[s.device] = [inst |-> s.inst, profile |-> r.profile]
    BY <2>2 DEF Describes
  <2>4. C[s.device] = B[s.device]
    <3>1. CASE s.device = d
      <4>1. B[d].inst = s.inst
        BY <2>3, <3>1
      <4>2. r \in Descriptor
        BY DEF Descriptors
      <4>3. r.inst \in Installations /\ r.profile \in Profiles
        BY <4>2 DEF Descriptor
      <4>4. B[d] \in [inst : Installations, profile : Profiles]
        BY <2>3, <3>1, <4>3
      <4>5. B[d] # None
        BY <4>4, NoneIsNoBinding
      <4>. QED
        BY <1>0, <3>1, <4>1, <4>5
    <3>2. CASE s.device # d
      BY <1>2, <2>1, <3>2
    <3>. QED
      BY <3>1, <3>2
  <2>5. r \in F
    <3>1. CASE r.inst = i /\ r.profile = p
      <4>1. Bound(B, i, p)
        BY <2>1, <2>3, <3>1 DEF Bound
      <4>2. InForce(D, i, p, b)
        BY <1>b, <4>1 DEF InForceWhereBound
      <4>. QED
        BY <1>1, <2>3, <3>1, <4>2
    <3>2. CASE r.inst # i \/ r.profile # p
      <4>1. SameRows(D, F, r.inst, r.profile)
        BY <1>1, <3>2
      <4>. QED
        BY <4>1 DEF SameRows
    <3>. QED
      BY <3>1, <3>2
  <2>6. Bound(C, r.inst, r.profile)
    BY <2>1, <2>3, <2>4 DEF Bound
  <2>7. r \in E
    BY <1>0, <2>5, <2>6 DEF SameWhereBound, SameRows
  <2>8. Describes(r, C, s)
    BY <2>2, <2>4 DEF Describes
  <2>. QED
    BY <2>1, <2>2, <2>7, <2>8
<1>. QED
  BY <1>3, <1>4 DEF InForceWhereBound, Readable

\* What registering the profiles ps of installation i anew for build b does to
\* the installations I and the values S; A is the descriptors to begin with.
RegistersAnew(I, D, S, B, i, b, ps, A, J, E, T) ==
  /\ J[i].state # "absent" /\ J[i].build = b /\ \A j \in Installations : j # i => J[j] = I[j]
  /\ ps \subseteq Profiles /\ \A p \in Profiles : Bound(B, i, p) => p \in ps
  /\ \A p \in ps : p \in DOMAIN Entities[b]
  /\ Descriptors(A) /\ Keeps(D, A) /\ \A j, q : j # i => SameRows(D, A, j, q)
  /\ E = DeprecateUnboundProfiles(RegisterEvery(A, i, ps, b), B, i)
  /\ T = DeleteIncompatibleStates(S, E, B, i)

\* Registering all bound profiles of an installation anew, for a build that
\* has them: values that no longer have their row in force are deleted.
LEMMA Reregisters ==
  ASSUME NEW I, NEW B, NEW D, NEW S, NEW i \in Installations, NEW b \in Builds,
         Descriptors(D), InForceWhereBound(I, B, D), Readable(S, B, D),
         NEW ps, NEW A, NEW J, NEW E, NEW T, RegistersAnew(I, D, S, B, i, b, ps, A, J, E, T)
  PROVE  Descriptors(E) /\ InForceWhereBound(J, B, E) /\ Readable(T, B, E)
<1>. DEFINE F == RegisterEvery(A, i, ps, b)
<1>0. /\ J[i].state # "absent" /\ J[i].build = b /\ \A j \in Installations : j # i => J[j] = I[j]
      /\ ps \in SUBSET Profiles /\ \A p \in Profiles : Bound(B, i, p) => p \in ps
      /\ \A p \in ps : p \in DOMAIN Entities[b]
      /\ Descriptors(A) /\ Keeps(D, A) /\ \A j, q : j # i => SameRows(D, A, j, q)
      /\ E = DeprecateUnboundProfiles(F, B, i)
      /\ T = DeleteIncompatibleStates(S, E, B, i)
  BY DEF RegistersAnew
<1>1. /\ Descriptors(F) /\ Keeps(A, F)
      /\ \A p \in ps : InForce(F, i, p, b)
      /\ \A j, q : j # i => SameRows(A, F, j, q)
  BY <1>0, RegisteringEvery
<1>. HIDE DEF F
<1>2. Descriptors(E) /\ Keeps(F, E) /\ SameWhereBound(F, E, B)
  BY <1>0, <1>1, DeprecatingIsUnseen
<1>3. Keeps(D, F)
  BY <1>0, <1>1, KeepsOn
<1>4. Keeps(D, E)
  BY <1>2, <1>3, KeepsOn
<1>5. \A j, q : j # i => SameRows(D, F, j, q)
  BY <1>0, <1>1 DEF SameRows
<1>6. ASSUME NEW j \in Installations, NEW q \in Profiles, Bound(B, j, q)
      PROVE  J[j].state # "absent" /\ InForce(E, j, q, J[j].build)
  <2>1. SameRows(F, E, j, q)
    BY <1>2, <1>6 DEF SameWhereBound
  <2>2. CASE j = i
    <3>1. InForce(F, j, q, b)
      BY <1>0, <1>1, <1>6, <2>2
    <3>. QED
      BY <1>0, <2>1, <2>2, <3>1, InForceOfRows
  <2>3. CASE j # i
    <3>1. I[j].state # "absent" /\ InForce(D, j, q, I[j].build)
      BY <1>6 DEF InForceWhereBound
    <3>2. InForce(F, j, q, I[j].build)
      BY <1>5, <2>3, <3>1, InForceOfRows
    <3>3. InForce(E, j, q, I[j].build)
      BY <2>1, <3>2, InForceOfRows
    <3>. QED
      BY <1>0, <2>3, <3>1, <3>3
  <2>. QED
    BY <2>2, <2>3
<1>7. ASSUME NEW s \in T
      PROVE  s.device \in Devices /\ \E r \in E : Describes(r, B, s) /\ r.shape = s.shape
  <2>1. s \in S /\ (s.inst = i => \E q \in E : Describes(q, B, s))
    BY <1>0 DEF DeleteIncompatibleStates
  <2>2. s.device \in Devices
    BY <2>1 DEF Readable
  <2>3. PICK r \in D : Describes(r, B, s) /\ r.shape = s.shape
    BY <2>1 DEF Readable
  <2>4. r.inst = s.inst /\ r.key = s.key /\ r.revision = s.revision
        /\ B[s.device] = [inst |-> s.inst, profile |-> r.profile]
    BY <2>3 DEF Describes
  <2>5. CASE s.inst = i
    <3>1. PICK q \in E : Describes(q, B, s)
      BY <2>1, <2>5
    <3>2. q.inst = s.inst /\ q.key = s.key /\ q.revision = s.revision
          /\ B[s.device] = [inst |-> s.inst, profile |-> q.profile]
      BY <3>1 DEF Describes
    <3>3. q.profile = r.profile
      BY <2>4, <3>2, BindingParts
    <3>4. PICK z \in E : SameKey(r, z) /\ r.revision = z.revision /\ r.shape = z.shape
      BY <1>4 DEF Keeps
    <3>5. SameKey(q, z) /\ q.revision = z.revision
      BY <2>4, <3>2, <3>3, <3>4 DEF SameKey
    <3>6. q = z
      BY <1>2, <3>5 DEF Descriptors
    <3>. QED
      BY <2>2, <2>3, <3>1, <3>4, <3>6
  <2>6. CASE s.inst # i
    <3>1. r \in F
      BY <1>5, <2>4, <2>6 DEF SameRows
    <3>2. Bound(B, r.inst, r.profile)
      BY <2>2, <2>4 DEF Bound
    <3>3. r \in E
      BY <1>2, <3>1, <3>2 DEF SameWhereBound, SameRows
    <3>. QED
      BY <2>2, <2>3, <3>3
  <2>. QED
    BY <2>5, <2>6
<1>. QED
  BY <1>2, <1>6, <1>7 DEF InForceWhereBound, Readable

-----------------------------------------------------------------------------
(* The event queue and the managers *)

IsRow(r) ==
  /\ DOMAIN r = {"state", "inst", "build", "profile", "attempts", "token", "timer",
                 "answeredBy", "commands"}
  /\ r.inst \in Installations \cup {None} /\ r.profile \in Profiles \cup {None}
  /\ r.commands \in Nat

IsCopy(c) ==
  DOMAIN c = {"inst", "build", "profile", "phase", "token", "attempts", "op", "staged", "by",
              "permanent", "consume"}

\* What a dispatch knows fits the event and the connection.
Fits(c, r, conn) ==
  /\ c.build = r.build /\ r.state # "absent"
  /\ c.phase = "bound" /\ c.op => c.build = conn /\ conn # None
  /\ c.phase \in {"called", "answered"} /\ c.op => c.by = c.build
  /\ c.phase = "sealed" => c.by = c.build

\* The answer is the event's build's, and effects come with completion.
RowInv(r, n) ==
  /\ r.answeredBy \in {None, r.build}
  /\ n <= 1
  /\ n = 1 => r.state \in {"completed", "purged"}
  /\ r.commands > 0 => n = 1

IsManager(g) == DOMAIN g = {"up", "stopping", "conn", "catalog"} /\ None \notin g.catalog

IsBatch(B) ==
  /\ B = [e \in DOMAIN B |-> B[e]]
  /\ DOMAIN B \subseteq Events
  /\ \A e \in DOMAIN B : IsCopy(B[e])

RowsInv ==
  /\ events = [e \in Events |-> events[e]]
  /\ applied \in [Events -> Nat]
  /\ \A e \in Events : IsRow(events[e]) /\ RowInv(events[e], applied[e])

ManagersInv ==
  /\ mgr = [m \in Managers |-> mgr[m]]
  /\ \A m \in Managers : IsManager(mgr[m])

CopiesInv ==
  /\ batch = [m \in Managers |-> batch[m]]
  /\ \A m \in Managers : IsBatch(batch[m])
  /\ \A m \in Managers : \A e \in DOMAIN batch[m] : Fits(batch[m][e], events[e], mgr[m].conn)

QueueInv == RowsInv /\ ManagersInv /\ CopiesInv

IInv == TablesInv /\ QueueInv

-----------------------------------------------------------------------------
(* Every step keeps the tables *)

\* What the newest revision with a declared shape is: the one in force.
LEMMA Resolves ==
  ASSUME NEW D, Descriptors(D), NEW i, NEW p, NEW b, InForce(D, i, p, b), NEW k \in DOMAIN Entities[b][p]
  PROVE  \E r \in D : /\ r.inst = i /\ r.profile = p /\ r.key = k /\ ~r.deprecated
                      /\ r.shape = Entities[b][p][k]
                      /\ r.revision = Max({x.revision : x \in {y \in DescriptorsOf(D, i, p) :
                                             y.key = k /\ y.shape = Entities[b][p][k]}})
<1>. DEFINE R == {x.revision : x \in {y \in DescriptorsOf(D, i, p) : y.key = k /\ y.shape = Entities[b][p][k]}}
<1>1. PICK r \in D : r.inst = i /\ r.profile = p /\ r.key = k /\ ~r.deprecated /\ r.shape = Entities[b][p][k]
  BY DEF InForce
<1>2. r.revision \in R
  BY <1>1 DEF DescriptorsOf
<1>3. Newest(r, D) /\ \A x \in D : x.revision \in Nat
  BY <1>1 DEF Descriptors, Descriptor
<1>4. \A n \in R : n \in Nat /\ n <= r.revision
  BY <1>1, <1>3 DEF DescriptorsOf, Newest, SameKey
<1>. HIDE DEF R
<1>5. Max(R) = r.revision
  BY <1>2, <1>3, <1>4 DEF Max
<1>. QED
  BY <1>1, <1>5 DEF R

\* Steps that leave the tables alone.
LEMMA TablesStay ==
  ASSUME TablesInv, UNCHANGED <<installations, bindings, descriptors, states>>
  PROVE  TablesInv'
  BY DEF TablesInv, InForceWhereBound, Readable, Bound, Describes

\* The lifecycle of installations and bindings keeps every value readable.
LEMMA LifecycleStep ==
  ASSUME TablesInv, NEW m \in Managers, Lifecycle(m)
  PROVE  TablesInv'
<1>. USE DEF TablesInv
<1>1. ASSUME NEW i \in Installations, NEW b \in Builds, CreateInstallation(i, b) PROVE TablesInv'
  <2>1. /\ installations' = [installations EXCEPT ![i] = [state |-> "enabled", build |-> b]]
        /\ installations[i].state = "absent"
        /\ UNCHANGED <<bindings, descriptors, states>>
    BY <1>1 DEF CreateInstallation
  <2>2. /\ installations' \in [Installations -> InstallationRow]
        /\ \A j \in Installations : installations'[j].state # "absent" => installations'[j].build \in Builds
    BY <2>1 DEF InstallationRow
  <2>3. InForceWhereBound(installations', bindings, descriptors)
    BY <2>1 DEF InForceWhereBound
  <2>. QED
    BY <2>1, <2>2, <2>3 DEF Readable, Describes
<1>2. ASSUME NEW d \in Devices, NEW i \in Installations, NEW p \in Profiles, BindDevice(d, i, p)
      PROVE  TablesInv'
  <2>. DEFINE new == [inst |-> i, profile |-> p]
              involved == {i} \cup IF bindings[d] = Unbound THEN {} ELSE {bindings[d].inst}
              kept(F) == DeprecateUnboundProfiles(F, bindings', i)
  <2>1. PICK b : b = installations[i].build
    OBVIOUS
  <2>2. PICK F : F = RegisterProfileEntities(descriptors, i, p, b)
    OBVIOUS
  <2>3. /\ installations[i].state = "enabled" /\ p \in DOMAIN Entities[b]
        /\ bindings' = [bindings EXCEPT ![d] = new]
        /\ states' = IF bindings[d] = new THEN states ELSE RebindClears(states, d, involved)
        /\ descriptors' = IF bindings[d] = Unbound \/ bindings[d].inst = i THEN kept(F)
                          ELSE DeprecateUnboundProfiles(kept(F), bindings', bindings[d].inst)
        /\ UNCHANGED installations
    BY <1>2, <2>1, <2>2 DEF BindDevice, Profile
  <2>4. b \in Builds
    BY <2>1, <2>3
  <2>5. Descriptors(F)
    BY <2>2, <2>3, <2>4, Registration
  <2>6. PICK C : C = bindings'
    OBVIOUS
  <2>7. PICK G : G = DeprecateUnboundProfiles(F, C, i)
    OBVIOUS
  <2>8. Descriptors(G) /\ SameWhereBound(F, G, C)
    BY <2>5, <2>7, DeprecatingIsUnseen
  <2>9. Descriptors(descriptors') /\ SameWhereBound(F, descriptors', C)
    <3>1. CASE bindings[d] = Unbound \/ bindings[d].inst = i
      <4>1. descriptors' = G
        BY <2>3, <2>6, <2>7, <3>1
      <4>. QED
        BY <2>8, <4>1
    <3>2. CASE ~(bindings[d] = Unbound \/ bindings[d].inst = i)
      <4>1. PICK E : E = DeprecateUnboundProfiles(G, C, bindings[d].inst)
        OBVIOUS
      <4>2. descriptors' = E
        BY <2>3, <2>6, <2>7, <3>2, <4>1
      <4>3. Descriptors(E) /\ SameWhereBound(G, E, C)
        BY <2>8, <4>1, DeprecatingIsUnseen
      <4>4. SameWhereBound(F, E, C)
        BY <2>8, <4>3 DEF SameWhereBound, SameRows
      <4>. QED
        BY <4>2, <4>3, <4>4
    <3>. QED
      BY <3>1, <3>2
  <2>10. states' \in SUBSET states
    BY <2>3 DEF RebindClears
  <2>11. ASSUME NEW s \in states', s.device = d
         PROVE  bindings[d] = C[d] \/ bindings[d] = None \/ s.inst # bindings[d].inst
    <3>1. C[d] = new
      BY <2>3, <2>6
    <3>2. CASE bindings[d] = new
      BY <3>1, <3>2
    <3>3. CASE bindings[d] # new
      <4>1. s \in RebindClears(states, d, involved)
        BY <2>3, <2>11, <3>3
      <4>2. s.inst \notin involved
        BY <2>11, <4>1 DEF RebindClears
      <4>. QED
        BY <4>2 DEF Unbound
    <3>. QED
      BY <3>2, <3>3
  <2>12. C = [bindings EXCEPT ![d] = [inst |-> i, profile |-> p]]
    BY <2>3, <2>6
  <2>13. C \in [Devices -> Binding \cup {None}]
    BY <2>12 DEF Binding
  <2>14. PICK I, B, D, S, E, T : /\ I = installations /\ B = bindings /\ D = descriptors /\ S = states
                                 /\ E = descriptors' /\ T = states'
    OBVIOUS
  <2>15. /\ b = I[i].build /\ I[i].state # "absent" /\ p \in DOMAIN Entities[b]
         /\ I[i].build \in Builds /\ B \in [Devices -> Binding \cup {None}] /\ Descriptors(D)
         /\ InForceWhereBound(I, B, D) /\ Readable(S, B, D)
    BY <2>1, <2>3, <2>4, <2>14
  <2>16. /\ C = [B EXCEPT ![d] = [inst |-> i, profile |-> p]]
         /\ F = RegisterProfileEntities(D, i, p, b)
    BY <2>2, <2>12, <2>14
  <2>17. SameWhereBound(F, E, C) /\ T \subseteq S
    BY <2>9, <2>10, <2>14
  <2>18. \A s \in T : s.device = d => B[d] = C[d] \/ B[d] = None \/ s.inst # B[d].inst
    BY <2>11, <2>14
  <2>. HIDE DEF new, involved, kept, TablesInv
  <2>19. BindsDevice(I, B, D, S, d, i, p, C, E, T)
    BY <2>15, <2>16, <2>17, <2>18 DEF BindsDevice
  <2>20. InForceWhereBound(I, C, E) /\ Readable(T, C, E)
    BY <2>15, <2>19, Binds
  <2>. USE DEF TablesInv
  <2>. QED
    BY <2>3, <2>6, <2>9, <2>13, <2>14, <2>20
<1>3. ASSUME NEW i \in Installations, NEW s \in {"enabled", "disabled"}, SetInstallationState(i, s)
      PROVE  TablesInv'
  <2>1. /\ installations[i].state # "absent"
        /\ installations' = [installations EXCEPT ![i].state = s]
        /\ UNCHANGED <<bindings, descriptors, states>>
    BY <1>3 DEF SetInstallationState
  <2>2. /\ \A j \in Installations : installations'[j].build = installations[j].build
        /\ installations'[i].state = s
        /\ \A j \in Installations : j # i => installations'[j] = installations[j]
        /\ installations' \in [Installations -> InstallationRow]
    BY <2>1 DEF InstallationRow
  <2>3. InForceWhereBound(installations', bindings, descriptors)
    BY <2>2 DEF InForceWhereBound
  <2>. QED
    BY <2>1, <2>2, <2>3 DEF Readable, Describes
<1>4. ASSUME NEW i \in Installations, NEW b \in Builds, NEW A, Reregister(i, b, A),
             installations' \in [Installations -> InstallationRow],
             installations'[i].state # "absent", installations'[i].build = b,
             \A j \in Installations : j # i => installations'[j] = installations[j],
             Descriptors(A), Keeps(descriptors, A), \A j, q : j # i => SameRows(descriptors, A, j, q)
      PROVE  TablesInv'
  <2>1. PICK ps : ps = BoundProfiles(i)
    OBVIOUS
  <2>2. \A p \in ps : p \in DOMAIN Entities[b]
    BY <1>4, <2>1 DEF Reregister, Profile
  <2>3. ASSUME NEW d \in Devices, bindings[d] # Unbound, bindings[d].inst = i
        PROVE  bindings[d].profile \in Profiles
    BY <2>3 DEF Binding, Unbound
  <2>4. ps \in SUBSET Profiles
    BY <2>1, <2>3 DEF BoundProfiles
  <2>5. ASSUME NEW p \in Profiles, Bound(bindings, i, p) PROVE p \in ps
    <3>1. PICK d \in Devices : bindings[d] = [inst |-> i, profile |-> p]
      BY <2>5 DEF Bound
    <3>2. bindings[d] \in [inst : Installations \cup {None}, profile : Profiles \cup {None}]
      BY <3>1
    <3>3. bindings[d] # Unbound /\ bindings[d].inst = i /\ bindings[d].profile = p
      BY <3>1, <3>2, NoneIsNoBinding DEF Unbound
    <3>. QED
      BY <2>1, <3>3 DEF BoundProfiles
  <2>6. PICK F : F = RegisterEvery(A, i, ps, b)
    OBVIOUS
  <2>7. /\ descriptors' = DeprecateUnboundProfiles(F, bindings, i)
        /\ states' = DeleteIncompatibleStates(states, descriptors', bindings, i)
        /\ UNCHANGED bindings
    BY <1>4, <2>1, <2>6 DEF Reregister
  <2>8. PICK J : J = installations'
    OBVIOUS
  <2>9. PICK E : E = descriptors'
    OBVIOUS
  <2>10. PICK T : T = states'
    OBVIOUS
  <2>11. J[i].state # "absent" /\ J[i].build = b /\ \A j \in Installations : j # i => J[j] = installations[j]
    BY <1>4, <2>8
  <2>12. E = DeprecateUnboundProfiles(F, bindings, i) /\ T = DeleteIncompatibleStates(states, E, bindings, i)
    BY <2>7, <2>9, <2>10
  <2>13. Descriptors(E) /\ InForceWhereBound(J, bindings, E) /\ Readable(T, bindings, E)
    <3>1. PICK I, B, D, S : I = installations /\ B = bindings /\ D = descriptors /\ S = states
      OBVIOUS
    <3>2. /\ Descriptors(D) /\ InForceWhereBound(I, B, D) /\ Readable(S, B, D)
          /\ \A j \in Installations : j # i => J[j] = I[j]
          /\ Keeps(D, A) /\ \A j, q : j # i => SameRows(D, A, j, q)
      BY <1>4, <2>11, <3>1
    <3>3. \A p \in Profiles : Bound(B, i, p) => p \in ps
      BY <2>5, <3>1
    <3>4. E = DeprecateUnboundProfiles(F, B, i) /\ T = DeleteIncompatibleStates(S, E, B, i)
      BY <2>12, <3>1
    <3>. HIDE DEF TablesInv
    <3>5. RegistersAnew(I, D, S, B, i, b, ps, A, J, E, T)
      BY <1>4, <2>2, <2>4, <2>6, <2>11, <3>2, <3>3, <3>4 DEF RegistersAnew
    <3>6. Descriptors(E) /\ InForceWhereBound(J, B, E) /\ Readable(T, B, E)
      BY <3>2, <3>5, Reregisters
    <3>. QED
      BY <3>1, <3>6
  <2>14. \A j \in Installations : installations'[j].state # "absent" => installations'[j].build \in Builds
    BY <1>4
  <2>. QED
    BY <1>4, <2>7, <2>8, <2>9, <2>10, <2>13, <2>14
<1>5. ASSUME NEW i \in Installations, NEW b \in Builds, MigrateInstallation(i, b) PROVE TablesInv'
  <2>1. PICK A : A = {IF r.inst = i THEN [r EXCEPT !.deprecated = TRUE] ELSE r : r \in descriptors}
    OBVIOUS
  <2>2. /\ installations' = [installations EXCEPT ![i] = [state |-> "enabled", build |-> b]]
        /\ Reregister(i, b, A)
    BY <1>5, <2>1 DEF MigrateInstallation
  <2>3. PICK P : P = {r \in descriptors : r.inst = i}
    OBVIOUS
  <2>4. A = {IF r \in P THEN [r EXCEPT !.deprecated = TRUE] ELSE r : r \in descriptors}
    BY <2>1, <2>3
  <2>5. Descriptors(A) /\ Keeps(descriptors, A)
    <3>1. PICK D : D = descriptors
      OBVIOUS
    <3>2. /\ Descriptors(D) /\ P \in SUBSET D
          /\ A = {IF r \in P THEN [r EXCEPT !.deprecated = TRUE] ELSE r : r \in D}
      BY <2>3, <2>4, <3>1
    <3>. HIDE DEF TablesInv
    <3>. QED
      BY <3>1, <3>2, Deprecating
  <2>6. ASSUME NEW j, NEW q, j # i PROVE SameRows(descriptors, A, j, q)
    <3>1. ASSUME NEW r \in descriptors, r.inst = j PROVE r \in A
      BY <2>1, <2>6, <3>1
    <3>2. ASSUME NEW z \in A, z.inst = j PROVE z \in descriptors
      <4>1. PICK r \in descriptors : z = IF r.inst = i THEN [r EXCEPT !.deprecated = TRUE] ELSE r
        BY <2>1
      <4>2. r \in Descriptor
        BY DEF Descriptors
      <4>3. r.inst # i
        BY <2>6, <3>2, <4>1, <4>2 DEF Descriptor
      <4>. QED
        BY <4>1, <4>3
    <3>. QED
      BY <3>1, <3>2 DEF SameRows
  <2>7. /\ installations' \in [Installations -> InstallationRow]
        /\ installations'[i].state # "absent" /\ installations'[i].build = b
        /\ \A j \in Installations : j # i => installations'[j] = installations[j]
    BY <2>2 DEF InstallationRow
  <2>. QED
    BY <1>4, <2>2, <2>5, <2>6, <2>7
<1>6. ASSUME NEW i \in Installations, ReconcileInstallation(i) PROVE TablesInv'
  <2>1. /\ installations[i].state # "absent" /\ UNCHANGED installations
        /\ Reregister(i, installations[i].build, descriptors)
    BY <1>6 DEF ReconcileInstallation
  <2>2. PICK b \in Builds : b = installations[i].build
    BY <2>1
  <2>3. Keeps(descriptors, descriptors)
    BY DEF Keeps, SameKey
  <2>4. \A j, q : SameRows(descriptors, descriptors, j, q)
    BY DEF SameRows
  <2>. QED
    BY <1>4, <2>1, <2>2, <2>3, <2>4
<1>. QED
  BY <1>1, <1>2, <1>3, <1>5, <1>6 DEF Lifecycle

\* A completion gives new values the revision in force.
LEMMA CompletionStep ==
  ASSUME IInv, NEW m \in Managers, NEW e \in Events, CompleteWithUpdates(m, e)
  PROVE  TablesInv'
<1>. USE DEF IInv
<1>1. CASE UNCHANGED tableVars
  BY <1>1, TablesStay DEF tableVars
<1>2. CASE ~UNCHANGED tableVars
  <2>1. PICK U, n, b : /\ U \in SUBSET DOMAIN Entities[events[e].build][events[e].profile]
                       /\ CompletePluginEvent(e, U, n, b)
    BY <1>2 DEF CompleteWithUpdates
  <2>2. /\ states' = IF SnapshotIsCurrent(e) THEN ApplyEntityUpdates(e, U) ELSE states
        /\ UNCHANGED <<installations, bindings, descriptors>>
    BY <2>1 DEF CompletePluginEvent
  <2>3. CASE ~SnapshotIsCurrent(e)
    BY <2>2, <2>3, TablesStay
  <2>4. CASE SnapshotIsCurrent(e)
    <3>1. PICK i, p, c : i = events[e].inst /\ p = events[e].profile /\ c = events[e].build
      OBVIOUS
    <3>2. PICK d \in Devices : d = Source[e]
      BY EventsHaveSources
    <3>3. installations[i] = [state |-> "enabled", build |-> c] /\ bindings[d] = [inst |-> i, profile |-> p]
      BY <2>4, <3>1, <3>2 DEF SnapshotIsCurrent
    <3>4. i \in Installations \cup {None} /\ p \in Profiles \cup {None}
      BY <3>1 DEF QueueInv, RowsInv, IsRow
    <3>5. bindings[d] \in [inst : Installations \cup {None}, profile : Profiles \cup {None}]
      BY <3>3, <3>4
    <3>6. bindings[d] \in Binding
      BY <3>5, NoneIsNoBinding DEF TablesInv
    <3>7. i \in Installations /\ p \in Profiles
      BY <3>3, <3>6 DEF Binding
    <3>8. Bound(bindings, i, p)
      BY <3>3 DEF Bound
    <3>9. InForce(descriptors, i, p, c)
      BY <3>3, <3>7, <3>8 DEF TablesInv, InForceWhereBound
    <3>10. ASSUME NEW s \in states', s \notin states
           PROVE  \E k \in DOMAIN Entities[c][p] :
                    s = [inst |-> i, device |-> d, key |-> k, sequence |-> e,
                         revision |-> ResolvedRevision(e, k), shape |-> Entities[c][p][k]]
      BY <2>1, <2>2, <2>4, <3>1, <3>2, <3>10 DEF ApplyEntityUpdates
    <3>11. ASSUME NEW s \in states', s \notin states
           PROVE  s.device \in Devices /\ \E r \in descriptors : Describes(r, bindings, s) /\ r.shape = s.shape
      <4>1. PICK k \in DOMAIN Entities[c][p] :
              s = [inst |-> i, device |-> d, key |-> k, sequence |-> e,
                   revision |-> ResolvedRevision(e, k), shape |-> Entities[c][p][k]]
        BY <3>10, <3>11
      <4>2. PICK D : D = descriptors
        OBVIOUS
      <4>3. Descriptors(D) /\ InForce(D, i, p, c)
        BY <3>9, <4>2 DEF TablesInv
      <4>4. PICK r \in D : /\ r.inst = i /\ r.profile = p /\ r.key = k /\ ~r.deprecated
                           /\ r.shape = Entities[c][p][k]
                           /\ r.revision = Max({x.revision : x \in {y \in DescriptorsOf(D, i, p) :
                                                  y.key = k /\ y.shape = Entities[c][p][k]}})
        BY <4>3, Resolves
      <4>5. r.revision = ResolvedRevision(e, k)
        BY <3>1, <4>2, <4>4 DEF ResolvedRevision
      <4>6. s.inst = i /\ s.device = d /\ s.key = k /\ s.revision = r.revision /\ s.shape = r.shape
        BY <4>1, <4>4, <4>5
      <4>7. Describes(r, bindings, s)
        BY <3>3, <4>4, <4>6 DEF Describes
      <4>. QED
        BY <4>2, <4>6, <4>7
    <3>12. Readable(states', bindings, descriptors)
      BY <3>11 DEF TablesInv, Readable
    <3>. QED
      BY <2>2, <3>12 DEF TablesInv
  <2>. QED
    BY <2>3, <2>4
<1>. QED
  BY <1>1, <1>2

\* Every step keeps the tables.
LEMMA TablesStep ==
  ASSUME IInv, [Next]_vars
  PROVE  TablesInv'
<1>. USE DEF IInv, tableVars, managerVars
<1>1. ASSUME NEW m \in Managers, NEW e \in Events, DispatchStep(m, e) PROVE TablesInv'
  <2>1. CASE DispatchEvent(m, e)
    BY <2>1, TablesStay DEF DispatchEvent
  <2>2. CASE Request(m, e)
    BY <2>2, TablesStay DEF Request
  <2>3. CASE HandlerSettles(m, e)
    BY <2>3, TablesStay DEF HandlerSettles
  <2>4. CASE RequestBreaks(m, e)
    BY <2>4, TablesStay DEF RequestBreaks
  <2>5. CASE SealOperation(m, e)
    BY <2>5, TablesStay DEF SealOperation
  <2>6. CASE CompleteWithUpdates(m, e)
    BY <2>6, CompletionStep
  <2>7. CASE ReleaseEvent(m, e)
    BY <2>7, TablesStay DEF ReleaseEvent
  <2>. QED
    BY <1>1, <2>1, <2>2, <2>3, <2>4, <2>5, <2>6, <2>7 DEF DispatchStep
<1>2. ASSUME NEW m \in Managers, NEW e \in Events, StageCommand(m, e) \/ RequestTimesOut(m, e)
      PROVE  TablesInv'
  BY <1>2, TablesStay DEF StageCommand, RequestTimesOut
<1>3. ASSUME NEW m \in Managers, NEW i \in Installations, CircuitCools(m, i) \/ PruneCircuits(m, i)
      PROVE  TablesInv'
  BY <1>3, TablesStay DEF CircuitCools, PruneCircuits
<1>4. ASSUME NEW m \in Managers, \/ Handshake(m) \/ VerifyManifest(m) \/ ConnectionLost(m)
                                 \/ ConsumeEvents(m) \/ RenewLeases(m)
      PROVE  TablesInv'
  BY <1>4, TablesStay DEF Handshake, VerifyManifest, ConnectionLost, ConsumeEvents, RenewLeases
<1>5. ASSUME NEW m \in Managers, Crash(m) \/ Stop(m) \/ Stopped(m) \/ Start(m) PROVE TablesInv'
  BY <1>5, TablesStay DEF Crash, Stop, Stopped, Start
<1>6. ASSUME NEW m \in Managers, Lifecycle(m) PROVE TablesInv'
  BY <1>6, LifecycleStep
<1>7. ASSUME NEW e \in Events, TimerEnds(e) \/ Ingest(e) \/ Purge(e) PROVE TablesInv'
  BY <1>7, TablesStay DEF TimerEnds, Ingest, IngestDeviceEvent, Purge, PurgePluginData
<1>8. ASSUME NEW b \in Deployed, Redeploy(b) PROVE TablesInv'
  BY <1>8, TablesStay DEF Redeploy
<1>9. CASE OrphanSettles
  BY <1>9, TablesStay DEF OrphanSettles
<1>10. CASE UNCHANGED vars
  BY <1>10, TablesStay DEF vars
<1>. QED
  BY <1>1, <1>2, <1>3, <1>4, <1>5, <1>6, <1>7, <1>8, <1>9, <1>10 DEF Next

-----------------------------------------------------------------------------
(* Every step keeps the queue *)

\* A row that is leased, renewed, released or out of its timer.
RowGoes(r, q) ==
  /\ IsRow(q) /\ q.build = r.build /\ q.answeredBy = r.answeredBy /\ q.commands = r.commands
  /\ r.state \in {"completed", "purged"} => q.state = r.state
  /\ r.state # "absent" => q.state # "absent"

\* The events somebody dispatches keep their build.
PendingKept ==
  \A m \in Managers : \A e \in DOMAIN batch[m] :
    events'[e].build = events[e].build /\ events'[e].state # "absent"

\* An open connection stays open to the same build.
ConnectionsKept == \A m \in Managers : mgr[m].conn # None => mgr'[m].conn = mgr[m].conn

\* What a dispatch knows goes on to fit.
LEMMA FitsOn ==
  ASSUME NEW c, NEW r, NEW x, NEW q, NEW y, Fits(c, r, x),
         q.build = r.build, q.state # "absent", x # None => y = x
  PROVE  Fits(c, q, y)
  BY DEF Fits

\* Rows that go on keep what is said of rows.
LEMMA RowsGo ==
  ASSUME QueueInv, events' = [e \in Events |-> events'[e]], UNCHANGED applied,
         \A e \in Events : RowGoes(events[e], events'[e])
  PROVE  RowsInv' /\ PendingKept
<1>1. ASSUME NEW e \in Events PROVE IsRow(events'[e]) /\ RowInv(events'[e], applied[e])
  BY DEF QueueInv, RowsInv, RowGoes, RowInv
<1>2. RowsInv'
  BY <1>1 DEF QueueInv, RowsInv
<1>3. PendingKept
  <2>. SUFFICES ASSUME NEW m \in Managers, NEW e \in DOMAIN batch[m]
                PROVE  events'[e].build = events[e].build /\ events'[e].state # "absent"
    BY DEF PendingKept
  <2>1. e \in Events /\ events[e].state # "absent"
    BY DEF QueueInv, CopiesInv, IsBatch, Fits
  <2>. QED
    BY <2>1 DEF RowGoes
<1>. QED
  BY <1>2, <1>3

\* Nothing happens to the rows.
LEMMA RowsStay ==
  ASSUME QueueInv, UNCHANGED <<events, applied>>
  PROVE  RowsInv' /\ PendingKept
<1>1. RowsInv'
  BY DEF QueueInv, RowsInv
<1>2. PendingKept
  BY DEF PendingKept, QueueInv, CopiesInv, Fits
<1>. QED
  BY <1>1, <1>2

\* Nothing happens to the managers.
LEMMA ManagersStay ==
  ASSUME QueueInv, UNCHANGED mgr
  PROVE  ManagersInv' /\ ConnectionsKept
  BY DEF QueueInv, ManagersInv, ConnectionsKept

\* Nothing happens to the dispatches.
LEMMA CopiesStay ==
  ASSUME QueueInv, UNCHANGED batch, PendingKept, ConnectionsKept
  PROVE  CopiesInv'
<1>1. ASSUME NEW m \in Managers, NEW e \in DOMAIN batch[m] PROVE Fits(batch[m][e], events'[e], mgr'[m].conn)
  <2>1. Fits(batch[m][e], events[e], mgr[m].conn)
    BY DEF QueueInv, CopiesInv
  <2>2. events'[e].build = events[e].build /\ events'[e].state # "absent"
    BY DEF PendingKept
  <2>3. mgr[m].conn # None => mgr'[m].conn = mgr[m].conn
    BY DEF ConnectionsKept
  <2>. QED
    BY <2>1, <2>2, <2>3, FitsOn
<1>. QED
  BY <1>1 DEF QueueInv, CopiesInv

\* One dispatch goes on.
LEMMA CopyMoves ==
  ASSUME QueueInv, PendingKept, ConnectionsKept, NEW m \in Managers, NEW e \in DOMAIN batch[m],
         NEW c, Moves(m, e, c), IsCopy(c), Fits(c, events'[e], mgr'[m].conn)
  PROVE  CopiesInv'
<1>1. batch' = [batch EXCEPT ![m] = [batch[m] EXCEPT ![e] = c]]
  BY DEF Moves
<1>2. batch = [n \in Managers |-> batch[n]] /\ \A n \in Managers : IsBatch(batch[n])
  BY DEF QueueInv, CopiesInv
<1>3. /\ batch' = [n \in Managers |-> batch'[n]]
      /\ batch'[m] = [batch[m] EXCEPT ![e] = c]
      /\ \A n \in Managers : n # m => batch'[n] = batch[n]
  BY <1>1, <1>2
<1>4. batch[m] = [x \in DOMAIN batch[m] |-> batch[m][x]]
  BY <1>2 DEF IsBatch
<1>5. /\ DOMAIN batch'[m] = DOMAIN batch[m] /\ batch'[m] = [x \in DOMAIN batch'[m] |-> batch'[m][x]]
      /\ batch'[m][e] = c
      /\ \A x \in DOMAIN batch[m] : x # e => batch'[m][x] = batch[m][x]
  BY <1>3, <1>4
<1>6. IsBatch(batch'[m])
  BY <1>2, <1>5 DEF IsBatch
<1>7. ASSUME NEW n \in Managers, NEW x \in DOMAIN batch[n]
      PROVE  Fits(batch[n][x], events'[x], mgr'[n].conn)
  <2>1. Fits(batch[n][x], events[x], mgr[n].conn)
    BY DEF QueueInv, CopiesInv
  <2>2. events'[x].build = events[x].build /\ events'[x].state # "absent"
    BY DEF PendingKept
  <2>3. mgr[n].conn # None => mgr'[n].conn = mgr[n].conn
    BY DEF ConnectionsKept
  <2>. QED
    BY <2>1, <2>2, <2>3, FitsOn
<1>8. ASSUME NEW n \in Managers, NEW x \in DOMAIN batch'[n]
      PROVE  Fits(batch'[n][x], events'[x], mgr'[n].conn)
  <2>1. CASE n = m /\ x = e
    BY <1>5, <2>1
  <2>2. CASE n = m /\ x # e
    BY <1>5, <1>7, <2>2
  <2>3. CASE n # m
    BY <1>3, <1>7, <2>3
  <2>. QED
    BY <2>1, <2>2, <2>3
<1>9. \A n \in Managers : IsBatch(batch'[n])
  BY <1>2, <1>3, <1>6
<1>. QED
  BY <1>3, <1>8, <1>9 DEF CopiesInv

\* A dispatch that gives up fits in any case.
LEMMA CopyGivesUp ==
  ASSUME QueueInv, PendingKept, ConnectionsKept, NEW m \in Managers, NEW e \in DOMAIN batch[m],
         NEW permanent, NEW consume, GivesUp(m, e, permanent, consume)
  PROVE  CopiesInv'
<1>1. PICK c : c = [batch[m][e] EXCEPT !.phase = "release", !.op = FALSE,
                      !.permanent = permanent, !.consume = consume]
  OBVIOUS
<1>2. Moves(m, e, c)
  BY <1>1 DEF GivesUp
<1>3. IsCopy(batch[m][e]) /\ batch[m][e].build = events[e].build
  BY DEF QueueInv, CopiesInv, IsBatch, Fits
<1>4. IsCopy(c) /\ c.build = batch[m][e].build /\ c.phase = "release"
  BY <1>1, <1>3 DEF IsCopy
<1>5. events'[e].build = events[e].build /\ events'[e].state # "absent"
  BY DEF PendingKept
<1>6. Fits(c, events'[e], mgr'[m].conn)
  BY <1>3, <1>4, <1>5 DEF Fits
<1>. QED
  BY <1>2, <1>4, <1>6, CopyMoves

\* A dispatch ends.
LEMMA CopyDrops ==
  ASSUME QueueInv, PendingKept, ConnectionsKept, NEW m \in Managers, NEW e, Drop(m, e)
  PROVE  CopiesInv'
<1>1. batch = [n \in Managers |-> batch[n]] /\ \A n \in Managers : IsBatch(batch[n])
  BY DEF QueueInv, CopiesInv
<1>2. /\ batch' = [n \in Managers |-> batch'[n]]
      /\ batch'[m] = [x \in DOMAIN batch[m] \ {e} |-> batch[m][x]]
      /\ \A n \in Managers : n # m => batch'[n] = batch[n]
  BY <1>1 DEF Drop
<1>3. ASSUME NEW n \in Managers, NEW x \in DOMAIN batch'[n]
      PROVE  x \in DOMAIN batch[n] /\ batch'[n][x] = batch[n][x]
  BY <1>2
<1>4. ASSUME NEW n \in Managers PROVE IsBatch(batch'[n])
  <2>1. IsBatch(batch[n])
    BY <1>1
  <2>2. batch'[n] = [x \in DOMAIN batch'[n] |-> batch'[n][x]]
    <3>1. CASE n = m
      BY <1>2, <3>1
    <3>2. CASE n # m
      BY <1>2, <2>1, <3>2 DEF IsBatch
    <3>. QED
      BY <3>1, <3>2
  <2>. QED
    BY <1>3, <2>1, <2>2 DEF IsBatch
<1>5. ASSUME NEW n \in Managers, NEW x \in DOMAIN batch'[n]
      PROVE  Fits(batch'[n][x], events'[x], mgr'[n].conn)
  <2>0. x \in DOMAIN batch[n] /\ batch'[n][x] = batch[n][x]
    BY <1>3
  <2>1. Fits(batch[n][x], events[x], mgr[n].conn)
    BY <2>0 DEF QueueInv, CopiesInv
  <2>2. events'[x].build = events[x].build /\ events'[x].state # "absent"
    BY <2>0 DEF PendingKept
  <2>3. mgr[n].conn # None => mgr'[n].conn = mgr[n].conn
    BY DEF ConnectionsKept
  <2>. QED
    BY <2>0, <2>1, <2>2, <2>3, FitsOn
<1>. QED
  BY <1>2, <1>4, <1>5 DEF CopiesInv

\* A connection closes: no operation of it is left.
LEMMA Disconnects ==
  ASSUME NEW B, IsBatch(B), NEW C, C = Disconnected(B)
  PROVE  /\ IsBatch(C) /\ DOMAIN C = DOMAIN B
         /\ \A e \in DOMAIN B : \A r, x, y : Fits(B[e], r, x) => Fits(C[e], r, y)
<1>1. /\ C = [e \in DOMAIN B |-> [CallsBroken(B)[e] EXCEPT !.op = FALSE]]
  BY DEF Disconnected
<1>2. DOMAIN C = DOMAIN B /\ C = [e \in DOMAIN C |-> C[e]]
  BY <1>1
<1>3. ASSUME NEW e \in DOMAIN B
      PROVE  /\ IsCopy(C[e]) /\ C[e].build = B[e].build /\ C[e].by = B[e].by /\ C[e].op = FALSE
             /\ C[e].phase = "sealed" => B[e].phase = "sealed"
  <2>1. IsCopy(B[e])
    BY DEF IsBatch
  <2>2. PICK d : d = CallsBroken(B)[e]
    OBVIOUS
  <2>3. d = IF B[e].phase = "called" THEN [B[e] EXCEPT !.phase = "broken"] ELSE B[e]
    BY <2>2 DEF CallsBroken
  <2>4. /\ IsCopy(d) /\ d.build = B[e].build /\ d.by = B[e].by
        /\ d.phase = "sealed" => B[e].phase = "sealed"
    BY <2>1, <2>3 DEF IsCopy
  <2>5. C[e] = [d EXCEPT !.op = FALSE]
    BY <1>1, <2>2
  <2>. QED
    BY <2>4, <2>5 DEF IsCopy
<1>4. ASSUME NEW e \in DOMAIN B, NEW r, NEW x, NEW y, Fits(B[e], r, x) PROVE Fits(C[e], r, y)
  BY <1>3, <1>4 DEF Fits
<1>5. IsBatch(C)
  BY <1>2, <1>3 DEF IsBatch
<1>. QED
  BY <1>2, <1>4, <1>5

\* A manager loses its connection.
LEMMA CloseStep ==
  ASSUME QueueInv, UNCHANGED <<events, applied>>, NEW m \in Managers, OnClose(m)
  PROVE  QueueInv'
<1>1. RowsInv' /\ PendingKept
  BY RowsStay
<1>2. /\ mgr = [n \in Managers |-> mgr[n]] /\ \A n \in Managers : IsManager(mgr[n])
      /\ batch = [n \in Managers |-> batch[n]] /\ \A n \in Managers : IsBatch(batch[n])
      /\ \A n \in Managers : \A e \in DOMAIN batch[n] : Fits(batch[n][e], events[e], mgr[n].conn)
  BY DEF QueueInv, ManagersInv, CopiesInv
<1>3. /\ mgr' = [mgr EXCEPT ![m].conn = None] /\ batch' = [batch EXCEPT ![m] = Disconnected(batch[m])]
  BY DEF OnClose
<1>4. /\ batch' = [n \in Managers |-> batch'[n]] /\ batch'[m] = Disconnected(batch[m])
      /\ \A n \in Managers : n # m => batch'[n] = batch[n]
      /\ mgr' = [n \in Managers |-> mgr'[n]] /\ mgr'[m] = [mgr[m] EXCEPT !.conn = None]
      /\ \A n \in Managers : n # m => mgr'[n] = mgr[n]
  BY <1>2, <1>3
<1>5. ManagersInv'
  BY <1>2, <1>4 DEF ManagersInv, IsManager
<1>6. PICK B, C : B = batch[m] /\ C = batch'[m]
  OBVIOUS
<1>7. /\ IsBatch(C) /\ DOMAIN C = DOMAIN B
      /\ \A e \in DOMAIN B : \A r, x, y : Fits(B[e], r, x) => Fits(C[e], r, y)
  <2>1. C = Disconnected(B) /\ IsBatch(B)
    BY <1>2, <1>4, <1>6
  <2>. QED
    BY <2>1, Disconnects
<1>8. ASSUME NEW n \in Managers, NEW e \in DOMAIN batch'[n]
      PROVE  Fits(batch'[n][e], events'[e], mgr'[n].conn)
  <2>1. CASE n = m
    BY <1>2, <1>6, <1>7, <1>8, <2>1
  <2>2. CASE n # m
    BY <1>2, <1>4, <1>8, <2>2
  <2>. QED
    BY <2>1, <2>2
<1>9. \A n \in Managers : IsBatch(batch'[n])
  BY <1>2, <1>4, <1>6, <1>7
<1>. QED
  BY <1>1, <1>4, <1>5, <1>8, <1>9 DEF QueueInv, CopiesInv

\* The plugin process is replaced: every manager loses its connection.
LEMMA RedeployStep ==
  ASSUME QueueInv, NEW b, Redeploy(b)
  PROVE  QueueInv'
<1>1. /\ mgr' = [m \in Managers |-> [mgr[m] EXCEPT !.conn = None]]
      /\ batch' = [m \in Managers |-> Disconnected(batch[m])]
      /\ UNCHANGED <<events, applied>>
  BY DEF Redeploy, tableVars
<1>2. RowsInv'
  BY <1>1, RowsStay
<1>3. /\ \A n \in Managers : IsManager(mgr[n])
      /\ \A n \in Managers : IsBatch(batch[n])
      /\ \A n \in Managers : \A e \in DOMAIN batch[n] : Fits(batch[n][e], events[e], mgr[n].conn)
  BY DEF QueueInv, ManagersInv, CopiesInv
<1>4. ManagersInv'
  BY <1>1, <1>3 DEF ManagersInv, IsManager
<1>5. ASSUME NEW m \in Managers
      PROVE  /\ IsBatch(batch'[m])
             /\ \A e \in DOMAIN batch'[m] : Fits(batch'[m][e], events'[e], mgr'[m].conn)
  <2>1. PICK B, C : B = batch[m] /\ C = batch'[m]
    OBVIOUS
  <2>2. C = Disconnected(B) /\ IsBatch(B)
    BY <1>1, <1>3, <2>1
  <2>3. /\ IsBatch(C) /\ DOMAIN C = DOMAIN B
        /\ \A e \in DOMAIN B : \A r, x, y : Fits(B[e], r, x) => Fits(C[e], r, y)
    BY <2>2, Disconnects
  <2>. QED
    BY <1>1, <1>3, <2>1, <2>3
<1>. QED
  BY <1>1, <1>2, <1>4, <1>5 DEF QueueInv, CopiesInv

\* A connection opens, and a manifest is verified.
LEMMA ConnectionSteps ==
  ASSUME QueueInv, NEW m \in Managers,
         Handshake(m) \/ VerifyManifest(m) \/ ConnectionLost(m) \/ Stop(m) \/ Start(m)
  PROVE  QueueInv'
<1>0. mgr = [n \in Managers |-> mgr[n]] /\ \A n \in Managers : IsManager(mgr[n])
  BY DEF QueueInv, ManagersInv
<1>1. ASSUME UNCHANGED <<events, applied, batch>>, ManagersInv', ConnectionsKept PROVE QueueInv'
  BY <1>1, RowsStay, CopiesStay DEF QueueInv
<1>2. CASE Handshake(m)
  <2>1. UNCHANGED <<events, applied, batch>> /\ mgr[m].conn = None /\ mgr' = [mgr EXCEPT ![m].conn = plug]
    BY <1>2 DEF Handshake, tableVars
  <2>2. ManagersInv'
    BY <1>0, <2>1 DEF ManagersInv, IsManager
  <2>3. ConnectionsKept
    BY <1>0, <2>1 DEF ConnectionsKept, IsManager
  <2>. QED
    BY <1>1, <2>1, <2>2, <2>3
<1>3. CASE VerifyManifest(m)
  <2>1. CASE OnClose(m)
    BY <1>3, <2>1, CloseStep DEF VerifyManifest
  <2>2. CASE ~OnClose(m)
    <3>1. PICK b : b = mgr[m].conn
      OBVIOUS
    <3>2. /\ b # None /\ mgr' = [mgr EXCEPT ![m].catalog = @ \cup {b}]
          /\ UNCHANGED <<events, applied, batch>>
      BY <1>3, <2>2, <3>1 DEF VerifyManifest
    <3>3. ManagersInv'
      BY <1>0, <3>2 DEF ManagersInv, IsManager
    <3>4. ConnectionsKept
      BY <1>0, <3>2 DEF ConnectionsKept, IsManager
    <3>. QED
      BY <1>1, <3>2, <3>3, <3>4
  <2>. QED
    BY <2>1, <2>2
<1>4. CASE ConnectionLost(m)
  BY <1>4, CloseStep DEF ConnectionLost, tableVars
<1>5. CASE Stop(m)
  <2>1. UNCHANGED <<events, applied, batch>> /\ mgr' = [mgr EXCEPT ![m].stopping = TRUE]
    BY <1>5 DEF Stop, tableVars
  <2>2. ManagersInv'
    BY <1>0, <2>1 DEF ManagersInv, IsManager
  <2>3. ConnectionsKept
    BY <1>0, <2>1 DEF ConnectionsKept, IsManager
  <2>. QED
    BY <1>1, <2>1, <2>2, <2>3
<1>6. CASE Start(m)
  <2>1. PICK S : S = {snapshots[v] : v \in Versions} \ {None}
    OBVIOUS
  <2>2. /\ UNCHANGED <<events, applied, batch>> /\ mgr' = [mgr EXCEPT ![m].up = TRUE, ![m].catalog = S]
        /\ None \notin S
    BY <1>6, <2>1 DEF Start, tableVars
  <2>3. ManagersInv'
    BY <1>0, <2>2 DEF ManagersInv, IsManager
  <2>4. ConnectionsKept
    BY <1>0, <2>2 DEF ConnectionsKept, IsManager
  <2>. QED
    BY <1>1, <2>2, <2>3, <2>4
<1>. QED
  BY <1>2, <1>3, <1>4, <1>5, <1>6

\* A manager ends, in order or not.
LEMMA GoneStep ==
  ASSUME QueueInv, NEW m \in Managers, Crash(m) \/ Stopped(m)
  PROVE  QueueInv'
<1>1. UNCHANGED <<events, applied>> /\ Gone(m)
  BY DEF Crash, Stopped, tableVars
<1>2. RowsInv'
  BY <1>1, RowsStay
<1>3. /\ mgr = [n \in Managers |-> mgr[n]] /\ \A n \in Managers : IsManager(mgr[n])
      /\ batch = [n \in Managers |-> batch[n]] /\ \A n \in Managers : IsBatch(batch[n])
      /\ \A n \in Managers : \A e \in DOMAIN batch[n] : Fits(batch[n][e], events[e], mgr[n].conn)
  BY DEF QueueInv, ManagersInv, CopiesInv
<1>4. /\ batch' = [n \in Managers |-> batch'[n]] /\ batch'[m] = << >>
      /\ \A n \in Managers : n # m => batch'[n] = batch[n]
      /\ mgr' = [n \in Managers |-> mgr'[n]]
      /\ mgr'[m] = [up |-> FALSE, stopping |-> FALSE, conn |-> None, catalog |-> {}]
      /\ \A n \in Managers : n # m => mgr'[n] = mgr[n]
  BY <1>1, <1>3 DEF Gone
<1>5. ManagersInv'
  BY <1>3, <1>4 DEF ManagersInv, IsManager
<1>6. DOMAIN << >> = {} /\ << >> = [e \in {} |-> << >>[e]]
  OBVIOUS
<1>7. IsBatch(<< >>)
  BY <1>6 DEF IsBatch
<1>8. ASSUME NEW n \in Managers
      PROVE  IsBatch(batch'[n]) /\ \A e \in DOMAIN batch'[n] : Fits(batch'[n][e], events'[e], mgr'[n].conn)
  <2>1. CASE n = m
    BY <1>4, <1>6, <1>7, <2>1
  <2>2. CASE n # m
    BY <1>1, <1>3, <1>4, <2>2
  <2>. QED
    BY <2>1, <2>2
<1>. QED
  BY <1>2, <1>4, <1>5, <1>8 DEF QueueInv, CopiesInv

\* A batch is leased: each copy is of its row.
LEMMA ConsumeStep ==
  ASSUME QueueInv, NEW m \in Managers, ConsumeEvents(m)
  PROVE  QueueInv'
<1>1. PICK S, t : /\ S = {e \in Events : Leasable(e)}
                  /\ LeasePluginEvents(S, t)
                  /\ batch' = [batch EXCEPT ![m] = [e \in S |-> LeasedCopy(events[e], t[e])]]
  BY DEF ConsumeEvents
<1>2. UNCHANGED <<applied, mgr>>
  BY DEF ConsumeEvents
<1>3. /\ batch = [n \in Managers |-> batch[n]] /\ \A n \in Managers : IsBatch(batch[n])
      /\ \A e \in Events : IsRow(events[e])
  BY DEF QueueInv, CopiesInv, RowsInv
<1>4. events' = [e \in Events |-> IF e \in S THEN
                   [events[e] EXCEPT !.state = "leased", !.timer = TRUE,
                      !.attempts = events[e].attempts + 1, !.token = t[e]] ELSE events[e]]
  BY <1>1 DEF LeasePluginEvents
<1>5. ASSUME NEW e \in S PROVE e \in Events /\ events[e].state \in {"queued", "leased"}
  BY <1>1 DEF Leasable
<1>6. ASSUME NEW e \in Events PROVE RowGoes(events[e], events'[e])
  <2>1. CASE e \in S
    <3>1. events'[e] = [events[e] EXCEPT !.state = "leased", !.timer = TRUE,
                          !.attempts = events[e].attempts + 1, !.token = t[e]]
      BY <1>4, <2>1
    <3>2. events[e].state \in {"queued", "leased"}
      BY <1>5, <2>1
    <3>. QED
      BY <1>3, <3>1, <3>2 DEF RowGoes, IsRow
  <2>2. CASE e \notin S
    BY <1>3, <1>4, <2>2 DEF RowGoes
  <2>. QED
    BY <2>1, <2>2
<1>7. events' = [e \in Events |-> events'[e]]
  BY <1>4
<1>8. RowsInv' /\ PendingKept
  BY <1>2, <1>6, <1>7, RowsGo
<1>9. ManagersInv' /\ ConnectionsKept
  BY <1>2, ManagersStay
<1>10. /\ batch' = [n \in Managers |-> batch'[n]]
       /\ batch'[m] = [e \in S |-> LeasedCopy(events[e], t[e])]
       /\ \A n \in Managers : n # m => batch'[n] = batch[n]
  BY <1>1, <1>3
<1>11. ASSUME NEW e \in S
       PROVE  IsCopy(batch'[m][e]) /\ Fits(batch'[m][e], events'[e], mgr'[m].conn)
  <2>1. batch'[m][e] = LeasedCopy(events[e], t[e])
    BY <1>10
  <2>2. events'[e].build = events[e].build /\ events'[e].state # "absent"
    BY <1>5, <1>6 DEF RowGoes
  <2>3. batch'[m][e].build = events[e].build /\ batch'[m][e].phase = "waiting" /\ IsCopy(batch'[m][e])
    BY <2>1 DEF LeasedCopy, IsCopy
  <2>. QED
    BY <2>2, <2>3 DEF Fits
<1>12. IsBatch(batch'[m])
  BY <1>5, <1>10, <1>11 DEF IsBatch
<1>13. ASSUME NEW n \in Managers, NEW e \in DOMAIN batch'[n]
       PROVE  Fits(batch'[n][e], events'[e], mgr'[n].conn)
  <2>1. CASE n = m
    BY <1>10, <1>11, <2>1
  <2>2. CASE n # m
    <3>1. batch'[n] = batch[n]
      BY <1>10, <2>2
    <3>2. Fits(batch[n][e], events[e], mgr[n].conn)
      BY <3>1 DEF QueueInv, CopiesInv
    <3>3. events'[e].build = events[e].build /\ events'[e].state # "absent"
      BY <1>8, <3>1 DEF PendingKept
    <3>. QED
      BY <1>2, <3>1, <3>2, <3>3, FitsOn
  <2>. QED
    BY <2>1, <2>2
<1>14. \A n \in Managers : IsBatch(batch'[n])
  BY <1>3, <1>10, <1>12
<1>. QED
  BY <1>8, <1>9, <1>10, <1>13, <1>14 DEF QueueInv, CopiesInv

\* Leases are renewed, timers end, events are stored and purged.
LEMMA RowSteps ==
  ASSUME IInv, NEW e \in Events,
         (\E m \in Managers : RenewLeases(m)) \/ TimerEnds(e) \/ Ingest(e) \/ Purge(e)
  PROVE  QueueInv'
<1>0. /\ QueueInv /\ events = [x \in Events |-> events[x]]
      /\ \A x \in Events : IsRow(events[x]) /\ RowInv(events[x], applied[x])
      /\ applied \in [Events -> Nat]
  BY DEF IInv, QueueInv, RowsInv
<1>1. UNCHANGED <<applied, mgr, batch>>
  BY DEF RenewLeases, TimerEnds, Ingest, IngestDeviceEvent, Purge, PurgePluginData, managerVars
<1>2. ASSUME RowsInv', PendingKept PROVE QueueInv'
  BY <1>0, <1>1, <1>2, ManagersStay, CopiesStay DEF QueueInv
<1>3. CASE \E m \in Managers : RenewLeases(m)
  <2>1. PICK m \in Managers : RenewLeases(m)
    BY <1>3
  <2>2. PICK held : RenewPluginEventLeases(held)
    BY <2>1 DEF RenewLeases
  <2>3. events' = [x \in Events |-> IF x \in DOMAIN held /\ Holds(x, held[x])
                                    THEN [events[x] EXCEPT !.timer = TRUE] ELSE events[x]]
    BY <2>2 DEF RenewPluginEventLeases
  <2>4. \A x \in Events : RowGoes(events[x], events'[x])
    BY <1>0, <2>3 DEF RowGoes, IsRow
  <2>5. events' = [x \in Events |-> events'[x]]
    BY <2>3
  <2>. QED
    BY <1>0, <1>1, <1>2, <2>4, <2>5, RowsGo
<1>4. CASE TimerEnds(e)
  <2>1. events' = [events EXCEPT ![e].timer = FALSE]
    BY <1>4 DEF TimerEnds
  <2>2. /\ events' = [x \in Events |-> events'[x]] /\ events'[e] = [events[e] EXCEPT !.timer = FALSE]
        /\ \A x \in Events : x # e => events'[x] = events[x]
    BY <1>0, <2>1
  <2>3. \A x \in Events : RowGoes(events[x], events'[x])
    BY <1>0, <2>2 DEF RowGoes, IsRow
  <2>. QED
    BY <1>0, <1>1, <1>2, <2>2, <2>3, RowsGo
<1>5. ASSUME NEW r, events' = [events EXCEPT ![e] = r], IsRow(r), r.answeredBy = None, r.commands = 0,
             applied[e] = 1 => r.state = "purged",
             \A m \in Managers : e \notin DOMAIN batch[m]
      PROVE  QueueInv'
  <2>1. /\ events' = [x \in Events |-> events'[x]] /\ events'[e] = r
        /\ \A x \in Events : x # e => events'[x] = events[x]
    BY <1>0, <1>5
  <2>2. RowInv(r, applied[e])
    BY <1>0, <1>5 DEF RowInv
  <2>3. RowsInv'
    BY <1>0, <1>1, <1>5, <2>1, <2>2 DEF RowsInv
  <2>4. ASSUME NEW m \in Managers, NEW x \in DOMAIN batch[m]
        PROVE  events'[x].build = events[x].build /\ events'[x].state # "absent"
    <3>1. x \in Events /\ events[x].state # "absent"
      BY <1>0 DEF QueueInv, CopiesInv, IsBatch, Fits
    <3>2. x # e
      BY <1>5
    <3>. QED
      BY <2>1, <3>1, <3>2
  <2>. QED
    BY <1>2, <2>3, <2>4 DEF PendingKept
<1>6. CASE Ingest(e)
  <2>1. events[e].state = "absent"
    BY <1>6 DEF Ingest
  <2>2. PICK b, q : b = bindings[Source[e]] /\ q \in {"queued", "dead"} /\
          events' = [events EXCEPT ![e] = [NoRow EXCEPT
             !.state = q,
             !.inst = IF b = Unbound THEN None ELSE b.inst,
             !.build = IF b = Unbound THEN None ELSE installations[b.inst].build,
             !.profile = IF b = Unbound THEN None ELSE b.profile]]
    BY <1>6, <2>1 DEF Ingest, IngestDeviceEvent
  <2>3. PICK i, p, c : /\ i = (IF b = Unbound THEN None ELSE b.inst)
                       /\ p = (IF b = Unbound THEN None ELSE b.profile)
                       /\ c = (IF b = Unbound THEN None ELSE installations[b.inst].build)
    OBVIOUS
  <2>4. b \in Binding \cup {None}
    BY <2>2, EventsHaveSources DEF IInv, TablesInv
  <2>5. i \in Installations \cup {None} /\ p \in Profiles \cup {None}
    BY <2>3, <2>4 DEF Binding, Unbound
  <2>6. PICK r : r = [NoRow EXCEPT !.state = q, !.inst = i, !.build = c, !.profile = p]
    OBVIOUS
  <2>7. events' = [events EXCEPT ![e] = r]
    BY <2>2, <2>3, <2>6
  <2>8. IsRow(r) /\ r.answeredBy = None /\ r.commands = 0
    BY <2>5, <2>6 DEF NoRow, IsRow
  <2>9. applied[e] # 1
    BY <1>0, <2>1 DEF RowInv
  <2>10. \A m \in Managers : e \notin DOMAIN batch[m]
    BY <1>0, <2>1 DEF QueueInv, CopiesInv, Fits
  <2>. QED
    BY <1>5, <2>7, <2>8, <2>9, <2>10
<1>7. CASE Purge(e)
  <2>1. PICK r : r = [NoRow EXCEPT !.state = "purged"]
    OBVIOUS
  <2>2. events' = [events EXCEPT ![e] = r] /\ \A m \in Managers : e \notin DOMAIN batch[m]
    BY <1>7, <2>1 DEF Purge, PurgePluginData, Pending
  <2>3. IsRow(r) /\ r.answeredBy = None /\ r.commands = 0 /\ r.state = "purged"
    BY <2>1 DEF NoRow, IsRow
  <2>. QED
    BY <1>5, <2>2, <2>3
<1>. QED
  BY <1>3, <1>4, <1>6, <1>7

\* A dispatch, from the check of the connection to the seal.
LEMMA DispatchSteps ==
  ASSUME QueueInv, NEW m \in Managers, NEW e \in Events,
         \/ DispatchEvent(m, e) \/ Request(m, e) \/ HandlerSettles(m, e) \/ RequestBreaks(m, e)
         \/ SealOperation(m, e) \/ StageCommand(m, e) \/ RequestTimesOut(m, e)
  PROVE  QueueInv'
<1>1. UNCHANGED <<events, applied>> /\ e \in DOMAIN batch[m]
  BY DEF DispatchEvent, MayDispatch, Request, HandlerSettles, RequestBreaks, SealOperation,
         StageCommand, RequestTimesOut, tableVars, Pending
<1>2. RowsInv' /\ PendingKept
  BY <1>1, RowsStay
<1>3. PICK c : c = batch[m][e]
  OBVIOUS
<1>4. /\ IsCopy(c) /\ Fits(c, events[e], mgr[m].conn) /\ mgr = [n \in Managers |-> mgr[n]]
      /\ \A n \in Managers : IsManager(mgr[n])
  BY <1>1, <1>3 DEF QueueInv, ManagersInv, CopiesInv, IsBatch
<1>5. ASSUME ManagersInv', ConnectionsKept, NEW permanent, NEW consume, GivesUp(m, e, permanent, consume)
      PROVE  QueueInv'
  BY <1>1, <1>2, <1>5, CopyGivesUp DEF QueueInv
<1>6. ASSUME ManagersInv', ConnectionsKept, NEW d, Moves(m, e, d), IsCopy(d),
             Fits(d, events[e], mgr'[m].conn)
      PROVE  QueueInv'
  BY <1>1, <1>2, <1>6, CopyMoves DEF QueueInv
<1>7. ASSUME UNCHANGED mgr PROVE ManagersInv' /\ ConnectionsKept
  BY <1>7, ManagersStay
<1>8. CASE DispatchEvent(m, e)
  <2>1. UNCHANGED mgr
    BY <1>8 DEF DispatchEvent
  <2>2. CASE \E permanent, consume : GivesUp(m, e, permanent, consume)
    BY <1>5, <1>7, <2>1, <2>2
  <2>3. CASE ~\E permanent, consume : GivesUp(m, e, permanent, consume)
    <3>1. /\ mgr[m].conn = c.build /\ c.build \in mgr[m].catalog
          /\ Moves(m, e, [batch[m][e] EXCEPT !.phase = "bound", !.op = TRUE])
      BY <1>3, <1>8, <2>3 DEF DispatchEvent, ManagerDefers
    <3>2. PICK d : d = [c EXCEPT !.phase = "bound", !.op = TRUE]
      OBVIOUS
    <3>3. IsCopy(d) /\ d.build = c.build /\ d.phase = "bound"
      BY <1>4, <3>2 DEF IsCopy
    <3>4. mgr[m].conn # None
      BY <1>4, <3>1 DEF IsManager
    <3>5. Fits(d, events[e], mgr'[m].conn)
      BY <1>4, <2>1, <3>1, <3>3, <3>4 DEF Fits
    <3>. QED
      BY <1>3, <1>6, <1>7, <2>1, <3>1, <3>2, <3>3, <3>5
  <2>. QED
    BY <2>2, <2>3
<1>9. CASE Request(m, e)
  <2>1. PICK b : b = IF mgr[m].conn = None THEN plug ELSE mgr[m].conn
    OBVIOUS
  <2>2. /\ c.phase = "bound" /\ mgr' = [mgr EXCEPT ![m].conn = b]
        /\ \/ Moves(m, e, [batch[m][e] EXCEPT !.phase = "called", !.by = b])
           \/ \E permanent, consume : GivesUp(m, e, permanent, consume)
    BY <1>3, <1>9, <2>1 DEF Request, PluginFails, Phase
  <2>3. /\ mgr' = [n \in Managers |-> mgr'[n]] /\ mgr'[m] = [mgr[m] EXCEPT !.conn = b]
        /\ \A n \in Managers : n # m => mgr'[n] = mgr[n]
    BY <1>4, <2>2
  <2>4. ManagersInv'
    BY <1>4, <2>3 DEF ManagersInv, IsManager
  <2>5. ConnectionsKept
    BY <1>4, <2>1, <2>3 DEF ConnectionsKept, IsManager
  <2>6. CASE Moves(m, e, [batch[m][e] EXCEPT !.phase = "called", !.by = b])
    <3>1. PICK d : d = [c EXCEPT !.phase = "called", !.by = b]
      OBVIOUS
    <3>2. IsCopy(d) /\ d.build = c.build /\ d.phase = "called" /\ d.by = b /\ d.op = c.op
      BY <1>4, <3>1 DEF IsCopy
    <3>3. c.op => b = c.build
      BY <1>4, <2>1, <2>2 DEF Fits
    <3>4. Fits(d, events[e], mgr'[m].conn)
      BY <1>4, <3>2, <3>3 DEF Fits
    <3>. QED
      BY <1>3, <1>6, <2>4, <2>5, <2>6, <3>1, <3>2, <3>4
  <2>7. CASE \E permanent, consume : GivesUp(m, e, permanent, consume)
    BY <1>5, <2>4, <2>5, <2>7
  <2>. QED
    BY <2>2, <2>6, <2>7
<1>10. CASE HandlerSettles(m, e)
  <2>1. UNCHANGED mgr /\ c.phase = "called"
    BY <1>3, <1>10 DEF HandlerSettles, Phase
  <2>2. CASE Moves(m, e, [batch[m][e] EXCEPT !.phase = "answered"])
    <3>1. PICK d : d = [c EXCEPT !.phase = "answered"]
      OBVIOUS
    <3>2. IsCopy(d) /\ d.build = c.build /\ d.phase = "answered" /\ d.by = c.by /\ d.op = c.op
      BY <1>4, <3>1 DEF IsCopy
    <3>3. Fits(d, events[e], mgr'[m].conn)
      BY <1>4, <2>1, <3>2 DEF Fits
    <3>. QED
      BY <1>3, <1>6, <1>7, <2>1, <2>2, <3>1, <3>2, <3>3
  <2>3. CASE \E permanent, consume : GivesUp(m, e, permanent, consume)
    BY <1>5, <1>7, <2>1, <2>3
  <2>. QED
    BY <1>10, <2>2, <2>3 DEF HandlerSettles, PluginFails
<1>11. CASE RequestBreaks(m, e) \/ RequestTimesOut(m, e)
  <2>1. UNCHANGED mgr /\ \E permanent, consume : GivesUp(m, e, permanent, consume)
    BY <1>11 DEF RequestBreaks, RequestTimesOut, PluginFails
  <2>. QED
    BY <1>5, <1>7, <2>1
<1>12. CASE SealOperation(m, e)
  <2>1. UNCHANGED mgr /\ c.phase = "answered"
    BY <1>3, <1>12 DEF SealOperation, Phase
  <2>2. CASE c.op /\ Moves(m, e, [batch[m][e] EXCEPT !.phase = "sealed"])
    <3>1. PICK d : d = [c EXCEPT !.phase = "sealed"]
      OBVIOUS
    <3>2. IsCopy(d) /\ d.build = c.build /\ d.phase = "sealed" /\ d.by = c.by
      BY <1>4, <3>1 DEF IsCopy
    <3>3. Fits(d, events[e], mgr'[m].conn)
      BY <1>4, <2>1, <2>2, <3>2 DEF Fits
    <3>. QED
      BY <1>3, <1>6, <1>7, <2>1, <2>2, <3>1, <3>2, <3>3
  <2>3. CASE \E permanent, consume : GivesUp(m, e, permanent, consume)
    BY <1>5, <1>7, <2>1, <2>3
  <2>. QED
    BY <1>3, <1>12, <2>2, <2>3 DEF SealOperation, PluginFails
<1>13. CASE StageCommand(m, e)
  <2>1. PICK x : batch' = [batch EXCEPT ![m][e].staged = x]
    BY <1>13 DEF StageCommand
  <2>2. PICK d : d = [c EXCEPT !.staged = x]
    OBVIOUS
  <2>3. Moves(m, e, d)
    BY <1>3, <2>1, <2>2 DEF Moves
  <2>4. IsCopy(d) /\ d.build = c.build /\ d.phase = c.phase /\ d.by = c.by /\ d.op = c.op
    BY <1>4, <2>2 DEF IsCopy
  <2>5. UNCHANGED mgr
    BY <1>13 DEF StageCommand
  <2>6. Fits(d, events[e], mgr'[m].conn)
    BY <1>4, <2>4, <2>5 DEF Fits
  <2>. QED
    BY <1>6, <1>7, <2>3, <2>4, <2>5, <2>6
<1>. QED
  BY <1>8, <1>9, <1>10, <1>11, <1>12, <1>13

\* A completion is the holder's, of an event that had no effect yet, with the
\* answer of the event's build.
LEMMA CompleteStep ==
  ASSUME QueueInv, NEW m \in Managers, NEW e \in Events, CompleteWithUpdates(m, e)
  PROVE  QueueInv'
<1>1. PICK c : c = batch[m][e]
  OBVIOUS
<1>2. e \in DOMAIN batch[m] /\ c.phase = "sealed" /\ UNCHANGED mgr
  BY <1>1 DEF CompleteWithUpdates, Pending
<1>3. ManagersInv' /\ ConnectionsKept
  BY <1>2, ManagersStay
<1>4. /\ Fits(c, events[e], mgr[m].conn) /\ events = [x \in Events |-> events[x]]
      /\ applied \in [Events -> Nat]
      /\ \A x \in Events : IsRow(events[x]) /\ RowInv(events[x], applied[x])
  BY <1>1, <1>2 DEF QueueInv, RowsInv, CopiesInv
<1>5. CASE UNCHANGED tableVars /\ (Drop(m, e) \/ \E permanent, consume : GivesUp(m, e, permanent, consume))
  <2>1. RowsInv' /\ PendingKept
    BY <1>5, RowsStay DEF tableVars
  <2>2. CASE Drop(m, e)
    BY <1>3, <2>1, <2>2, CopyDrops DEF QueueInv
  <2>3. CASE \E permanent, consume : GivesUp(m, e, permanent, consume)
    BY <1>2, <1>3, <2>1, <2>3, CopyGivesUp DEF QueueInv
  <2>. QED
    BY <1>5, <2>2, <2>3
<1>6. ASSUME NEW U, NEW n \in {0, 1}, Holds(e, c.token), CompletePluginEvent(e, U, n, c.by), Drop(m, e)
      PROVE  QueueInv'
  <2>1. PICK k \in {0, 1} : k = IF SnapshotIsCurrent(e) THEN n ELSE 0
    OBVIOUS
  <2>2. /\ events' = [events EXCEPT ![e].state = "completed", ![e].token = None, ![e].timer = FALSE,
                        ![e].answeredBy = c.by, ![e].commands = @ + k]
        /\ applied' = [applied EXCEPT ![e] = @ + 1]
    BY <1>6, <2>1 DEF CompletePluginEvent
  <2>3. /\ events' = [x \in Events |-> events'[x]]
        /\ events'[e] = [events[e] EXCEPT !.state = "completed", !.token = None, !.timer = FALSE,
                           !.answeredBy = c.by, !.commands = events[e].commands + k]
        /\ \A x \in Events : x # e => events'[x] = events[x]
    BY <1>4, <2>2
  <2>4. /\ IsRow(events'[e]) /\ events'[e].state = "completed" /\ events'[e].answeredBy = c.by
        /\ events'[e].build = events[e].build /\ events'[e].commands = events[e].commands + k
    BY <1>4, <2>3 DEF IsRow
  <2>5. c.by = events[e].build
    BY <1>2, <1>4 DEF Fits
  <2>6. events[e].state = "leased"
    BY <1>6 DEF Holds
  <2>7. applied[e] = 0 /\ events[e].commands = 0
    BY <1>4, <2>6 DEF RowInv, IsRow
  <2>8. /\ applied' \in [Events -> Nat] /\ applied'[e] = 1
        /\ \A x \in Events : x # e => applied'[x] = applied[x]
    BY <1>4, <2>2, <2>7
  <2>9. RowInv(events'[e], applied'[e])
    BY <2>4, <2>5, <2>8 DEF RowInv
  <2>10. RowsInv'
    BY <1>4, <2>3, <2>4, <2>8, <2>9 DEF RowsInv
  <2>11. ASSUME NEW h \in Managers, NEW x \in DOMAIN batch[h]
         PROVE  events'[x].build = events[x].build /\ events'[x].state # "absent"
    <3>1. x \in Events /\ events[x].state # "absent"
      BY DEF QueueInv, CopiesInv, IsBatch, Fits
    <3>. QED
      BY <2>3, <2>4, <3>1
  <2>12. PendingKept
    BY <2>11 DEF PendingKept
  <2>. QED
    BY <1>3, <1>6, <2>10, <2>12, CopyDrops DEF QueueInv
<1>7. CASE ~(UNCHANGED tableVars /\ (Drop(m, e) \/ \E permanent, consume : GivesUp(m, e, permanent, consume)))
  <2>1. PICK n \in {0, 1} : n = IF batch[m][e].op /\ batch[m][e].staged = "done" THEN 1 ELSE 0
    OBVIOUS
  <2>2. PICK U : /\ Holds(e, c.token) /\ Drop(m, e)
                 /\ CompletePluginEvent(e, U, n, c.by)
    BY <1>1, <1>7, <2>1 DEF CompleteWithUpdates
  <2>. QED
    BY <1>6, <2>2
<1>. QED
  BY <1>5, <1>7

\* A release changes the row only for the holder of its lease.
LEMMA ReleaseStep ==
  ASSUME QueueInv, NEW m \in Managers, NEW e \in Events, ReleaseEvent(m, e)
  PROVE  QueueInv'
<1>1. UNCHANGED <<applied, mgr>> /\ Drop(m, e)
  BY DEF ReleaseEvent
<1>2. ManagersInv' /\ ConnectionsKept
  BY <1>1, ManagersStay
<1>3. RowsInv' /\ PendingKept
  <2>1. CASE UNCHANGED events
    BY <1>1, <2>1, RowsStay
  <2>2. CASE ~UNCHANGED events
    <3>1. PICK t, p, c : ReleasePluginEvent(e, t, p, c)
      BY <2>2 DEF ReleaseEvent
    <3>2. Holds(e, t)
      BY <2>2, <3>1 DEF ReleasePluginEvent
    <3>2a. PICK q \in {"dead", "queued"} : \E y, a :
            events' = [events EXCEPT ![e].state = q, ![e].token = None, ![e].timer = y, ![e].attempts = a]
      BY <3>1, <3>2 DEF ReleasePluginEvent
    <3>3. PICK y, a :
            events' = [events EXCEPT ![e].state = q, ![e].token = None, ![e].timer = y, ![e].attempts = a]
      BY <3>2a
    <3>4. events = [x \in Events |-> events[x]] /\ \A x \in Events : IsRow(events[x])
      BY DEF QueueInv, RowsInv
    <3>5. /\ events' = [x \in Events |-> events'[x]]
          /\ events'[e] = [events[e] EXCEPT !.state = q, !.token = None, !.timer = y, !.attempts = a]
          /\ \A x \in Events : x # e => events'[x] = events[x]
      BY <3>3, <3>4
    <3>6. events[e].state = "leased"
      BY <3>2 DEF Holds
    <3>7. RowGoes(events[e], events'[e])
      BY <3>4, <3>5, <3>6 DEF RowGoes, IsRow
    <3>8. \A x \in Events : RowGoes(events[x], events'[x])
      BY <3>4, <3>5, <3>7 DEF RowGoes
    <3>. QED
      BY <1>1, <3>5, <3>8, RowsGo
  <2>. QED
    BY <2>1, <2>2
<1>. QED
  BY <1>1, <1>2, <1>3, CopyDrops DEF QueueInv

\* Nothing that the queue consists of changes.
LEMMA QueueStays ==
  ASSUME QueueInv, UNCHANGED <<events, applied, mgr, batch>>
  PROVE  QueueInv'
  BY DEF QueueInv, RowsInv, ManagersInv, CopiesInv

\* Every step keeps the queue.
LEMMA QueueStep ==
  ASSUME IInv, [Next]_vars
  PROVE  QueueInv'
<1>. USE DEF IInv
<1>1. ASSUME NEW m \in Managers, NEW e \in Events,
             DispatchStep(m, e) \/ StageCommand(m, e) \/ RequestTimesOut(m, e)
      PROVE  QueueInv'
  BY <1>1, DispatchSteps, CompleteStep, ReleaseStep DEF DispatchStep
<1>2. ASSUME NEW m \in Managers, NEW i \in Installations, CircuitCools(m, i) \/ PruneCircuits(m, i)
      PROVE  QueueInv'
  BY <1>2, QueueStays DEF CircuitCools, PruneCircuits, tableVars
<1>3. ASSUME NEW m \in Managers,
             Handshake(m) \/ VerifyManifest(m) \/ ConnectionLost(m) \/ Stop(m) \/ Start(m)
      PROVE  QueueInv'
  BY <1>3, ConnectionSteps
<1>4. ASSUME NEW m \in Managers, ConsumeEvents(m) \/ Crash(m) \/ Stopped(m) PROVE QueueInv'
  BY <1>4, ConsumeStep, GoneStep
<1>5. ASSUME NEW m \in Managers, RenewLeases(m) PROVE QueueInv'
  <2>1. CASE Events = {}
    <3>1. Pending(m) = {}
      BY <2>1 DEF QueueInv, CopiesInv, IsBatch, Pending
    <3>. QED
      BY <1>5, <3>1 DEF RenewLeases
  <2>2. CASE Events # {}
    BY <1>5, <2>2, RowSteps
  <2>. QED
    BY <2>1, <2>2
<1>6. ASSUME NEW m \in Managers, Lifecycle(m) PROVE QueueInv'
  <2>1. UNCHANGED <<events, applied>>
    BY <1>6 DEF Lifecycle, CreateInstallation, BindDevice, SetInstallationState,
                MigrateInstallation, ReconcileInstallation, Reregister
  <2>2. UNCHANGED <<mgr, batch>>
    BY <1>6 DEF Lifecycle
  <2>. QED
    BY <2>1, <2>2, QueueStays
<1>7. ASSUME NEW e \in Events, TimerEnds(e) \/ Ingest(e) \/ Purge(e) PROVE QueueInv'
  BY <1>7, RowSteps
<1>8. ASSUME NEW b \in Deployed, Redeploy(b) PROVE QueueInv'
  BY <1>8, RedeployStep
<1>9. CASE OrphanSettles
  BY <1>9, QueueStays DEF OrphanSettles, tableVars
<1>10. CASE UNCHANGED vars
  BY <1>10, QueueStays DEF vars, tableVars, managerVars
<1>. QED
  BY <1>1, <1>2, <1>3, <1>4, <1>5, <1>6, <1>7, <1>8, <1>9, <1>10 DEF Next

-----------------------------------------------------------------------------
(* The theorems *)

\* The inductive invariant: what is bound is in force, values are readable,
\* and a dispatch knows the build of its event and of its connection.
THEOREM PluginsInvariant == Spec => []IInv
<1>1. Init => IInv
  <2>. SUFFICES ASSUME Init PROVE IInv
    OBVIOUS
  <2>1. TablesInv
    <3>1. /\ installations = [i \in Installations |-> [state |-> "absent", build |-> None]]
          /\ bindings = [d \in Devices |-> None] /\ descriptors = {} /\ states = {}
      BY DEF Init, TablesInit, NoRowsInit, Unbound
    <3>2. /\ installations \in [Installations -> InstallationRow]
          /\ \A i \in Installations : installations[i].state # "absent" => installations[i].build \in Builds
      BY <3>1 DEF InstallationRow
    <3>3. Descriptors(descriptors) /\ Readable(states, bindings, descriptors)
      BY <3>1 DEF Descriptors, Readable
    <3>4. ASSUME NEW i \in Installations, NEW p \in Profiles, Bound(bindings, i, p) PROVE FALSE
      <4>1. None = [inst |-> i, profile |-> p]
        BY <3>1, <3>4 DEF Bound
      <4>2. [inst |-> i, profile |-> p] \in [inst : Installations \cup {None}, profile : Profiles \cup {None}]
        OBVIOUS
      <4>. QED
        BY <4>1, <4>2, NoneIsNoBinding
    <3>. QED
      BY <3>1, <3>2, <3>3, <3>4 DEF TablesInv, InForceWhereBound
  <2>2. RowsInv
    <3>1. events = [e \in Events |-> NoRow] /\ applied = [e \in Events |-> 0]
      BY DEF Init, TablesInit, NoRowsInit
    <3>2. IsRow(NoRow) /\ RowInv(NoRow, 0)
      BY DEF NoRow, IsRow, RowInv
    <3>. QED
      BY <3>1, <3>2 DEF RowsInv
  <2>3. ManagersInv
    BY DEF Init, ManagersInv, IsManager
  <2>4. CopiesInv
    <3>1. batch = [m \in Managers |-> << >>]
      BY DEF Init, IdleInit
    <3>2. DOMAIN << >> = {} /\ << >> = [e \in {} |-> << >>[e]]
      OBVIOUS
    <3>3. IsBatch(<< >>)
      BY <3>2 DEF IsBatch
    <3>. QED
      BY <3>1, <3>2, <3>3 DEF CopiesInv
  <2>. QED
    BY <2>1, <2>2, <2>3, <2>4 DEF IInv, QueueInv
<1>2. IInv /\ [Next]_vars => IInv'
  BY TablesStep, QueueStep DEF IInv
<1>. QED
  BY <1>1, <1>2, PTL DEF Spec

\* Every current value has a row in force that describes it, for the profile
\* its device is bound to now, with the shape it was written with.
THEOREM ValuesAreReadable == Spec => []StatesReadable
<1>1. IInv => StatesReadable
  BY DEF IInv, TablesInv, Readable, StatesReadable
<1>. QED
  BY <1>1, PluginsInvariant, PTL

\* An event's updates and commands are committed at most once, and with its
\* completion.
THEOREM EventsTakeEffectOnce == Spec => []EffectsOnce
<1>1. IInv => EffectsOnce
  BY DEF IInv, QueueInv, RowsInv, RowInv, EffectsOnce
<1>. QED
  BY <1>1, PluginsInvariant, PTL

\* A completed event was answered by the build it was routed to.
THEOREM AnswersAreTheBuilds == Spec => []AnsweredByItsBuild
<1>1. IInv => AnsweredByItsBuild
  BY DEF IInv, QueueInv, RowsInv, RowInv, AnsweredByItsBuild
<1>. QED
  BY <1>1, PluginsInvariant, PTL

=============================================================================
