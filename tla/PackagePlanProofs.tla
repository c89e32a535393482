------------------------- MODULE PackagePlanProofs -------------------------
(***************************************************************************)
(* Proofs about PackagePlan for every package and any number of            *)
(* operations.                                                             *)
(***************************************************************************)
EXTENDS PackagePlan, TLAPS

(***************************************************************************)
(* Names and maps                                                          *)
(***************************************************************************)
LEMMA Distinct ==
    /\ Package \notin Parts
    /\ Sheet # CalcChain /\ Workbook # CalcChain /\ Sheet # Workbook
    /\ Sheet \notin {Core, App} /\ CalcChain \notin {Core, App}
    /\ Workbook \notin {Core, App} /\ Core # App
<1> DEFINE owners == <<Package, Workbook, Sheet, CalcChain, Core, App, Media>>
<1>1. \A i, j \in 1..7 : owners[i] = owners[j] => i = j
  BY PartsAssumption
<1>2. /\ owners[1] = Package /\ owners[2] = Workbook /\ owners[3] = Sheet
      /\ owners[4] = CalcChain /\ owners[5] = Core /\ owners[6] = App /\ owners[7] = Media
  OBVIOUS
<1> HIDE DEF owners
<1>3. \A i, j \in 1..7 : i # j => owners[i] # owners[j]
  BY <1>1
<1> QED
  BY <1>2, <1>3 DEF Parts

LEMMA PartEntryInjective == \A p, q : PartEntry(p) = PartEntry(q) => p = q
BY DEF PartEntry

LEMMA RelsEntryInjective == \A p, q : RelsEntry(p) = RelsEntry(q) => p = q
BY DEF RelsEntry

LEMMA EntryKindsDiffer ==
    \A p, q : PartEntry(p) # RelsEntry(q) /\ PartEntry(p) # TypesEntry /\ RelsEntry(q) # TypesEntry
BY DEF PartEntry, RelsEntry, TypesEntry

LEMMA WithDomain == \A f, x, v : DOMAIN With(f, x, v) = DOMAIN f \cup {x}
BY DEF With

LEMMA WithNew == \A f, x, v : With(f, x, v)[x] = v
BY DEF With

LEMMA WithOld == \A f, x, v : \A y \in DOMAIN f : y # x => With(f, x, v)[y] = f[y]
BY DEF With

LEMMA WithoutDomain == \A f, x : DOMAIN Without(f, x) = DOMAIN f \ {x}
BY DEF Without

LEMMA WithoutOld == \A f, x : \A y \in DOMAIN f : y # x => Without(f, x)[y] = f[y]
BY DEF Without

(***************************************************************************)
(* Relationships by owner                                                  *)
(***************************************************************************)
LEMMA OtherLinksAdded ==
    ASSUME NEW links, NEW more, NEW o, NEW p, o # p
    PROVE  LinksOf(links \cup LinksOf(more, p), o) = LinksOf(links, o)
BY DEF LinksOf

LEMMA OwnLinksAdded ==
    ASSUME NEW links, NEW more, NEW p, LinksOf(links, p) = {}
    PROVE  LinksOf(links \cup LinksOf(more, p), p) = LinksOf(more, p)
BY DEF LinksOf

LEMMA OtherLinksRemoved ==
    ASSUME NEW links, NEW o, NEW p, o # p
    PROVE  LinksOf(links \ LinksOf(links, p), o) = LinksOf(links, o)
BY DEF LinksOf

LEMMA OwnLinksRemoved ==
    ASSUME NEW links, NEW p
    PROVE  LinksOf(links \ LinksOf(links, p), p) = {}
BY DEF LinksOf

(***************************************************************************)
(* What metadata entries e over the source s say: the content types, and   *)
(* the relationships of an owner.                                          *)
(***************************************************************************)
TypesIn(s, e) == IF TypesEntry \in DOMAIN e THEN e[TypesEntry] ELSE s.overrides

LinksIn(s, e, o) == IF RelsEntry(o) \in DOMAIN e THEN e[RelsEntry(o)] ELSE LinksOf(s.links, o)

\* The entries e2 say the same as e of every relationship, and ov of types.
SameLinks(s, e, e2) ==
    /\ \A o : LinksIn(s, e2, o) = LinksIn(s, e, o)
    /\ \A o : RelsEntry(o) \in DOMAIN e2 <=> RelsEntry(o) \in DOMAIN e
    /\ DOMAIN e2 \subseteq DOMAIN e \cup {TypesEntry}

Retypes(s, e, e2, ov) == TypesIn(s, e2) = ov /\ SameLinks(s, e, e2)

\* The entries e2 say nothing of p any more, and ov of types.
Forgets(s, e, e2, p, ov) ==
    /\ TypesIn(s, e2) = ov
    /\ \A o : o # p => LinksIn(s, e2, o) = LinksIn(s, e, o)
    /\ \A o : RelsEntry(o) \in DOMAIN e2 <=> o # p /\ RelsEntry(o) \in DOMAIN e
    /\ DOMAIN e2 \subseteq DOMAIN e \cup {TypesEntry}

LEMMA KeepingRetypes ==
    ASSUME NEW s, NEW e
    PROVE  Retypes(s, e, e, TypesIn(s, e))
BY DEF Retypes, SameLinks

LEMMA WithTypesRetypes ==
    ASSUME NEW s, NEW e, NEW ov
    PROVE  Retypes(s, e, With(e, TypesEntry, ov), ov)
<1> DEFINE e2 == With(e, TypesEntry, ov)
<1>1. DOMAIN e2 = DOMAIN e \cup {TypesEntry}
  BY WithDomain
<1>2. e2[TypesEntry] = ov
  BY WithNew
<1>3. TypesIn(s, e2) = ov
  BY <1>1, <1>2 DEF TypesIn
<1>4. ASSUME NEW o
      PROVE  /\ LinksIn(s, e2, o) = LinksIn(s, e, o)
             /\ RelsEntry(o) \in DOMAIN e2 <=> RelsEntry(o) \in DOMAIN e
  <2>1. RelsEntry(o) \in DOMAIN e2 <=> RelsEntry(o) \in DOMAIN e
    BY <1>1, EntryKindsDiffer
  <2>2. RelsEntry(o) \in DOMAIN e => e2[RelsEntry(o)] = e[RelsEntry(o)]
    BY WithOld, EntryKindsDiffer
  <2> QED
    BY <2>1, <2>2 DEF LinksIn
<1> HIDE DEF e2
<1>5. Retypes(s, e, e2, ov)
  BY <1>1, <1>3, <1>4 DEF Retypes, SameLinks
<1> QED
  BY <1>5 DEF e2

LEMMA WithoutTypesRetypes ==
    ASSUME NEW s, NEW e
    PROVE  Retypes(s, e, Without(e, TypesEntry), s.overrides)
<1> DEFINE e2 == Without(e, TypesEntry)
<1>1. DOMAIN e2 = DOMAIN e \ {TypesEntry}
  BY WithoutDomain
<1>2. TypesIn(s, e2) = s.overrides
  BY <1>1 DEF TypesIn
<1>3. ASSUME NEW o
      PROVE  /\ LinksIn(s, e2, o) = LinksIn(s, e, o)
             /\ RelsEntry(o) \in DOMAIN e2 <=> RelsEntry(o) \in DOMAIN e
  <2>1. RelsEntry(o) \in DOMAIN e2 <=> RelsEntry(o) \in DOMAIN e
    BY <1>1, EntryKindsDiffer
  <2>2. RelsEntry(o) \in DOMAIN e => e2[RelsEntry(o)] = e[RelsEntry(o)]
    BY WithoutOld, EntryKindsDiffer
  <2> QED
    BY <2>1, <2>2 DEF LinksIn
<1> HIDE DEF e2
<1>4. Retypes(s, e, e2, s.overrides)
  BY <1>1, <1>2, <1>3 DEF Retypes, SameLinks
<1> QED
  BY <1>4 DEF e2

\* Updating an existing content-types entry changes no relationships and
\* leaves the types of m behind.
LEMMA SyncedSameLinks ==
    ASSUME NEW e, NEW m
    PROVE  SameLinks(source, e, SyncedTypes(e, m))
<1>1. CASE TypesEntry \notin DOMAIN e
  BY <1>1 DEF SyncedTypes, SameLinks
<1>2. CASE TypesEntry \in DOMAIN e /\ m.overrides = source.overrides
  <2>1. SyncedTypes(e, m) = Without(e, TypesEntry)
    BY <1>2 DEF SyncedTypes
  <2> QED
    BY <2>1, WithoutTypesRetypes DEF Retypes
<1>3. CASE TypesEntry \in DOMAIN e /\ m.overrides # source.overrides
  <2>1. SyncedTypes(e, m) = With(e, TypesEntry, m.overrides)
    BY <1>3 DEF SyncedTypes
  <2> QED
    BY <2>1, WithTypesRetypes DEF Retypes
<1> QED
  BY <1>1, <1>2, <1>3

LEMMA SyncedRetypes ==
    ASSUME NEW e, NEW m, TypesEntry \notin DOMAIN e => m.overrides = source.overrides
    PROVE  Retypes(source, e, SyncedTypes(e, m), m.overrides)
<1>1. CASE TypesEntry \notin DOMAIN e
  <2>1. SyncedTypes(e, m) = e /\ TypesIn(source, e) = m.overrides
    BY <1>1 DEF SyncedTypes, TypesIn
  <2> QED
    BY <2>1, KeepingRetypes
<1>2. CASE TypesEntry \in DOMAIN e /\ m.overrides = source.overrides
  <2>1. SyncedTypes(e, m) = Without(e, TypesEntry)
    BY <1>2 DEF SyncedTypes
  <2> QED
    BY <1>2, <2>1, WithoutTypesRetypes
<1>3. CASE TypesEntry \in DOMAIN e /\ m.overrides # source.overrides
  <2>1. SyncedTypes(e, m) = With(e, TypesEntry, m.overrides)
    BY <1>3 DEF SyncedTypes
  <2> QED
    BY <2>1, WithTypesRetypes
<1> QED
  BY <1>1, <1>2, <1>3

\* A new relationships entry says what is put into it, and of nothing else.
LEMMA WithLinksTypes ==
    ASSUME NEW s, NEW e, NEW p, NEW links
    PROVE  TypesIn(s, With(e, RelsEntry(p), links)) = TypesIn(s, e)
<1> DEFINE e2 == With(e, RelsEntry(p), links)
<1>1. DOMAIN e2 = DOMAIN e \cup {RelsEntry(p)}
  BY WithDomain
<1>2. TypesEntry \in DOMAIN e => e2[TypesEntry] = e[TypesEntry]
  BY WithOld, EntryKindsDiffer
<1>3. TypesEntry \in DOMAIN e2 <=> TypesEntry \in DOMAIN e
  BY <1>1, EntryKindsDiffer
<1> QED
  BY <1>2, <1>3 DEF TypesIn

LEMMA WithOwnLinks ==
    ASSUME NEW s, NEW e, NEW p, NEW links
    PROVE  LinksIn(s, With(e, RelsEntry(p), links), p) = links
<1> DEFINE e2 == With(e, RelsEntry(p), links)
<1>1. DOMAIN e2 = DOMAIN e \cup {RelsEntry(p)}
  BY WithDomain
<1>2. e2[RelsEntry(p)] = links
  BY WithNew
<1> QED
  BY <1>1, <1>2 DEF LinksIn

LEMMA WithOtherLinks ==
    ASSUME NEW s, NEW e, NEW p, NEW links, NEW o, o # p
    PROVE  LinksIn(s, With(e, RelsEntry(p), links), o) = LinksIn(s, e, o)
<1> DEFINE e2 == With(e, RelsEntry(p), links)
<1>1. DOMAIN e2 = DOMAIN e \cup {RelsEntry(p)}
  BY WithDomain
<1>2. RelsEntry(o) # RelsEntry(p)
  BY RelsEntryInjective
<1>3. RelsEntry(o) \in DOMAIN e2 <=> RelsEntry(o) \in DOMAIN e
  BY <1>1, <1>2
<1>4. RelsEntry(o) \in DOMAIN e => e2[RelsEntry(o)] = e[RelsEntry(o)]
  BY <1>2, WithOld
<1> QED
  BY <1>3, <1>4 DEF LinksIn

LEMMA WithoutForgets ==
    ASSUME NEW s, NEW e, NEW p
    PROVE  Forgets(s, e, Without(e, RelsEntry(p)), p, TypesIn(s, e))
<1> DEFINE e2 == Without(e, RelsEntry(p))
<1>1. DOMAIN e2 = DOMAIN e \ {RelsEntry(p)}
  BY WithoutDomain
<1>2. TypesEntry \in DOMAIN e => e2[TypesEntry] = e[TypesEntry]
  BY WithoutOld, EntryKindsDiffer
<1>3. TypesEntry \in DOMAIN e2 <=> TypesEntry \in DOMAIN e
  BY <1>1, EntryKindsDiffer
<1>4. TypesIn(s, e2) = TypesIn(s, e)
  BY <1>2, <1>3 DEF TypesIn
<1>5. ASSUME NEW o, o # p
      PROVE  LinksIn(s, e2, o) = LinksIn(s, e, o)
  <2>1. RelsEntry(o) # RelsEntry(p)
    BY <1>5, RelsEntryInjective
  <2>2. RelsEntry(o) \in DOMAIN e2 <=> RelsEntry(o) \in DOMAIN e
    BY <1>1, <2>1
  <2>3. RelsEntry(o) \in DOMAIN e => e2[RelsEntry(o)] = e[RelsEntry(o)]
    BY <2>1, WithoutOld
  <2> QED
    BY <2>2, <2>3 DEF LinksIn
<1>6. \A o : RelsEntry(o) \in DOMAIN e2 <=> o # p /\ RelsEntry(o) \in DOMAIN e
  BY <1>1, RelsEntryInjective
<1>7. DOMAIN e2 \subseteq DOMAIN e \cup {TypesEntry}
  BY <1>1
<1> HIDE DEF e2
<1>8. Forgets(s, e, e2, p, TypesIn(s, e))
  BY <1>4, <1>5, <1>6, <1>7 DEF Forgets
<1> QED
  BY <1>8 DEF e2

LEMMA RetypedForgets ==
    ASSUME NEW s, NEW e, NEW e1, NEW e2, NEW p, NEW ov, NEW ov2,
           Forgets(s, e, e1, p, ov), Retypes(s, e1, e2, ov2)
    PROVE  Forgets(s, e, e2, p, ov2)
BY DEF Forgets, Retypes, SameLinks

LEMMA UnnamedForgets ==
    ASSUME NEW s, NEW e, NEW e2, NEW p, NEW ov,
           RelsEntry(p) \notin DOMAIN e, Retypes(s, e, e2, ov)
    PROVE  Forgets(s, e, e2, p, ov)
BY DEF Forgets, Retypes, SameLinks

(***************************************************************************)
(* The inductive invariant behind OutputFollowsManifest.  s is the source, *)
(* K, ov and li the parts, overrides and relationships of the manifest, R  *)
(* the replaced parts, e the metadata entries and om the omitted ones.     *)
(***************************************************************************)
SourceNames(s) ==
    {PartEntry(p) : p \in s.parts} \cup {RelsEntry(Owner(l)) : l \in s.links}
        \cup {e \in {TypesEntry} : s.types}

PartsAgree(s, K, R, om) ==
    /\ K \subseteq s.parts \cup {Core, App}
    /\ R \subseteq K /\ K \subseteq s.parts \cup R
    /\ \A p \in K : PartEntry(p) \notin om
    /\ \A p \in s.parts \ K : PartEntry(p) \in om

TypesAgree(s, ov, e, om) == TypesEntry \notin om /\ TypesIn(s, e) = ov

LinksAgree(s, K, li, e, om) ==
    \A o \in K \cup {Package} :
        RelsEntry(o) \notin om /\ LinksIn(s, e, o) = LinksOf(li, o)

\* Nothing is left of a part that is gone; document properties have no
\* relationships in the source that could be left out.
RemovedGone(s, K, li, e, om) ==
    \A p \in Parts \ K :
        /\ RelsEntry(p) \notin DOMAIN e
        /\ LinksOf(li, p) = {}
        /\ RelsEntry(p) \in SourceNames(s) => RelsEntry(p) \in om

EntriesNamed(e, om) ==
    /\ DOMAIN e \subseteq {TypesEntry, RelsEntry(Package), RelsEntry(Workbook)}
    /\ RelsEntry(Core) \notin om /\ RelsEntry(App) \notin om

Agrees(s, K, ov, li, R, e, om) ==
    /\ PartsAgree(s, K, R, om) /\ TypesAgree(s, ov, e, om)
    /\ LinksAgree(s, K, li, e, om) /\ RemovedGone(s, K, li, e, om)
    /\ EntriesNamed(e, om)

\* What the source says of an owner without an entry for relationships.
LEMMA SourceLinks ==
    ASSUME NEW s, IsSource(s), Readable(s), NEW o
    PROVE  /\ RelsEntry(o) \notin SourceNames(s) => LinksOf(s.links, o) = {}
           /\ o \in {Core, App} => RelsEntry(o) \notin SourceNames(s)
           /\ o \notin s.parts \cup {Package} => RelsEntry(o) \notin SourceNames(s)
<1>1. RelsEntry(o) \in SourceNames(s) <=> \E l \in s.links : Owner(l) = o
  BY EntryKindsDiffer, RelsEntryInjective DEF SourceNames
<1>2. RelsEntry(o) \notin SourceNames(s) => LinksOf(s.links, o) = {}
  BY <1>1 DEF LinksOf
<1>3. o \in {Core, App} => RelsEntry(o) \notin SourceNames(s)
  BY <1>1 DEF IsSource
<1>4. o \notin s.parts \cup {Package} => RelsEntry(o) \notin SourceNames(s)
  BY <1>1 DEF Readable
<1> QED
  BY <1>2, <1>3, <1>4

\* Staging a part the manifest has.
LEMMA PutPart ==
    ASSUME NEW s, NEW K, NEW ov, NEW li, NEW R, NEW e, NEW om, NEW p \in K,
           Agrees(s, K, ov, li, R, e, om)
    PROVE  /\ Agrees(s, K, ov, li, R \cup {p}, e, om)
           /\ om \ {PartEntry(p)} = om
           /\ om \ {PartEntry(p), RelsEntry(p)} = om
<1>1. PartEntry(p) \notin om /\ RelsEntry(p) \notin om
  BY DEF Agrees, PartsAgree, LinksAgree
<1>2. PartsAgree(s, K, R \cup {p}, om)
  BY DEF Agrees, PartsAgree
<1> QED
  BY <1>1, <1>2 DEF Agrees

\* Saying the same types in other words.
LEMMA Retyped ==
    ASSUME NEW s, NEW K, NEW ov, NEW li, NEW R, NEW e, NEW om, NEW e2,
           Agrees(s, K, ov, li, R, e, om), Retypes(s, e, e2, ov)
    PROVE  Agrees(s, K, ov, li, R, e2, om)
<1>1. TypesAgree(s, ov, e2, om)
  BY DEF Agrees, TypesAgree, Retypes, SameLinks
<1>2. LinksAgree(s, K, li, e2, om)
  BY DEF Agrees, LinksAgree, Retypes, SameLinks
<1>3. RemovedGone(s, K, li, e2, om)
  BY DEF Agrees, RemovedGone, Retypes, SameLinks
<1>4. EntriesNamed(e2, om)
  BY DEF Agrees, EntriesNamed, Retypes, SameLinks
<1> QED
  BY <1>1, <1>2, <1>3, <1>4 DEF Agrees

\* Bringing back a part of the source, with its override and relationships.
LEMMA RestorePart ==
    ASSUME NEW s, NEW K, NEW ov, NEW li, NEW R, NEW e, NEW om, NEW e2,
           NEW p \in s.parts, p \notin K, s.parts \subseteq Parts,
           Agrees(s, K, ov, li, R, e, om),
           Retypes(s, e, e2, ov \cup ({p} \cap s.overrides))
    PROVE  Agrees(s, K \cup {p}, ov \cup ({p} \cap s.overrides),
                  li \cup LinksOf(s.links, p), R \cup {p}, e2,
                  om \ {PartEntry(p), RelsEntry(p)})
<1> DEFINE om2 == om \ {PartEntry(p), RelsEntry(p)}
           ov2 == ov \cup ({p} \cap s.overrides)
           li2 == li \cup LinksOf(s.links, p)
<1>1. PartsAgree(s, K \cup {p}, R \cup {p}, om2)
  BY PartEntryInjective, EntryKindsDiffer DEF Agrees, PartsAgree
<1>2. TypesAgree(s, ov2, e2, om2)
  BY DEF Agrees, TypesAgree, Retypes, SameLinks
<1>3. ASSUME NEW o \in Parts \cup {Package}, o # p
      PROVE  LinksOf(li2, o) = LinksOf(li, o) /\ LinksIn(s, e2, o) = LinksIn(s, e, o)
  BY <1>3, OtherLinksAdded DEF Retypes, SameLinks
<1>4. p \in Parts /\ p # Package
  BY Distinct
<1>5. LinksOf(li2, p) = LinksOf(s.links, p) /\ LinksIn(s, e2, p) = LinksOf(s.links, p)
  <2>1. LinksOf(li, p) = {} /\ RelsEntry(p) \notin DOMAIN e
    BY <1>4 DEF Agrees, RemovedGone
  <2>2. LinksOf(li2, p) = LinksOf(s.links, p)
    BY <2>1, OwnLinksAdded
  <2>3. LinksIn(s, e2, p) = LinksOf(s.links, p)
    BY <2>1 DEF Retypes, SameLinks, LinksIn
  <2> QED
    BY <2>2, <2>3
<1>6. K \subseteq Parts
  BY DEF Agrees, PartsAgree, Parts
<1>7. ASSUME NEW o \in K \cup {p} \cup {Package}
      PROVE  RelsEntry(o) \notin om2 /\ LinksIn(s, e2, o) = LinksOf(li2, o)
  <2>1. CASE o = p
    BY <2>1, <1>5
  <2>2. CASE o # p
    <3>1. RelsEntry(o) \notin om /\ LinksIn(s, e, o) = LinksOf(li, o)
      BY <2>2 DEF Agrees, LinksAgree
    <3> QED
      BY <3>1, <2>2, <1>3, <1>6
  <2> QED
    BY <2>1, <2>2
<1>8. LinksAgree(s, K \cup {p}, li2, e2, om2)
  BY <1>7 DEF LinksAgree
<1>9. ASSUME NEW o \in Parts \ (K \cup {p})
      PROVE  /\ RelsEntry(o) \notin DOMAIN e2
             /\ LinksOf(li2, o) = {}
             /\ RelsEntry(o) \in SourceNames(s) => RelsEntry(o) \in om2
  <2>1. /\ RelsEntry(o) \notin DOMAIN e /\ LinksOf(li, o) = {}
        /\ RelsEntry(o) \in SourceNames(s) => RelsEntry(o) \in om
    BY DEF Agrees, RemovedGone
  <2>2. RelsEntry(o) \notin DOMAIN e2
    BY <2>1 DEF Retypes, SameLinks
  <2>3. RelsEntry(o) # RelsEntry(p) /\ RelsEntry(o) # PartEntry(p)
    BY RelsEntryInjective, EntryKindsDiffer
  <2> QED
    BY <2>1, <2>2, <2>3, <1>3
<1>10. RemovedGone(s, K \cup {p}, li2, e2, om2)
  BY <1>9 DEF RemovedGone
<1>11. EntriesNamed(e2, om2)
  BY DEF Agrees, EntriesNamed, Retypes, SameLinks
<1> QED
  BY <1>1, <1>2, <1>8, <1>10, <1>11 DEF Agrees

\* Taking a part out, with its override, relationships and replacement.
LEMMA DropPart ==
    ASSUME NEW s, NEW K, NEW ov, NEW li, NEW R, NEW e, NEW om, NEW e2, NEW om2,
           NEW p \in Parts, p \in K => p \in s.parts, s.parts \subseteq Parts,
           Agrees(s, K, ov, li, R, e, om),
           Forgets(s, e, e2, p, ov \ {p}),
           om \subseteq om2, om2 \subseteq om \cup {PartEntry(p), RelsEntry(p)},
           p \in s.parts => PartEntry(p) \in om2,
           RelsEntry(p) \in SourceNames(s) => RelsEntry(p) \in om2,
           p \in {Core, App} => RelsEntry(p) \notin om2
    PROVE  Agrees(s, K \ {p}, ov \ {p}, li \ LinksOf(li, p), R \ {p}, e2, om2)
<1> DEFINE li2 == li \ LinksOf(li, p)
<1>1. PartsAgree(s, K \ {p}, R \ {p}, om2)
  BY PartEntryInjective, EntryKindsDiffer DEF Agrees, PartsAgree
<1>2. TypesAgree(s, ov \ {p}, e2, om2)
  BY EntryKindsDiffer DEF Agrees, TypesAgree, Forgets
<1>3. ASSUME NEW o, o # p
      PROVE  LinksOf(li2, o) = LinksOf(li, o) /\ LinksIn(s, e2, o) = LinksIn(s, e, o)
  BY <1>3, OtherLinksRemoved DEF Forgets
<1>4. p # Package
  BY Distinct
<1>5. ASSUME NEW o \in (K \ {p}) \cup {Package}
      PROVE  RelsEntry(o) \notin om2 /\ LinksIn(s, e2, o) = LinksOf(li2, o)
  <2>1. o # p
    BY <1>4
  <2>2. RelsEntry(o) \notin om /\ LinksIn(s, e, o) = LinksOf(li, o)
    BY DEF Agrees, LinksAgree
  <2>3. RelsEntry(o) # RelsEntry(p) /\ RelsEntry(o) # PartEntry(p)
    BY <2>1, RelsEntryInjective, EntryKindsDiffer
  <2> QED
    BY <2>1, <2>2, <2>3, <1>3
<1>6. LinksAgree(s, K \ {p}, li2, e2, om2)
  BY <1>5 DEF LinksAgree
<1>7. ASSUME NEW o \in Parts \ (K \ {p})
      PROVE  /\ RelsEntry(o) \notin DOMAIN e2
             /\ LinksOf(li2, o) = {}
             /\ RelsEntry(o) \in SourceNames(s) => RelsEntry(o) \in om2
  <2>1. RelsEntry(o) \in DOMAIN e2 <=> o # p /\ RelsEntry(o) \in DOMAIN e
    BY DEF Forgets
  <2>2. CASE o = p
    BY <2>1, <2>2, OwnLinksRemoved
  <2>3. CASE o # p
    <3>1. /\ RelsEntry(o) \notin DOMAIN e /\ LinksOf(li, o) = {}
          /\ RelsEntry(o) \in SourceNames(s) => RelsEntry(o) \in om
      BY <2>3 DEF Agrees, RemovedGone
    <3> QED
      BY <2>1, <2>3, <3>1, <1>3
  <2> QED
    BY <2>2, <2>3
<1>8. RemovedGone(s, K \ {p}, li2, e2, om2)
  BY <1>7 DEF RemovedGone
<1>9. EntriesNamed(e2, om2)
  <2>1. DOMAIN e2 \subseteq {TypesEntry, RelsEntry(Package), RelsEntry(Workbook)}
    BY DEF Agrees, EntriesNamed, Forgets
  <2>2. RelsEntry(Core) \notin om2 /\ RelsEntry(App) \notin om2
    BY RelsEntryInjective, EntryKindsDiffer DEF Agrees, EntriesNamed
  <2> QED
    BY <2>1, <2>2 DEF EntriesNamed
<1> QED
  BY <1>1, <1>2, <1>6, <1>8, <1>9 DEF Agrees

\* Taking the calcChain relationships away from the workbook part.
LEMMA DropCalcLinks ==
    ASSUME NEW s, NEW K, NEW ov, NEW li, NEW R, NEW e, NEW om, NEW li2,
           Workbook \in K,
           li2 = {l \in li : ~(Owner(l) = Workbook /\ TypeOf(l) = "calc")},
           Agrees(s, K, ov, li, R, e, om)
    PROVE  Agrees(s, K, ov, li2, R,
                  With(e, RelsEntry(Workbook), LinksOf(li2, Workbook)), om)
<1> DEFINE links == LinksOf(li2, Workbook)
           e2 == With(e, RelsEntry(Workbook), links)
<1>1. /\ TypesIn(s, e2) = TypesIn(s, e)
      /\ LinksIn(s, e2, Workbook) = links
      /\ \A o : o # Workbook => LinksIn(s, e2, o) = LinksIn(s, e, o)
  <2>1. TypesIn(s, e2) = TypesIn(s, e)
    BY WithLinksTypes
  <2>2. LinksIn(s, e2, Workbook) = links
    BY WithOwnLinks
  <2>3. ASSUME NEW o, o # Workbook
        PROVE  LinksIn(s, e2, o) = LinksIn(s, e, o)
    BY <2>3, WithOtherLinks
  <2> HIDE DEF e2
  <2> QED
    BY <2>1, <2>2, <2>3
<1>2. ASSUME NEW o, o # Workbook
      PROVE  LinksOf(li2, o) = LinksOf(li, o)
  BY <1>2 DEF LinksOf
<1>3. DOMAIN e2 = DOMAIN e \cup {RelsEntry(Workbook)}
  BY WithDomain
<1> HIDE DEF e2
<1>4. TypesAgree(s, ov, e2, om)
  BY <1>1 DEF Agrees, TypesAgree
<1>5. LinksAgree(s, K, li2, e2, om)
  <2>1. ASSUME NEW o \in K \cup {Package}
        PROVE  RelsEntry(o) \notin om /\ LinksIn(s, e2, o) = LinksOf(li2, o)
    <3>1. RelsEntry(o) \notin om /\ LinksIn(s, e, o) = LinksOf(li, o)
      BY DEF Agrees, LinksAgree
    <3>2. CASE o = Workbook
      BY <3>1, <3>2, <1>1
    <3>3. CASE o # Workbook
      BY <3>1, <3>3, <1>1, <1>2
    <3> QED
      BY <3>2, <3>3
  <2> QED
    BY <2>1 DEF LinksAgree
<1>6. RemovedGone(s, K, li2, e2, om)
  <2>1. ASSUME NEW o \in Parts \ K
        PROVE  /\ RelsEntry(o) \notin DOMAIN e2 /\ LinksOf(li2, o) = {}
               /\ RelsEntry(o) \in SourceNames(s) => RelsEntry(o) \in om
    <3>1. /\ RelsEntry(o) \notin DOMAIN e /\ LinksOf(li, o) = {}
          /\ RelsEntry(o) \in SourceNames(s) => RelsEntry(o) \in om
      BY DEF Agrees, RemovedGone
    <3>2. o # Workbook
      OBVIOUS
    <3> QED
      BY <1>2, <1>3, <3>1, <3>2, RelsEntryInjective
  <2> QED
    BY <2>1 DEF RemovedGone
<1>7. EntriesNamed(e2, om)
  BY <1>3 DEF Agrees, EntriesNamed
<1>8. Agrees(s, K, ov, li2, R, e2, om)
  BY <1>4, <1>5, <1>6, <1>7 DEF Agrees
<1> QED
  BY <1>8 DEF e2

\* Writing the document properties, linked from the package.
LEMMA GenerateProperties ==
    ASSUME NEW s, NEW K, NEW ov, NEW li, NEW R, NEW e, NEW om, NEW li2, NEW e2,
           IsSource(s), Readable(s), Agrees(s, K, ov, li, R, e, om),
           \A o : o # Package => LinksOf(li2, o) = LinksOf(li, o),
           TypesIn(s, e2) = ov \cup {Core, App},
           LinksIn(s, e2, Package) = LinksOf(li2, Package),
           \A o : o # Package => LinksIn(s, e2, o) = LinksIn(s, e, o),
           DOMAIN e2 \subseteq DOMAIN e \cup {TypesEntry, RelsEntry(Package)}
    PROVE  Agrees(s, K \cup {Core, App}, ov \cup {Core, App}, li2, R \cup {Core, App}, e2,
                  om \ {PartEntry(Core), PartEntry(App)})
<1> DEFINE om2 == om \ {PartEntry(Core), PartEntry(App)}
           K2 == K \cup {Core, App}
<1>1. PartsAgree(s, K2, R \cup {Core, App}, om2)
  BY PartEntryInjective DEF Agrees, PartsAgree
<1>2. TypesAgree(s, ov \cup {Core, App}, e2, om2)
  BY DEF Agrees, TypesAgree
<1>3. ASSUME NEW o \in {Core, App}, o \notin K
      PROVE  LinksOf(li, o) = {} /\ LinksIn(s, e, o) = {} /\ RelsEntry(o) \notin om
  <2>1. o \in Parts /\ o # Package
    BY Distinct DEF Parts
  <2>2. LinksOf(li, o) = {} /\ RelsEntry(o) \notin DOMAIN e
    BY <1>3, <2>1 DEF Agrees, RemovedGone
  <2>3. LinksOf(s.links, o) = {}
    BY SourceLinks
  <2> QED
    BY <2>2, <2>3 DEF LinksIn, Agrees, EntriesNamed
<1>4. LinksAgree(s, K2, li2, e2, om2)
  <2>1. ASSUME NEW o \in K2 \cup {Package}
        PROVE  RelsEntry(o) \notin om2 /\ LinksIn(s, e2, o) = LinksOf(li2, o)
    <3>1. CASE o \in K \cup {Package}
      BY <3>1 DEF Agrees, LinksAgree
    <3>2. CASE o \in {Core, App} /\ o \notin K /\ o # Package
      BY <3>2, <1>3
    <3> QED
      BY <3>1, <3>2
  <2> QED
    BY <2>1 DEF LinksAgree
<1>5. RemovedGone(s, K2, li2, e2, om2)
  <2>1. ASSUME NEW o \in Parts \ K2
        PROVE  /\ RelsEntry(o) \notin DOMAIN e2 /\ LinksOf(li2, o) = {}
               /\ RelsEntry(o) \in SourceNames(s) => RelsEntry(o) \in om2
    <3>1. /\ RelsEntry(o) \notin DOMAIN e /\ LinksOf(li, o) = {}
          /\ RelsEntry(o) \in SourceNames(s) => RelsEntry(o) \in om
      BY DEF Agrees, RemovedGone
    <3>2. o # Package
      BY Distinct
    <3> QED
      BY <3>1, <3>2, RelsEntryInjective, EntryKindsDiffer
  <2> QED
    BY <2>1 DEF RemovedGone
<1>6. EntriesNamed(e2, om2)
  BY DEF Agrees, EntriesNamed
<1> QED
  BY <1>1, <1>2, <1>4, <1>5, <1>6 DEF Agrees

(***************************************************************************)
(* The manifest, field by field                                            *)
(***************************************************************************)
LEMMA ManifestFields ==
    ASSUME NEW a, NEW b, NEW c
    PROVE  /\ Known(Manifest(a, b, c)) = DOMAIN a
           /\ Manifest(a, b, c).overrides = b
           /\ Manifest(a, b, c).links = c
BY DEF Manifest, Known

LEMMA SetModeFields ==
    ASSUME NEW m, NEW p, NEW mode
    PROVE  /\ Known(SetMode(m, p, mode)) = Known(m) \cup {p}
           /\ SetMode(m, p, mode).overrides = m.overrides
           /\ SetMode(m, p, mode).links = m.links
<1>1. DOMAIN With(m.parts, p, mode) = Known(m) \cup {p}
  BY WithDomain DEF Known
<1> QED
  BY <1>1, ManifestFields DEF SetMode

LEMMA RestoredFields ==
    ASSUME NEW m, NEW p
    PROVE  /\ Known(Restored(m, p)) = Known(m) \cup {p}
           /\ Restored(m, p).overrides = m.overrides \cup ({p} \cap source.overrides)
           /\ Restored(m, p).links = m.links \cup LinksOf(source.links, p)
<1>1. DOMAIN With(m.parts, p, "copy") = Known(m) \cup {p}
  BY WithDomain DEF Known
<1> QED
  BY <1>1, ManifestFields DEF Restored

LEMMA RemovedFields ==
    ASSUME NEW m, NEW p
    PROVE  /\ Known(Removed(m, p)) = Known(m) \ {p}
           /\ Removed(m, p).overrides = m.overrides \ {p}
           /\ Removed(m, p).links = m.links \ LinksOf(m.links, p)
<1>1. DOMAIN Without(m.parts, p) = Known(m) \ {p}
  BY WithoutDomain DEF Known
<1> QED
  BY <1>1, ManifestFields DEF Removed

LEMMA CalcLinksFields ==
    ASSUME NEW m
    PROVE  /\ Known(WithoutCalcLinks(m)) = Known(m)
           /\ WithoutCalcLinks(m).overrides = m.overrides
           /\ WithoutCalcLinks(m).links
                  = {l \in m.links : ~(Owner(l) = Workbook /\ TypeOf(l) = "calc")}
BY ManifestFields DEF WithoutCalcLinks, Known

LEMMA GeneratedFields ==
    ASSUME NEW m, NEW p
    PROVE  /\ Known(Generated(m, p)) = Known(m) \cup {p}
           /\ Generated(m, p).overrides = m.overrides \cup {p}
           /\ Generated(m, p).links = m.links
<1>1. DOMAIN With(m.parts, p, "generate") = Known(m) \cup {p}
  BY WithDomain DEF Known
<1> QED
  BY <1>1, ManifestFields DEF Generated

LEMMA PackageLinkFields ==
    ASSUME NEW m, NEW type, NEW p
    PROVE  /\ Known(WithPackageLink(m, type, p)) = Known(m)
           /\ WithPackageLink(m, type, p).overrides = m.overrides
           /\ \A o : o # Package =>
                  LinksOf(WithPackageLink(m, type, p).links, o) = LinksOf(m.links, o)
<1>1. CASE \E l \in LinksOf(m.links, Package) : TypeOf(l) = type
  BY <1>1 DEF WithPackageLink
<1>2. CASE ~ \E l \in LinksOf(m.links, Package) : TypeOf(l) = type
  <2> DEFINE li == m.links \cup {<<Package, type, p>>}
  <2>1. WithPackageLink(m, type, p) = Manifest(m.parts, m.overrides, li)
    BY <1>2 DEF WithPackageLink
  <2>2. ASSUME NEW o, o # Package
        PROVE  LinksOf(li, o) = LinksOf(m.links, o)
    BY <2>2 DEF LinksOf, Owner
  <2> HIDE DEF li
  <2>3. /\ Known(WithPackageLink(m, type, p)) = Known(m)
        /\ WithPackageLink(m, type, p).overrides = m.overrides
        /\ WithPackageLink(m, type, p).links = li
    BY <2>1, ManifestFields DEF Known
  <2> QED
    BY <2>2, <2>3
<1> QED
  BY <1>1, <1>2

(***************************************************************************)
(* The operations                                                          *)
(***************************************************************************)
Agreement ==
    /\ IsSource(source) /\ Readable(source)
    /\ Agrees(source, Known(manifest), manifest.overrides, manifest.links,
              DOMAIN replaced, entries, omitted)

\* Before the package is opened nothing is staged.
Unstaged ==
    /\ manifest = CopyManifest(source)
    /\ replaced = <<>> /\ entries = <<>> /\ omitted = {}

AgreementInv ==
    /\ IsSource(source)
    /\ opened = "no" => Unstaged
    /\ opened = "yes" => Agreement

LEMMA KnownParts ==
    ASSUME Agreement
    PROVE  Known(manifest) \subseteq Parts /\ source.parts \subseteq Parts
BY DEF Agreement, Agrees, PartsAgree, IsSource, Parts

\* Putting p on the plan, up to the new words of the content types.
LEMMA PlannedKeeps ==
    ASSUME Agreement, NEW p \in Parts, p \in Known(manifest) \cup source.parts
    PROVE  LET m == PlannedManifest(p)
           IN  /\ Known(m) = Known(manifest) \cup {p}
               /\ TypesEntry \notin DOMAIN entries => m.overrides = source.overrides
               /\ Agrees(source, Known(m), m.overrides, m.links, DOMAIN replaced \cup {p},
                         SyncedTypes(entries, m), omitted \ {PartEntry(p), RelsEntry(p)})
<1> DEFINE m == PlannedManifest(p)
           K == Known(manifest)
           R == DOMAIN replaced
<1>1. Agrees(source, K, manifest.overrides, manifest.links, R, entries, omitted)
  BY DEF Agreement
<1>2. TypesIn(source, entries) = manifest.overrides
  BY <1>1 DEF Agrees, TypesAgree
<1>3. CASE p \in K
  <2>1. m = manifest
    BY <1>3 DEF PlannedManifest
  <2>2. TypesEntry \notin DOMAIN entries => manifest.overrides = source.overrides
    BY <1>2 DEF TypesIn
  <2>3. Retypes(source, entries, SyncedTypes(entries, manifest), manifest.overrides)
    BY <2>2, SyncedRetypes
  <2> HIDE DEF K, R, m
  <2>4. Agrees(source, K, manifest.overrides, manifest.links, R,
               SyncedTypes(entries, manifest), omitted)
    BY <1>1, <2>3, Retyped
  <2>5. /\ Agrees(source, K, manifest.overrides, manifest.links, R \cup {p},
                  SyncedTypes(entries, manifest), omitted)
        /\ omitted \ {PartEntry(p), RelsEntry(p)} = omitted
    BY <1>3, <2>4, PutPart
  <2>6. K = K \cup {p}
    BY <1>3
  <2> QED
    BY <2>1, <2>2, <2>5, <2>6 DEF K, R, m
<1>4. CASE p \notin K
  <2> DEFINE ov == manifest.overrides \cup ({p} \cap source.overrides)
             li == manifest.links \cup LinksOf(source.links, p)
  <2>1. m = Restored(manifest, p)
    BY <1>4 DEF PlannedManifest
  <2>2. Known(m) = K \cup {p} /\ m.overrides = ov /\ m.links = li
    BY <2>1, RestoredFields
  <2>3. TypesEntry \notin DOMAIN entries => m.overrides = source.overrides
    BY <1>2, <2>2 DEF TypesIn
  <2>4. Retypes(source, entries, SyncedTypes(entries, m), m.overrides)
    BY <2>3, SyncedRetypes
  <2>5. p \in source.parts /\ source.parts \subseteq Parts
    BY <1>4, KnownParts
  <2> HIDE DEF K, R, m
  <2>6. Retypes(source, entries, SyncedTypes(entries, m), ov)
    BY <2>2, <2>4
  <2>7. Agrees(source, K \cup {p}, ov, li, R \cup {p}, SyncedTypes(entries, m),
               omitted \ {PartEntry(p), RelsEntry(p)})
    BY <1>1, <1>4, <2>5, <2>6, RestorePart
  <2> QED
    BY <2>2, <2>3, <2>7 DEF K, R, m
<1> QED
  BY <1>3, <1>4

LEMMA StagePartKeeps ==
    ASSUME Agreement, NEW p \in Parts, p \in Known(manifest) \cup source.parts,
           NEW payload, StagePart(p, payload)
    PROVE  Agreement'
<1> DEFINE m == PlannedManifest(p)
           m2 == SetMode(m, p, payload.mode)
<1>1. /\ manifest' = m2 /\ replaced' = With(replaced, p, payload)
      /\ entries' = SyncedTypes(entries, m2)
      /\ omitted' = omitted \ {PartEntry(p), RelsEntry(p)}
      /\ source' = source
  BY DEF StagePart, Commit
<1>2. /\ Known(m) = Known(manifest) \cup {p}
      /\ Agrees(source, Known(m), m.overrides, m.links, DOMAIN replaced \cup {p},
                SyncedTypes(entries, m), omitted \ {PartEntry(p), RelsEntry(p)})
  BY PlannedKeeps
<1> HIDE DEF m
<1>3. Known(m2) = Known(m) /\ m2.overrides = m.overrides /\ m2.links = m.links
  BY <1>2, SetModeFields
<1>4. SyncedTypes(entries, m2) = SyncedTypes(entries, m)
  BY <1>3 DEF SyncedTypes
<1>5. DOMAIN replaced' = DOMAIN replaced \cup {p}
  BY <1>1, WithDomain
<1>6. Known(manifest)' = Known(m)
  BY <1>1, <1>3 DEF Known
<1> QED
  BY <1>1, <1>2, <1>3, <1>4, <1>5, <1>6 DEF Agreement, IsSource, Readable

LEMMA RemovePartKeeps ==
    ASSUME Agreement, NEW p \in Parts, NEW fail, RemovePart(p, fail)
    PROVE  Agreement'
<1> DEFINE m == Removed(manifest, p)
           e == Without(entries, RelsEntry(p))
           K == Known(manifest)
           ov == manifest.overrides
           om2 == omitted \cup ({PartEntry(p)} \cup ({RelsEntry(p)} \cap SourceEntries))
<1>1. /\ p \in K \cap source.parts
      /\ manifest' = m /\ replaced' = Without(replaced, p) /\ omitted' = om2
      /\ entries' = IF p \in ov THEN With(e, TypesEntry, m.overrides) ELSE e
      /\ source' = source
  BY DEF RemovePart, Commit
<1>2. /\ Known(m) = K \ {p} /\ m.overrides = ov \ {p}
      /\ m.links = manifest.links \ LinksOf(manifest.links, p)
  BY RemovedFields
<1>3. TypesIn(source, entries) = ov
  BY DEF Agreement, Agrees, TypesAgree
<1>4. Forgets(source, entries, entries', p, ov \ {p})
  <2>1. Forgets(source, entries, e, p, ov)
    BY <1>3, WithoutForgets
  <2>2. CASE p \in ov
    <3>1. entries' = With(e, TypesEntry, ov \ {p})
      BY <1>1, <1>2, <2>2
    <3>2. Retypes(source, e, With(e, TypesEntry, ov \ {p}), ov \ {p})
      BY WithTypesRetypes
    <3> HIDE DEF e, ov
    <3> QED
      BY <2>1, <3>1, <3>2, RetypedForgets
  <2>3. CASE p \notin ov
    <3>1. entries' = e /\ ov \ {p} = ov
      BY <1>1, <2>3
    <3> QED
      BY <2>1, <3>1
  <2> QED
    BY <2>2, <2>3
<1>5. SourceEntries = SourceNames(source)
  BY DEF SourceEntries, SourceNames
<1>6. p \in {Core, App} => RelsEntry(p) \notin om2
  <2>1. p \in {Core, App} => RelsEntry(p) \notin SourceNames(source) /\ RelsEntry(p) \notin omitted
    BY SourceLinks DEF Agreement, Agrees, EntriesNamed
  <2> QED
    BY <1>5, <2>1, EntryKindsDiffer
<1>7. /\ omitted \subseteq om2 /\ om2 \subseteq omitted \cup {PartEntry(p), RelsEntry(p)}
      /\ PartEntry(p) \in om2
      /\ RelsEntry(p) \in SourceNames(source) => RelsEntry(p) \in om2
  BY <1>5
<1>8. /\ Agrees(source, K, ov, manifest.links, DOMAIN replaced, entries, omitted)
      /\ source.parts \subseteq Parts
  BY KnownParts DEF Agreement
<1> HIDE DEF K, ov, om2, m, e
<1>9. Agrees(source, K \ {p}, ov \ {p}, manifest.links \ LinksOf(manifest.links, p),
             DOMAIN replaced \ {p}, entries', om2)
  BY <1>1, <1>4, <1>6, <1>7, <1>8, DropPart
<1>10. DOMAIN replaced' = DOMAIN replaced \ {p}
  BY <1>1, WithoutDomain
<1>11. Known(manifest)' = Known(m)
  BY <1>1 DEF Known
<1> QED
  BY <1>1, <1>2, <1>9, <1>10, <1>11 DEF Agreement, IsSource, Readable

(* The calcChain policy, for the entries e a worksheet operation has       *)
(* already put into words: those still hold the old content types only if  *)
(* the removal says new ones.                                              *)
LEMMA CalcKeeps ==
    ASSUME IsSource(source), Readable(source), NEW m, NEW R, NEW e0, NEW e, NEW om,
           NEW action, Workbook \in Known(m),
           Agrees(source, Known(m), m.overrides, m.links, R, e0, om),
           SameLinks(source, e0, e),
           ~DropsTypes(m, action) => TypesIn(source, e) = m.overrides
    PROVE  LET after == CalcManifest(m, action)
           IN  Agrees(source, Known(after), after.overrides, after.links,
                      IF action = "remove" THEN R \ {CalcChain} ELSE R,
                      CalcEntries(e, m, action), CalcOmitted(om, action))
<1> DEFINE after == CalcManifest(m, action)
           K == Known(m)
           ov == m.overrides
<1>1. CASE action # "remove"
  <2>1. /\ after = m /\ ~DropsTypes(m, action) /\ ~DropsLinks(m, action)
        /\ CalcOmitted(om, action) = om
    BY <1>1 DEF CalcManifest, DropsTypes, DropsLinks, CalcOmitted
  <2>2. CalcEntries(e, m, action) = e
    BY <2>1 DEF CalcEntries
  <2>3. Retypes(source, e0, e, m.overrides)
    BY <2>1 DEF Retypes
  <2>4. Agrees(source, Known(m), m.overrides, m.links, R, e, om)
    BY <2>3, Retyped
  <2> QED
    BY <1>1, <2>1, <2>2, <2>4
<1>2. CASE action = "remove"
  <2> DEFINE gone == Removed(m, CalcChain)
             typed == IF DropsTypes(m, action) THEN With(e, TypesEntry, after.overrides) ELSE e
             om2 == CalcOmitted(om, action)
             li == m.links \ LinksOf(m.links, CalcChain)
             li2 == {l \in li : ~(Owner(l) = Workbook /\ TypeOf(l) = "calc")}
  <2>1. after = WithoutCalcLinks(gone)
    BY <1>2 DEF CalcManifest
  <2>2. Known(gone) = K \ {CalcChain} /\ gone.overrides = ov \ {CalcChain} /\ gone.links = li
    BY RemovedFields
  <2>3. Known(after) = K \ {CalcChain} /\ after.overrides = ov \ {CalcChain} /\ after.links = li2
    BY <2>1, <2>2, CalcLinksFields
  <2>4. /\ CalcChain \in Parts /\ CalcChain \notin {Core, App} /\ CalcChain # Workbook
        /\ CalcChain # Package
    BY Distinct DEF Parts
  <2>5. Forgets(source, e0, typed, CalcChain, ov \ {CalcChain})
    <3>1. RelsEntry(CalcChain) \notin DOMAIN e0
      BY <2>4, RelsEntryInjective, EntryKindsDiffer DEF Agrees, EntriesNamed
    <3>2. Retypes(source, e0, typed, ov \ {CalcChain})
      <4>1. CASE DropsTypes(m, action)
        <5>1. typed = With(e, TypesEntry, ov \ {CalcChain})
          BY <4>1, <2>3
        <5>2. Retypes(source, e, typed, ov \ {CalcChain})
          BY <5>1, WithTypesRetypes
        <5> HIDE DEF typed
        <5> QED
          BY <5>2 DEF Retypes, SameLinks
      <4>2. CASE ~DropsTypes(m, action)
        <5>1. typed = e /\ ov \ {CalcChain} = ov
          BY <1>2, <4>2 DEF DropsTypes, TypesNameCalcChain
        <5>2. TypesIn(source, e) = ov
          BY <4>2
        <5> QED
          BY <5>1, <5>2 DEF Retypes
      <4> QED
        BY <4>1, <4>2
    <3> HIDE DEF typed, ov
    <3> QED
      BY <3>1, <3>2, UnnamedForgets
  <2>6. CalcChain \in K => CalcChain \in source.parts
    BY <2>4 DEF Agrees, PartsAgree
  <2>7. /\ om \subseteq om2 /\ om2 \subseteq om \cup {PartEntry(CalcChain), RelsEntry(CalcChain)}
        /\ CalcChain \in source.parts => PartEntry(CalcChain) \in om2
    BY <1>2 DEF CalcOmitted
  <2>8. RelsEntry(CalcChain) \in SourceNames(source) => RelsEntry(CalcChain) \in om2
    <3>1. RelsEntry(CalcChain) \in SourceNames(source) => CalcChain \in source.parts
      BY <2>4, SourceLinks
    <3> QED
      BY <1>2, <3>1 DEF CalcOmitted
  <2>9. source.parts \subseteq Parts
    BY DEF IsSource
  <2>10. Agrees(source, K, ov, m.links, R, e0, om)
    OBVIOUS
  <2> HIDE DEF typed, om2, K, ov, after, gone
  <2>11. Agrees(source, K \ {CalcChain}, ov \ {CalcChain}, li, R \ {CalcChain}, typed, om2)
    BY <2>4, <2>5, <2>6, <2>7, <2>8, <2>9, <2>10, DropPart
  <2>12. Workbook \in K \ {CalcChain}
    BY <2>4 DEF K
  <2>13. CASE DropsLinks(m, action)
    <3>1. CalcEntries(e, m, action) = With(typed, RelsEntry(Workbook), LinksOf(li2, Workbook))
      BY <2>3, <2>13 DEF CalcEntries, typed, after
    <3> HIDE DEF li
    <3>2. Agrees(source, K \ {CalcChain}, ov \ {CalcChain}, li2, R \ {CalcChain},
                 With(typed, RelsEntry(Workbook), LinksOf(li2, Workbook)), om2)
      BY <2>11, <2>12, DropCalcLinks
    <3> QED
      BY <1>2, <2>3, <3>1, <3>2 DEF om2, after
  <2>14. CASE ~DropsLinks(m, action)
    <3>1. CalcEntries(e, m, action) = typed
      BY <2>14 DEF CalcEntries, typed, after
    <3>2. li2 = li
      BY <1>2, <2>14 DEF DropsLinks, CalcLinks, LinksOf
    <3> QED
      BY <1>2, <2>3, <2>11, <3>1, <3>2 DEF om2, after
  <2> QED
    BY <2>13, <2>14
<1> QED
  BY <1>1, <1>2

LEMMA CalcManifestFields ==
    ASSUME NEW m, NEW action
    PROVE  LET after == CalcManifest(m, action)
           IN  /\ Known(after) = IF action = "remove" THEN Known(m) \ {CalcChain} ELSE Known(m)
               /\ ~DropsTypes(m, action) => after.overrides = m.overrides
<1>1. CASE action # "remove"
  BY <1>1 DEF CalcManifest
<1>2. CASE action = "remove"
  <2> DEFINE gone == Removed(m, CalcChain)
  <2>1. CalcManifest(m, action) = WithoutCalcLinks(gone)
    BY <1>2 DEF CalcManifest
  <2>2. Known(gone) = Known(m) \ {CalcChain} /\ gone.overrides = m.overrides \ {CalcChain}
    BY RemovedFields
  <2>3. Known(WithoutCalcLinks(gone)) = Known(gone)
    BY CalcLinksFields
  <2>4. WithoutCalcLinks(gone).overrides = gone.overrides
    BY CalcLinksFields
  <2>5. ~DropsTypes(m, action) => CalcChain \notin m.overrides
    BY <1>2 DEF DropsTypes, TypesNameCalcChain
  <2>6. ~DropsTypes(m, action) => m.overrides \ {CalcChain} = m.overrides
    BY <2>5
  <2> HIDE DEF gone
  <2> QED
    BY <1>2, <2>1, <2>2, <2>3, <2>4, <2>6
<1> QED
  BY <1>1, <1>2

LEMMA StageWorksheetKeeps ==
    ASSUME Agreement, Sheet \in Known(manifest) \cup source.parts,
           NEW policy, NEW mode, NEW owned, StageWorksheet(policy, mode, owned)
    PROVE  Agreement'
<1> DEFINE m == PlannedManifest(Sheet)
           full == RequestsFull(policy, m)
           calc == CalcManifest(m, policy.calc)
           after == SetMode(calc, Sheet, mode)
           sheet == Chunks(mode, IF owned THEN {edits + 1} ELSE {})
           calcGone == policy.calc = "remove" /\ CalcChain \in Known(m)
           back == omitted \ {PartEntry(Sheet), RelsEntry(Sheet)}
           r1 == With(replaced, Sheet, sheet)
           r2 == IF full THEN With(r1, Workbook, Xml("dom", TRUE)) ELSE r1
           om2 == IF full THEN Unomitted(back, Workbook) ELSE back
           e0 == SyncedTypes(entries, m)
           e == SyncedTypes(entries, after)
           R == DOMAIN replaced
           R2 == IF full THEN R \cup {Sheet} \cup {Workbook} ELSE R \cup {Sheet}
<1>1. /\ manifest' = IF full THEN SetMode(after, Workbook, "dom") ELSE after
      /\ replaced' = IF calcGone THEN Without(r2, CalcChain) ELSE r2
      /\ entries' = CalcEntries(e, m, policy.calc)
      /\ omitted' = CalcOmitted(om2, policy.calc)
      /\ source' = source
      /\ Workbook \in Known(manifest)
  BY DEF StageWorksheet, Commit, WorkbookReady
<1>2. /\ Sheet \in Parts /\ Sheet # CalcChain /\ Workbook # CalcChain
  BY Distinct DEF Parts
<1>3. /\ Known(m) = Known(manifest) \cup {Sheet}
      /\ TypesEntry \notin DOMAIN entries => m.overrides = source.overrides
      /\ Agrees(source, Known(m), m.overrides, m.links, R \cup {Sheet}, e0, back)
  BY <1>2, PlannedKeeps
<1>4. DOMAIN r2 = R2
  <2>1. DOMAIN r1 = R \cup {Sheet}
    BY WithDomain
  <2>2. DOMAIN With(r1, Workbook, Xml("dom", TRUE)) = DOMAIN r1 \cup {Workbook}
    BY WithDomain
  <2> HIDE DEF r1, R, full
  <2>3. CASE full
    BY <2>1, <2>2, <2>3
  <2>4. CASE ~full
    BY <2>1, <2>4
  <2> QED
    BY <2>3, <2>4
<1>5. SameLinks(source, e0, e)
  <2>1. SameLinks(source, entries, e0) /\ SameLinks(source, entries, e)
    BY SyncedSameLinks
  <2> HIDE DEF e, e0
  <2>2. \A o : LinksIn(source, e, o) = LinksIn(source, e0, o)
    BY <2>1 DEF SameLinks
  <2>3. \A o : RelsEntry(o) \in DOMAIN e <=> RelsEntry(o) \in DOMAIN e0
    BY <2>1 DEF SameLinks
  <2>4. DOMAIN e \subseteq DOMAIN e0 \cup {TypesEntry}
    <3>1. DOMAIN e \subseteq DOMAIN entries \cup {TypesEntry}
      BY <2>1 DEF SameLinks
    <3>2. \A x \in DOMAIN entries : x = TypesEntry \/ \E o : x = RelsEntry(o)
      BY DEF Agreement, Agrees, EntriesNamed
    <3> QED
      BY <2>3, <3>1, <3>2, <2>1 DEF SameLinks
  <2> QED
    BY <2>2, <2>3, <2>4 DEF SameLinks
<1> HIDE DEF m, calc
<1>6. /\ Known(after) = Known(calc) \cup {Sheet} /\ after.overrides = calc.overrides
      /\ after.links = calc.links
  BY SetModeFields
<1>7. /\ Known(calc) = IF policy.calc = "remove" THEN Known(m) \ {CalcChain} ELSE Known(m)
      /\ ~DropsTypes(m, policy.calc) => calc.overrides = m.overrides
  BY CalcManifestFields DEF calc
<1>8. ~DropsTypes(m, policy.calc) => TypesIn(source, e) = m.overrides
  <2>1. ASSUME ~DropsTypes(m, policy.calc)
        PROVE  TypesIn(source, e) = m.overrides
    <3>1. after.overrides = m.overrides
      BY <1>6, <1>7, <2>1
    <3>2. Retypes(source, entries, e, after.overrides)
      BY <1>3, <3>1, SyncedRetypes
    <3> HIDE DEF e, after
    <3> QED
      BY <3>1, <3>2 DEF Retypes
  <2> QED
    BY <2>1
<1> HIDE DEF full, after, back, r1, r2, e0, e, R
<1>9. Workbook \in Known(m)
  BY <1>1, <1>3
<1>10. Agrees(source, Known(m), m.overrides, m.links, R2, e0, om2)
  <2>1. CASE full
    <3>1. /\ Agrees(source, Known(m), m.overrides, m.links, R \cup {Sheet} \cup {Workbook}, e0, back)
          /\ back \ {PartEntry(Workbook)} = back
      BY <1>3, <1>9, PutPart
    <3> QED
      BY <2>1, <3>1 DEF Unomitted
  <2>2. CASE ~full
    BY <1>3, <2>2
  <2> QED
    BY <2>1, <2>2
<1> HIDE DEF R2, om2
<1>11. Agrees(source, Known(calc), calc.overrides, calc.links,
              IF policy.calc = "remove" THEN R2 \ {CalcChain} ELSE R2,
              CalcEntries(e, m, policy.calc), CalcOmitted(om2, policy.calc))
  <2>1. IsSource(source) /\ Readable(source)
    BY DEF Agreement
  <2> QED
    BY <1>5, <1>8, <1>9, <1>10, <2>1, CalcKeeps DEF calc
<1>12. DOMAIN replaced' = IF policy.calc = "remove" THEN R2 \ {CalcChain} ELSE R2
  <2>1. CalcChain \notin Known(m) => R2 \ {CalcChain} = R2
    BY <1>10 DEF Agrees, PartsAgree
  <2>2. CASE calcGone
    <3>1. DOMAIN replaced' = R2 \ {CalcChain}
      BY <1>1, <1>4, <2>2, WithoutDomain
    <3> QED
      BY <2>2, <3>1
  <2>3. CASE ~calcGone
    BY <1>1, <1>4, <2>1, <2>3
  <2> QED
    BY <2>2, <2>3
<1>13. /\ Known(manifest)' = Known(calc)
       /\ manifest'.overrides = calc.overrides /\ manifest'.links = calc.links
  <2>1. Sheet \in Known(calc) /\ Workbook \in Known(calc)
    BY <1>2, <1>3, <1>7, <1>9
  <2>2. Known(after) = Known(calc)
    BY <1>6, <2>1
  <2>3. CASE full
    <3>1. manifest' = SetMode(after, Workbook, "dom")
      BY <1>1, <2>3
    <3>2. /\ Known(SetMode(after, Workbook, "dom")) = Known(after) \cup {Workbook}
          /\ SetMode(after, Workbook, "dom").overrides = after.overrides
          /\ SetMode(after, Workbook, "dom").links = after.links
      BY SetModeFields
    <3>3. Known(manifest)' = Known(SetMode(after, Workbook, "dom"))
      BY <3>1 DEF Known
    <3> QED
      BY <1>6, <2>1, <2>2, <3>1, <3>2, <3>3
  <2>4. CASE ~full
    <3>1. manifest' = after
      BY <1>1, <2>4
    <3>2. Known(manifest)' = Known(after)
      BY <3>1 DEF Known
    <3> QED
      BY <1>6, <2>2, <3>1, <3>2
  <2> QED
    BY <2>3, <2>4
<1> QED
  BY <1>1, <1>11, <1>12, <1>13 DEF Agreement, IsSource, Readable

LEMMA RequestKeeps ==
    ASSUME Agreement, NEW action, RequestFullCalculation(action)
    PROVE  Agreement'
<1> DEFINE m == manifest
           calc == CalcManifest(m, action)
           r == With(replaced, Workbook, Xml("dom", TRUE))
           R2 == DOMAIN replaced \cup {Workbook}
           om2 == Unomitted(omitted, Workbook)
<1>1. /\ manifest' = SetMode(calc, Workbook, "dom")
      /\ replaced' = IF action = "remove" THEN Without(r, CalcChain) ELSE r
      /\ entries' = CalcEntries(entries, m, action)
      /\ omitted' = CalcOmitted(om2, action)
      /\ source' = source
      /\ Workbook \in Known(manifest)
  BY DEF RequestFullCalculation, Commit, WorkbookReady
<1>2. /\ IsSource(source) /\ Readable(source)
      /\ Agrees(source, Known(m), m.overrides, m.links, DOMAIN replaced, entries, omitted)
      /\ TypesIn(source, entries) = m.overrides
  BY DEF Agreement, Agrees, TypesAgree
<1>3. DOMAIN r = R2
  BY WithDomain
<1>4. DOMAIN replaced' = IF action = "remove" THEN R2 \ {CalcChain} ELSE R2
  <2> HIDE DEF r, R2
  <2>1. CASE action = "remove"
    <3>1. replaced' = Without(r, CalcChain)
      BY <1>1, <2>1
    <3>2. DOMAIN Without(r, CalcChain) = R2 \ {CalcChain}
      BY <1>3, WithoutDomain
    <3> QED
      BY <2>1, <3>1, <3>2
  <2>2. CASE action # "remove"
    BY <1>1, <1>3, <2>2
  <2> QED
    BY <2>1, <2>2
<1> HIDE DEF m, r
<1>5. /\ Agrees(source, Known(m), m.overrides, m.links, R2, entries, omitted)
      /\ omitted \ {PartEntry(Workbook)} = omitted
  BY <1>1, <1>2, PutPart DEF m
<1>6. Agrees(source, Known(m), m.overrides, m.links, R2, entries, om2)
  BY <1>5 DEF Unomitted
<1>7. SameLinks(source, entries, entries)
  BY DEF SameLinks
<1> HIDE DEF om2, R2
<1>8. Workbook \in Known(m)
  BY <1>1 DEF m
<1>9. Agrees(source, Known(calc), calc.overrides, calc.links,
             IF action = "remove" THEN R2 \ {CalcChain} ELSE R2,
             CalcEntries(entries, m, action), CalcOmitted(om2, action))
  BY <1>2, <1>6, <1>7, <1>8, CalcKeeps
<1> HIDE DEF calc
<1>10. Workbook \in Known(calc)
  BY <1>8, CalcManifestFields, Distinct DEF calc
<1>11. /\ Known(SetMode(calc, Workbook, "dom")) = Known(calc)
       /\ SetMode(calc, Workbook, "dom").overrides = calc.overrides
       /\ SetMode(calc, Workbook, "dom").links = calc.links
  <2>1. /\ Known(SetMode(calc, Workbook, "dom")) = Known(calc) \cup {Workbook}
        /\ SetMode(calc, Workbook, "dom").overrides = calc.overrides
        /\ SetMode(calc, Workbook, "dom").links = calc.links
    BY SetModeFields
  <2> QED
    BY <1>10, <2>1
<1>12. Known(manifest)' = Known(calc)
  BY <1>1, <1>11 DEF Known
<1> QED
  BY <1>1, <1>2, <1>4, <1>9, <1>11, <1>12 DEF Agreement, IsSource, Readable

LEMMA RenameKeeps ==
    ASSUME Agreement, RenameSheetCatalogEntry
    PROVE  Agreement'
<1> DEFINE m2 == SetMode(manifest, Workbook, "dom")
           R == DOMAIN replaced
           K == Known(manifest)
<1>1. /\ manifest' = m2
      /\ replaced' = With(replaced, Workbook, Xml("dom", CurrentFull))
      /\ entries' = entries
      /\ omitted' = omitted \ {PartEntry(Workbook)}
      /\ source' = source
      /\ Workbook \in K
  BY DEF RenameSheetCatalogEntry, Commit, Unomitted
<1>2. Agrees(source, K, manifest.overrides, manifest.links, R, entries, omitted)
  BY DEF Agreement
<1>3. DOMAIN replaced' = R \cup {Workbook}
  BY <1>1, WithDomain
<1>4. Known(m2) = K /\ m2.overrides = manifest.overrides /\ m2.links = manifest.links
  BY <1>1, SetModeFields
<1>5. Known(manifest)' = Known(m2)
  BY <1>1 DEF Known
<1> HIDE DEF m2, R, K
<1>6. /\ Agrees(source, K, manifest.overrides, manifest.links, R \cup {Workbook}, entries, omitted)
      /\ omitted \ {PartEntry(Workbook)} = omitted
  BY <1>1, <1>2, PutPart
<1> QED
  BY <1>1, <1>3, <1>4, <1>5, <1>6 DEF Agreement, IsSource, Readable

LEMMA PropertiesKeep ==
    ASSUME Agreement, SetDocumentProperties
    PROVE  Agreement'
<1> DEFINE typed == Generated(Generated(manifest, Core), App)
           linked == WithPackageLink(typed, "core", Core)
           m == WithPackageLink(linked, "app", App)
           newTypes == ~({Core, App} \subseteq Known(manifest) \cap manifest.overrides)
           newLinks == m.links # manifest.links
           e1 == IF newTypes THEN With(entries, TypesEntry, m.overrides) ELSE entries
           e2 == IF newLinks
                 THEN With(e1, RelsEntry(Package), LinksOf(m.links, Package)) ELSE e1
           props == Xml("generate", FALSE)
           K == Known(manifest)
           ov == manifest.overrides
<1>1. /\ manifest' = m
      /\ replaced' = With(With(replaced, Core, props), App, props)
      /\ entries' = e2
      /\ omitted' = (omitted \ {PartEntry(Core)}) \ {PartEntry(App)}
      /\ source' = source
  BY DEF SetDocumentProperties, Commit, Unomitted
<1>2. /\ IsSource(source) /\ Readable(source)
      /\ Agrees(source, K, ov, manifest.links, DOMAIN replaced, entries, omitted)
  BY DEF Agreement
<1>3. /\ Known(m) = K \cup {Core, App} /\ m.overrides = ov \cup {Core, App}
      /\ \A o : o # Package => LinksOf(m.links, o) = LinksOf(manifest.links, o)
  <2>1. /\ Known(typed) = K \cup {Core, App} /\ typed.overrides = ov \cup {Core, App}
        /\ typed.links = manifest.links
    <3> DEFINE first == Generated(manifest, Core)
    <3>1. Known(first) = K \cup {Core} /\ first.overrides = ov \cup {Core}
          /\ first.links = manifest.links
      BY GeneratedFields
    <3> HIDE DEF first
    <3>2. /\ Known(Generated(first, App)) = Known(first) \cup {App}
          /\ Generated(first, App).overrides = first.overrides \cup {App}
          /\ Generated(first, App).links = first.links
      BY GeneratedFields
    <3> QED
      BY <3>1, <3>2 DEF first
  <2> HIDE DEF typed, K, ov
  <2>2. /\ Known(linked) = Known(typed) /\ linked.overrides = typed.overrides
        /\ \A o : o # Package => LinksOf(linked.links, o) = LinksOf(typed.links, o)
    BY PackageLinkFields
  <2> HIDE DEF linked
  <2>3. /\ Known(m) = Known(linked) /\ m.overrides = linked.overrides
        /\ \A o : o # Package => LinksOf(m.links, o) = LinksOf(linked.links, o)
    BY PackageLinkFields
  <2> HIDE DEF m
  <2> QED
    BY <2>1, <2>2, <2>3
<1> HIDE DEF m
<1>4. Retypes(source, entries, e1, ov \cup {Core, App})
  <2>1. CASE newTypes
    <3>1. e1 = With(entries, TypesEntry, ov \cup {Core, App})
      BY <1>3, <2>1
    <3> QED
      BY <3>1, WithTypesRetypes
  <2>2. CASE ~newTypes
    <3>1. e1 = entries /\ ov \cup {Core, App} = ov
      BY <2>2
    <3>2. TypesIn(source, entries) = ov
      BY <1>2 DEF Agrees, TypesAgree
    <3> QED
      BY <3>1, <3>2, KeepingRetypes
  <2> QED
    BY <2>1, <2>2
<1>5. LinksIn(source, entries, Package) = LinksOf(manifest.links, Package)
  BY <1>2 DEF Agrees, LinksAgree
<1> HIDE DEF e1, K, ov
<1>6. /\ TypesIn(source, e2) = ov \cup {Core, App}
      /\ LinksIn(source, e2, Package) = LinksOf(m.links, Package)
      /\ \A o : o # Package => LinksIn(source, e2, o) = LinksIn(source, entries, o)
      /\ DOMAIN e2 \subseteq DOMAIN entries \cup {TypesEntry, RelsEntry(Package)}
  <2>1. CASE newLinks
    <3> DEFINE links == LinksOf(m.links, Package)
               e3 == With(e1, RelsEntry(Package), links)
    <3>1. e2 = e3
      BY <2>1
    <3>2. TypesIn(source, e3) = TypesIn(source, e1)
      BY WithLinksTypes
    <3>3. LinksIn(source, e3, Package) = links
      BY WithOwnLinks
    <3>4. ASSUME NEW o, o # Package
          PROVE  LinksIn(source, e3, o) = LinksIn(source, e1, o)
      BY <3>4, WithOtherLinks
    <3>5. DOMAIN e3 = DOMAIN e1 \cup {RelsEntry(Package)}
      BY WithDomain
    <3> HIDE DEF e3, e2
    <3> QED
      BY <1>4, <3>1, <3>2, <3>3, <3>4, <3>5 DEF Retypes, SameLinks
  <2>2. CASE ~newLinks
    <3>1. e2 = e1 /\ m.links = manifest.links
      BY <2>2
    <3> QED
      BY <1>4, <1>5, <3>1 DEF Retypes, SameLinks
  <2> QED
    BY <2>1, <2>2
<1> HIDE DEF e2
<1>7. Agrees(source, K \cup {Core, App}, ov \cup {Core, App}, m.links,
             DOMAIN replaced \cup {Core, App}, e2,
             omitted \ {PartEntry(Core), PartEntry(App)})
  BY <1>2, <1>3, <1>6, GenerateProperties
<1>8. DOMAIN replaced' = DOMAIN replaced \cup {Core, App}
  <2>1. DOMAIN With(replaced, Core, props) = DOMAIN replaced \cup {Core}
    BY WithDomain
  <2> DEFINE r == With(replaced, Core, props)
  <2> HIDE DEF r
  <2>2. DOMAIN With(r, App, props) = DOMAIN r \cup {App}
    BY WithDomain
  <2> QED
    BY <1>1, <2>1, <2>2 DEF r
<1>9. Known(manifest)' = Known(m)
  BY <1>1 DEF Known
<1>10. omitted' = omitted \ {PartEntry(Core), PartEntry(App)}
  BY <1>1
<1> QED
  BY <1>1, <1>2, <1>3, <1>7, <1>8, <1>9, <1>10 DEF Agreement, IsSource, Readable

(***************************************************************************)
(* The specification                                                       *)
(***************************************************************************)
LEMMA OpenAgrees ==
    ASSUME AgreementInv, Open
    PROVE  AgreementInv'
<1>1. /\ opened = "no" /\ opened' = IF Readable(source) THEN "yes" ELSE "rejected"
      /\ UNCHANGED <<source, manifest, replaced, entries, omitted>>
  BY DEF Open
<1>2. IsSource(source) /\ Unstaged
  BY <1>1 DEF AgreementInv
<1>3. IsSource(source)'
  BY <1>1, <1>2 DEF IsSource
<1>4. ASSUME Readable(source)
      PROVE  Agreement'
  <2> DEFINE K == source.parts
             ov == source.overrides
             li == source.links
  <2>1. Known(manifest) = K /\ manifest.overrides = ov /\ manifest.links = li
    <3>1. manifest = Manifest([p \in K |-> "copy"], ov, li)
      BY <1>2 DEF Unstaged, CopyManifest
    <3>2. DOMAIN [p \in K |-> "copy"] = K
      OBVIOUS
    <3> QED
      BY <3>1, <3>2, ManifestFields
  <2>2. DOMAIN replaced = {} /\ DOMAIN entries = {} /\ omitted = {}
    BY <1>2 DEF Unstaged
  <2>3. PartsAgree(source, K, DOMAIN replaced, omitted)
    BY <2>2 DEF PartsAgree
  <2>4. TypesAgree(source, ov, entries, omitted)
    BY <2>2 DEF TypesAgree, TypesIn
  <2>5. LinksAgree(source, K, li, entries, omitted)
    BY <2>2 DEF LinksAgree, LinksIn
  <2>6. RemovedGone(source, K, li, entries, omitted)
    <3>1. ASSUME NEW p \in Parts \ K
          PROVE  LinksOf(li, p) = {} /\ RelsEntry(p) \notin SourceNames(source)
      <4>1. p # Package
        BY Distinct
      <4> QED
        BY <1>2, <1>4, <4>1, SourceLinks
    <3> QED
      BY <2>2, <3>1 DEF RemovedGone
  <2>7. EntriesNamed(entries, omitted)
    BY <2>2 DEF EntriesNamed
  <2>8. Agreement
    BY <1>2, <1>4, <2>1, <2>3, <2>4, <2>5, <2>6, <2>7 DEF Agreement, Agrees
  <2> QED
    BY <1>1, <2>8 DEF Agreement, Known, IsSource, Readable
<1> QED
  BY <1>1, <1>3, <1>4 DEF AgreementInv

LEMMA AgreementStep ==
    ASSUME AgreementInv, [Next]_vars
    PROVE  AgreementInv'
<1>1. CASE UNCHANGED vars
  BY <1>1 DEF vars, AgreementInv, Agreement, Unstaged, Known, IsSource, Readable, CopyManifest
<1>2. CASE Open
  BY <1>2, OpenAgrees
<1>3. ASSUME Ready, Agreement', UNCHANGED <<source, opened>>
      PROVE  AgreementInv'
  BY <1>3 DEF AgreementInv, Ready, IsSource, Agreement
<1>4. Ready => Agreement
  BY DEF AgreementInv, Ready
<1>5. ASSUME NEW p \in Parts, NEW mode \in Modes, ReplacePart(p, mode)
      PROVE  AgreementInv'
  <2>1. /\ Ready /\ p \in Known(manifest) \cup source.parts
        /\ StagePart(p, Xml(mode, p = Workbook /\ plan.full))
    BY <1>5 DEF ReplacePart
  <2>2. UNCHANGED <<source, opened>>
    BY <2>1 DEF StagePart, Commit
  <2> QED
    BY <1>3, <1>4, <2>1, <2>2, StagePartKeeps
<1>6. ASSUME NEW p \in Parts, ReplacePartChunks(p)
      PROVE  AgreementInv'
  <2>1. /\ Ready /\ p \in Known(manifest) \cup source.parts
        /\ StagePart(p, Chunks("stream", {}))
    BY <1>6 DEF ReplacePartChunks
  <2>2. UNCHANGED <<source, opened>>
    BY <2>1 DEF StagePart, Commit
  <2> QED
    BY <1>3, <1>4, <2>1, <2>2, StagePartKeeps
<1>7. ASSUME NEW p \in Parts, NEW fail \in BOOLEAN, RemovePart(p, fail)
      PROVE  AgreementInv'
  <2>1. Ready /\ UNCHANGED <<source, opened>>
    BY <1>7 DEF RemovePart, Commit
  <2> QED
    BY <1>3, <1>4, <1>7, <2>1, RemovePartKeeps
<1>8. ASSUME NEW policy, NEW mode, NEW owned, Ready,
             Sheet \in Known(manifest) \cup source.parts,
             StageWorksheet(policy, mode, owned)
      PROVE  AgreementInv'
  <2>1. UNCHANGED <<source, opened>>
    BY <1>8 DEF StageWorksheet, Commit
  <2> QED
    BY <1>3, <1>4, <1>8, <2>1, StageWorksheetKeeps
<1>9. ASSUME NEW policy \in Policies,
             \/ ReplaceWorksheetFromChunkSource(policy)
             \/ ReplaceWorksheetChunks(policy)
             \/ ReplaceWorksheetSheetData(policy)
             \/ ReplaceWorksheetCells(policy)
             \/ \E inflated \in BOOLEAN : ReplaceWorksheetCellsIndexed(policy, inflated)
      PROVE  AgreementInv'
  <2>1. CASE ReplaceWorksheetFromChunkSource(policy)
    BY <1>8, <2>1 DEF ReplaceWorksheetFromChunkSource
  <2>2. CASE ReplaceWorksheetChunks(policy)
    BY <1>8, <2>2 DEF ReplaceWorksheetChunks
  <2>3. CASE ReplaceWorksheetSheetData(policy)
    BY <1>8, <2>3 DEF ReplaceWorksheetSheetData
  <2>4. CASE ReplaceWorksheetCells(policy)
    BY <1>8, <2>4 DEF ReplaceWorksheetCells
  <2>5. ASSUME NEW inflated \in BOOLEAN, ReplaceWorksheetCellsIndexed(policy, inflated)
        PROVE  AgreementInv'
    BY <1>8, <2>5 DEF ReplaceWorksheetCellsIndexed
  <2> QED
    BY <1>9, <2>1, <2>2, <2>3, <2>4, <2>5
<1>10. ASSUME NEW action \in {"preserve", "remove"}, RequestFullCalculation(action)
       PROVE  AgreementInv'
  <2>1. Ready /\ UNCHANGED <<source, opened>>
    BY <1>10 DEF RequestFullCalculation, Commit
  <2> QED
    BY <1>3, <1>4, <1>10, <2>1, RequestKeeps
<1>11. CASE RenameSheetCatalogEntry
  <2>1. Ready /\ UNCHANGED <<source, opened>>
    BY <1>11 DEF RenameSheetCatalogEntry, Commit
  <2> QED
    BY <1>3, <1>4, <1>11, <2>1, RenameKeeps
<1>12. CASE SetDocumentProperties
  <2>1. Ready /\ UNCHANGED <<source, opened>>
    BY <1>12 DEF SetDocumentProperties, Commit
  <2> QED
    BY <1>3, <1>4, <1>12, <2>1, PropertiesKeep
<1> QED
  BY <1>1, <1>2, <1>5, <1>6, <1>7, <1>9, <1>10, <1>11, <1>12 DEF Next

LEMMA AgreementIsInvariant == Spec => []AgreementInv
<1>1. Init => AgreementInv
  BY SourcesAssumption DEF Init, AgreementInv, Unstaged
<1> QED
  BY <1>1, AgreementStep, PTL DEF Spec

LEMMA AgreementMeansOutput == AgreementInv => OutputFollowsManifest
<1> SUFFICES ASSUME AgreementInv, opened = "yes"
             PROVE  /\ {p \in Parts : PartEntry(p) \in Written} = Known(manifest)
                    /\ OutputTypes = manifest.overrides
                    /\ \A o \in Known(manifest) \cup {Package} :
                           OutputLinks(o) = LinksOf(manifest.links, o)
                    /\ \A o \in Parts \ Known(manifest) : OutputLinks(o) = {}
  BY DEF OutputFollowsManifest
<1>1. Agreement
  BY DEF AgreementInv
<1>2. SourceEntries = SourceNames(source)
  BY DEF SourceEntries, SourceNames
<1>3. \A p : PartEntry(p) \in Planned <=> p \in source.parts \cup DOMAIN replaced
  <2>1. \A p : PartEntry(p) \in SourceNames(source) <=> p \in source.parts
    BY PartEntryInjective, EntryKindsDiffer DEF SourceNames
  <2>2. \A p : PartEntry(p) \notin DOMAIN entries
    BY <1>1, EntryKindsDiffer DEF Agreement, Agrees, EntriesNamed
  <2> QED
    BY <1>2, <2>1, <2>2, PartEntryInjective DEF Planned
<1>4. \A o : RelsEntry(o) \in Planned
                 <=> RelsEntry(o) \in SourceNames(source) \/ RelsEntry(o) \in DOMAIN entries
  BY <1>2, EntryKindsDiffer DEF Planned
<1>5. {p \in Parts : PartEntry(p) \in Written} = Known(manifest)
  BY <1>1, <1>3, KnownParts DEF Written, Agreement, Agrees, PartsAgree
<1>6. OutputTypes = manifest.overrides
  BY <1>1 DEF OutputTypes, Agreement, Agrees, TypesAgree, TypesIn
<1>7. ASSUME NEW o \in Known(manifest) \cup {Package}
      PROVE  OutputLinks(o) = LinksOf(manifest.links, o)
  <2>1. /\ RelsEntry(o) \notin omitted
        /\ LinksIn(source, entries, o) = LinksOf(manifest.links, o)
    BY <1>1 DEF Agreement, Agrees, LinksAgree
  <2>2. CASE RelsEntry(o) \in Planned
    BY <2>1, <2>2 DEF OutputLinks, Written, LinksIn
  <2>3. CASE RelsEntry(o) \notin Planned
    <3>1. LinksOf(source.links, o) = {} /\ RelsEntry(o) \notin DOMAIN entries
      BY <1>1, <1>4, <2>3, SourceLinks DEF Agreement
    <3> QED
      BY <2>1, <2>3, <3>1 DEF OutputLinks, Written, LinksIn
  <2> QED
    BY <2>2, <2>3
<1>8. ASSUME NEW o \in Parts \ Known(manifest)
      PROVE  OutputLinks(o) = {}
  BY <1>1, <1>4 DEF OutputLinks, Written, Agreement, Agrees, RemovedGone
<1> QED
  BY <1>5, <1>6, <1>7, <1>8

(* For every source package and any number of operations: what a save      *)
(* writes is what the manifest describes.                                  *)
THEOREM OutputIsTheManifest == Spec => []OutputFollowsManifest
BY AgreementIsInvariant, AgreementMeansOutput, PTL

(***************************************************************************)
(* What one operation does to replacements, modes and temporary files      *)
(***************************************************************************)
\* The replacement of q is the one there was.
Carried(q) ==
    /\ q \in DOMAIN replaced /\ replaced'[q] = replaced[q]
    /\ manifest'.parts[q] = manifest.parts[q]

\* The replacement of q is new: its mode is planned, its files are owned.
Fresh(q) ==
    /\ replaced'[q] \in Payload
    /\ replaced'[q].form = "xml" <=> q \in SmallParts
    /\ replaced'[q].files \subseteq files'
    /\ manifest'.parts[q] = replaced'[q].mode

\* The part q has no replacement, now and before.
Untouched(q) ==
    /\ q \in Known(manifest) \ DOMAIN replaced
    /\ manifest'.parts[q] = manifest.parts[q]

Effect ==
    /\ edits' = edits + 1 /\ files \subseteq files' /\ files' \subseteq files \cup {edits + 1}
    /\ \A q \in DOMAIN replaced' : Carried(q) \/ Fresh(q)
    /\ \A q \in Known(manifest)' \ DOMAIN replaced' : Untouched(q)

LEMMA ManifestParts ==
    ASSUME NEW a, NEW b, NEW c
    PROVE  Manifest(a, b, c).parts = a
BY DEF Manifest

LEMMA PlannedParts ==
    ASSUME NEW p, NEW q \in Known(manifest), q # p
    PROVE  PlannedManifest(p).parts[q] = manifest.parts[q]
<1>1. CASE p \in Known(manifest)
  BY <1>1 DEF PlannedManifest
<1>2. CASE p \notin Known(manifest)
  <2> DEFINE a == With(manifest.parts, p, "copy")
  <2>1. PlannedManifest(p).parts = a
    BY <1>2, ManifestParts DEF PlannedManifest, Restored
  <2>2. a[q] = manifest.parts[q]
    BY WithOld DEF Known
  <2> QED
    BY <2>1, <2>2
<1> QED
  BY <1>1, <1>2

LEMMA PlannedKnown ==
    ASSUME NEW p
    PROVE  Known(PlannedManifest(p)) = Known(manifest) \cup {p}
<1>1. CASE p \in Known(manifest)
  BY <1>1 DEF PlannedManifest
<1>2. CASE p \notin Known(manifest)
  BY <1>2, RestoredFields DEF PlannedManifest
<1> QED
  BY <1>1, <1>2

LEMMA SetModeParts ==
    ASSUME NEW m, NEW p, NEW mode
    PROVE  /\ SetMode(m, p, mode).parts[p] = mode
           /\ \A q \in Known(m) : q # p => SetMode(m, p, mode).parts[q] = m.parts[q]
<1> DEFINE a == With(m.parts, p, mode)
<1>1. SetMode(m, p, mode).parts = a
  BY ManifestParts DEF SetMode
<1>2. a[p] = mode
  BY WithNew
<1>3. ASSUME NEW q \in Known(m), q # p
      PROVE  a[q] = m.parts[q]
  BY <1>3, WithOld DEF Known
<1> HIDE DEF a
<1> QED
  BY <1>1, <1>2, <1>3

LEMMA StagePartEffect ==
    ASSUME NEW p, NEW payload \in Payload, payload.form = "xml" <=> p \in SmallParts,
           payload.files = {}, DOMAIN replaced \subseteq Known(manifest),
           StagePart(p, payload)
    PROVE  Effect
<1> DEFINE m == PlannedManifest(p)
           m2 == SetMode(m, p, payload.mode)
<1>1. /\ manifest' = m2 /\ replaced' = With(replaced, p, payload)
      /\ files' = files /\ edits' = edits + 1
  BY DEF StagePart, Commit
<1>2. DOMAIN replaced' = DOMAIN replaced \cup {p}
  BY <1>1, WithDomain
<1>3. replaced'[p] = payload
  BY <1>1, WithNew
<1>4. ASSUME NEW q \in DOMAIN replaced, q # p
      PROVE  replaced'[q] = replaced[q]
  BY <1>1, <1>4, WithOld
<1>5. Known(m) = Known(manifest) \cup {p}
  BY PlannedKnown
<1>6. Known(manifest)' = Known(manifest) \cup {p}
  <2>1. Known(m2) = Known(m) \cup {p}
    BY SetModeFields
  <2> QED
    BY <1>1, <1>5, <2>1 DEF Known
<1>7. manifest'.parts[p] = payload.mode
  BY <1>1, SetModeParts
<1>8. ASSUME NEW q \in Known(manifest), q # p
      PROVE  manifest'.parts[q] = manifest.parts[q]
  <2>1. m2.parts[q] = m.parts[q]
    BY <1>5, <1>8, SetModeParts
  <2> QED
    BY <1>1, <1>8, <2>1, PlannedParts
<1> HIDE DEF m, m2
<1>9. Fresh(p)
  BY <1>3, <1>7 DEF Fresh
<1>10. ASSUME NEW q \in DOMAIN replaced'
       PROVE  Carried(q) \/ Fresh(q)
  BY <1>2, <1>4, <1>8, <1>9 DEF Carried
<1>11. ASSUME NEW q \in Known(manifest)' \ DOMAIN replaced'
       PROVE  Untouched(q)
  BY <1>2, <1>6, <1>8 DEF Untouched
<1> QED
  BY <1>1, <1>10, <1>11 DEF Effect

LEMMA RemovePartEffect ==
    ASSUME NEW p, NEW fail, DOMAIN replaced \subseteq Known(manifest), RemovePart(p, fail)
    PROVE  Effect
<1> DEFINE m == Removed(manifest, p)
           a == Without(manifest.parts, p)
<1>1. /\ manifest' = m /\ replaced' = Without(replaced, p)
      /\ files' = files /\ edits' = edits + 1
  BY DEF RemovePart, Commit
<1>2. DOMAIN replaced' = DOMAIN replaced \ {p}
  BY <1>1, WithoutDomain
<1>3. Known(manifest)' = Known(manifest) \ {p}
  <2>1. Known(m) = Known(manifest) \ {p}
    BY RemovedFields
  <2> QED
    BY <1>1, <2>1 DEF Known
<1>4. m.parts = a
  BY ManifestParts DEF Removed
<1>5. ASSUME NEW q \in Known(manifest), q # p
      PROVE  manifest'.parts[q] = manifest.parts[q]
  <2>1. a[q] = manifest.parts[q]
    BY <1>5, WithoutOld DEF Known
  <2> QED
    BY <1>1, <1>4, <2>1
<1>6. ASSUME NEW q \in DOMAIN replaced, q # p
      PROVE  replaced'[q] = replaced[q]
  BY <1>1, <1>6, WithoutOld
<1> HIDE DEF m, a
<1>7. ASSUME NEW q \in DOMAIN replaced'
      PROVE  Carried(q)
  BY <1>2, <1>5, <1>6 DEF Carried
<1>8. ASSUME NEW q \in Known(manifest)' \ DOMAIN replaced'
      PROVE  Untouched(q)
  BY <1>2, <1>3, <1>5 DEF Untouched
<1> QED
  BY <1>1, <1>7, <1>8 DEF Effect

LEMMA CalcManifestParts ==
    ASSUME NEW m, NEW action, NEW q \in Known(m), q # CalcChain
    PROVE  CalcManifest(m, action).parts[q] = m.parts[q]
<1>1. CASE action # "remove"
  BY <1>1 DEF CalcManifest
<1>2. CASE action = "remove"
  <2> DEFINE a == Without(m.parts, CalcChain)
  <2>1. CalcManifest(m, action).parts = a
    BY <1>2, ManifestParts DEF CalcManifest, WithoutCalcLinks, Removed
  <2>2. a[q] = m.parts[q]
    BY WithoutOld DEF Known
  <2> QED
    BY <2>1, <2>2
<1> QED
  BY <1>1, <1>2

\* The two payloads the workbook and worksheet operations stage.
LEMMA XmlPayload ==
    ASSUME NEW mode \in Modes, NEW full \in BOOLEAN
    PROVE  /\ Xml(mode, full) \in Payload /\ Xml(mode, full).form = "xml"
           /\ Xml(mode, full).files = {} /\ Xml(mode, full).mode = mode
           /\ Xml(mode, full).full = full
BY DEF Xml, Payload

LEMMA ChunksPayload ==
    ASSUME NEW mode \in Modes, NEW owned \in SUBSET (1..MaxEdits)
    PROVE  /\ Chunks(mode, owned) \in Payload /\ Chunks(mode, owned).form = "chunks"
           /\ Chunks(mode, owned).files = owned /\ Chunks(mode, owned).mode = mode
BY DEF Chunks, Payload

LEMMA PartKinds ==
    /\ Workbook \in SmallParts /\ Sheet \notin SmallParts /\ CalcChain \notin SmallParts
    /\ Core \in SmallParts /\ App \in SmallParts
    /\ Workbook # Sheet /\ Workbook # CalcChain /\ Sheet # CalcChain
    /\ Workbook # Core /\ Workbook # App /\ Core # App
BY Distinct DEF SmallParts

LEMMA StageWorksheetEffect ==
    ASSUME DOMAIN replaced \subseteq Known(manifest), edits \in Nat, edits < MaxEdits,
           NEW policy, NEW mode \in Modes, NEW owned, StageWorksheet(policy, mode, owned)
    PROVE  Effect
<1> DEFINE m == PlannedManifest(Sheet)
           full == RequestsFull(policy, m)
           calc == CalcManifest(m, policy.calc)
           after == SetMode(calc, Sheet, mode)
           own == IF owned THEN {edits + 1} ELSE {}
           sheet == Chunks(mode, own)
           calcGone == policy.calc = "remove" /\ CalcChain \in Known(m)
           book == Xml("dom", TRUE)
           r1 == With(replaced, Sheet, sheet)
           r2 == IF full THEN With(r1, Workbook, book) ELSE r1
           R == DOMAIN replaced
<1>1. /\ manifest' = IF full THEN SetMode(after, Workbook, "dom") ELSE after
      /\ replaced' = IF calcGone THEN Without(r2, CalcChain) ELSE r2
      /\ files' = files \cup sheet.files /\ edits' = edits + 1
      /\ Workbook \in Known(manifest)
  BY DEF StageWorksheet, Commit, WorkbookReady, OwnedFiles
<1>2. own \in SUBSET (1..MaxEdits)
  BY PartsAssumption
<1>3. sheet \in Payload /\ sheet.form = "chunks" /\ sheet.files = own /\ sheet.mode = mode
  BY <1>2, ChunksPayload
<1>4. book \in Payload /\ book.form = "xml" /\ book.files = {} /\ book.mode = "dom"
  BY XmlPayload DEF Modes
<1>5. Known(m) = Known(manifest) \cup {Sheet}
  BY PlannedKnown
<1>6. /\ Known(calc) \subseteq Known(m) /\ Known(m) \ {CalcChain} \subseteq Known(calc)
      /\ policy.calc = "remove" => CalcChain \notin Known(calc)
      /\ policy.calc # "remove" => Known(calc) = Known(m)
  BY CalcManifestFields
<1>7. /\ Sheet \in DOMAIN r2 /\ r2[Sheet] = sheet
      /\ full => Workbook \in DOMAIN r2 /\ r2[Workbook] = book
      /\ R \subseteq DOMAIN r2
      /\ DOMAIN r2 \subseteq IF full THEN R \cup {Sheet, Workbook} ELSE R \cup {Sheet}
      /\ \A q \in R : q # Sheet /\ (full => q # Workbook) => r2[q] = replaced[q]
  <2>1. DOMAIN r1 = R \cup {Sheet}
    BY WithDomain
  <2>2. r1[Sheet] = sheet
    BY WithNew
  <2>3. ASSUME NEW q \in R, q # Sheet
        PROVE  r1[q] = replaced[q]
    BY <2>3, WithOld
  <2> HIDE DEF r1, book, full, sheet, R
  <2>4. DOMAIN With(r1, Workbook, book) = DOMAIN r1 \cup {Workbook}
    BY WithDomain
  <2>5. With(r1, Workbook, book)[Workbook] = book
    BY WithNew
  <2>6. ASSUME NEW q \in DOMAIN r1, q # Workbook
        PROVE  With(r1, Workbook, book)[q] = r1[q]
    BY <2>6, WithOld
  <2>7. CASE full
    <3> DEFINE r == With(r1, Workbook, book)
    <3>1. r2 = r
      BY <2>7
    <3>2. r[Sheet] = sheet
      BY <2>1, <2>2, <2>6, PartKinds
    <3>3. \A q \in R : q # Sheet /\ q # Workbook => r[q] = replaced[q]
      BY <2>1, <2>3, <2>6
    <3> HIDE DEF r, r2
    <3> QED
      BY <2>1, <2>4, <2>5, <2>7, <3>1, <3>2, <3>3 DEF r
  <2>8. CASE ~full
    BY <2>1, <2>2, <2>3, <2>8
  <2> QED
    BY <2>7, <2>8
<1> HIDE DEF r1, r2, sheet, book, R
<1>8. /\ DOMAIN replaced' = IF calcGone THEN DOMAIN r2 \ {CalcChain} ELSE DOMAIN r2
      /\ \A q \in DOMAIN replaced' : replaced'[q] = r2[q]
  <2>1. CASE calcGone
    <3>1. replaced' = Without(r2, CalcChain)
      BY <1>1, <2>1
    <3>2. DOMAIN replaced' = DOMAIN r2 \ {CalcChain}
      BY <3>1, WithoutDomain
    <3>3. ASSUME NEW q \in DOMAIN replaced'
          PROVE  replaced'[q] = r2[q]
      BY <3>1, <3>2, WithoutOld
    <3> QED
      BY <2>1, <3>2, <3>3
  <2>2. CASE ~calcGone
    BY <1>1, <2>2
  <2> QED
    BY <2>1, <2>2
<1> HIDE DEF full, m, calc
<1>9. /\ after.parts[Sheet] = mode
      /\ \A q \in Known(calc) : q # Sheet => after.parts[q] = calc.parts[q]
      /\ Known(after) = Known(calc) \cup {Sheet}
  BY SetModeParts, SetModeFields
<1>10. /\ manifest'.parts[Sheet] = mode
       /\ full => manifest'.parts[Workbook] = "dom"
       /\ \A q \in Known(calc) :
              q # Sheet /\ (full => q # Workbook) => manifest'.parts[q] = calc.parts[q]
       /\ Known(manifest)' \subseteq Known(calc) \cup {Sheet, Workbook}
  <2> HIDE DEF after
  <2>1. CASE full
    <3> DEFINE last == SetMode(after, Workbook, "dom")
    <3>1. manifest' = last
      BY <1>1, <2>1
    <3>2. last.parts[Workbook] = "dom"
      BY SetModeParts
    <3>3. ASSUME NEW q \in Known(after), q # Workbook
          PROVE  last.parts[q] = after.parts[q]
      BY <3>3, SetModeParts
    <3>4. Known(last) = Known(after) \cup {Workbook}
      BY SetModeFields
    <3> HIDE DEF last
    <3>5. Known(manifest)' = Known(last)
      BY <3>1 DEF Known
    <3> QED
      BY <1>9, <2>1, <3>1, <3>2, <3>3, <3>4, <3>5, PartKinds
  <2>2. CASE ~full
    <3>1. manifest' = after
      BY <1>1, <2>2
    <3>2. Known(manifest)' = Known(after)
      BY <3>1 DEF Known
    <3> QED
      BY <1>9, <2>2, <3>1, <3>2
  <2> QED
    BY <2>1, <2>2
<1>11. ASSUME NEW q \in Known(calc), q # Sheet, q # CalcChain
       PROVE  calc.parts[q] = manifest.parts[q]
  <2>1. q \in Known(m)
    BY <1>6, <1>11
  <2>2. calc.parts[q] = m.parts[q]
    BY <1>11, <2>1, CalcManifestParts DEF calc
  <2>3. q \in Known(manifest)
    BY <1>5, <1>11, <2>1
  <2> QED
    BY <1>11, <2>2, <2>3, PlannedParts DEF m
<1>12. ASSUME CalcChain \in Known(calc)
       PROVE  calc.parts[CalcChain] = manifest.parts[CalcChain]
  <2>1. policy.calc # "remove"
    BY <1>6, <1>12
  <2>2. calc = m
    BY <2>1 DEF calc, CalcManifest
  <2>3. CalcChain \in Known(manifest)
    BY <1>5, <1>12, <2>2, PartKinds
  <2> QED
    BY <2>2, <2>3, PlannedParts, PartKinds DEF m
<1>13. \A q \in Known(calc) : q # Sheet => calc.parts[q] = manifest.parts[q]
  BY <1>11, <1>12
<1>14. Fresh(Sheet)
  <2>1. Sheet \in DOMAIN replaced' /\ replaced'[Sheet] = sheet
    BY <1>7, <1>8, PartKinds
  <2> QED
    BY <1>1, <1>3, <1>10, <2>1, PartKinds DEF Fresh
<1>15. full => Fresh(Workbook)
  <2>1. full => Workbook \in DOMAIN replaced' /\ replaced'[Workbook] = book
    BY <1>7, <1>8, PartKinds
  <2> QED
    BY <1>4, <1>10, <2>1, PartKinds DEF Fresh
<1>16. ASSUME NEW q \in DOMAIN replaced'
       PROVE  Carried(q) \/ Fresh(q)
  <2>1. CASE q = Sheet \/ (full /\ q = Workbook)
    BY <1>14, <1>15, <2>1
  <2>2. CASE q # Sheet /\ (full => q # Workbook)
    <3>1. q \in R /\ replaced'[q] = replaced[q]
      BY <1>7, <1>8, <1>16, <2>2
    <3>2. q \in Known(m)
      BY <1>5, <3>1 DEF R
    <3>3. q \in Known(calc)
      BY <1>6, <1>8, <1>16, <3>2
    <3>4. manifest'.parts[q] = manifest.parts[q]
      BY <1>10, <1>13, <2>2, <3>3
    <3> QED
      BY <3>1, <3>4 DEF Carried, R
  <2> QED
    BY <2>1, <2>2
<1>17. ASSUME NEW q \in Known(manifest)' \ DOMAIN replaced'
       PROVE  Untouched(q)
  <2>1. q # Sheet /\ (full => q # Workbook)
    BY <1>7, <1>8, PartKinds
  <2>2. q \in Known(calc)
    BY <1>1, <1>5, <1>6, <1>10, <2>1, PartKinds
  <2>3. manifest'.parts[q] = manifest.parts[q]
    BY <1>10, <1>13, <2>1, <2>2
  <2>4. q \in Known(manifest)
    BY <1>5, <1>6, <2>1, <2>2
  <2>5. q \notin R
    BY <1>6, <1>7, <1>8, <2>2
  <2> QED
    BY <2>3, <2>4, <2>5 DEF Untouched, R
<1>18. edits' = edits + 1 /\ files \subseteq files' /\ files' \subseteq files \cup {edits + 1}
  BY <1>1, <1>3
<1> QED
  BY <1>16, <1>17, <1>18 DEF Effect

LEMMA RenameEffect ==
    ASSUME DOMAIN replaced \subseteq Known(manifest), CurrentFull \in BOOLEAN,
           RenameSheetCatalogEntry
    PROVE  Effect
<1> DEFINE m2 == SetMode(manifest, Workbook, "dom")
           book == Xml("dom", CurrentFull)
<1>1. /\ manifest' = m2 /\ replaced' = With(replaced, Workbook, book)
      /\ files' = files /\ edits' = edits + 1
      /\ Workbook \in Known(manifest)
  BY DEF RenameSheetCatalogEntry, Commit
<1>2. /\ book \in Payload /\ book.form = "xml" /\ book.files = {} /\ book.mode = "dom"
  BY XmlPayload DEF Modes
<1>3. DOMAIN replaced' = DOMAIN replaced \cup {Workbook}
  BY <1>1, WithDomain
<1>4. replaced'[Workbook] = book
  BY <1>1, WithNew
<1>5. ASSUME NEW q \in DOMAIN replaced, q # Workbook
      PROVE  replaced'[q] = replaced[q]
  BY <1>1, <1>5, WithOld
<1>6. /\ manifest'.parts[Workbook] = "dom"
      /\ \A q \in Known(manifest) : q # Workbook => manifest'.parts[q] = manifest.parts[q]
  BY <1>1, SetModeParts
<1>7. Known(manifest)' = Known(manifest)
  <2>1. Known(m2) = Known(manifest) \cup {Workbook}
    BY SetModeFields
  <2> QED
    BY <1>1, <2>1 DEF Known
<1> HIDE DEF m2, book
<1>8. Fresh(Workbook)
  BY <1>2, <1>4, <1>6, PartKinds DEF Fresh
<1>9. ASSUME NEW q \in DOMAIN replaced'
      PROVE  Carried(q) \/ Fresh(q)
  BY <1>3, <1>5, <1>6, <1>8 DEF Carried
<1>10. ASSUME NEW q \in Known(manifest)' \ DOMAIN replaced'
       PROVE  Untouched(q)
  BY <1>3, <1>6, <1>7 DEF Untouched
<1> QED
  BY <1>1, <1>9, <1>10 DEF Effect

LEMMA RequestEffect ==
    ASSUME DOMAIN replaced \subseteq Known(manifest), NEW action,
           RequestFullCalculation(action)
    PROVE  Effect
<1> DEFINE calc == CalcManifest(manifest, action)
           m2 == SetMode(calc, Workbook, "dom")
           book == Xml("dom", TRUE)
           r == With(replaced, Workbook, book)
<1>1. /\ manifest' = m2
      /\ replaced' = IF action = "remove" THEN Without(r, CalcChain) ELSE r
      /\ files' = files /\ edits' = edits + 1
      /\ Workbook \in Known(manifest)
  BY DEF RequestFullCalculation, Commit, WorkbookReady
<1>2. /\ book \in Payload /\ book.form = "xml" /\ book.files = {} /\ book.mode = "dom"
  BY XmlPayload DEF Modes
<1>3. DOMAIN r = DOMAIN replaced \cup {Workbook}
  BY WithDomain
<1>4. r[Workbook] = book
  BY WithNew, ZenonT(30)
<1>5. ASSUME NEW q \in DOMAIN replaced, q # Workbook
      PROVE  r[q] = replaced[q]
  BY <1>5, WithOld
<1> HIDE DEF r, book
<1>6. /\ DOMAIN replaced' = IF action = "remove" THEN DOMAIN r \ {CalcChain} ELSE DOMAIN r
      /\ \A q \in DOMAIN replaced' : replaced'[q] = r[q]
  <2>1. CASE action = "remove"
    <3>1. replaced' = Without(r, CalcChain)
      BY <1>1, <2>1
    <3>2. DOMAIN replaced' = DOMAIN r \ {CalcChain}
      BY <3>1, WithoutDomain
    <3>3. ASSUME NEW q \in DOMAIN replaced'
          PROVE  replaced'[q] = r[q]
      BY <3>1, <3>2, WithoutOld
    <3> QED
      BY <2>1, <3>2, <3>3
  <2>2. CASE action # "remove"
    BY <1>1, <2>2
  <2> QED
    BY <2>1, <2>2
<1>7. /\ Known(calc) \subseteq Known(manifest)
      /\ Known(manifest) \ {CalcChain} \subseteq Known(calc)
      /\ action = "remove" => CalcChain \notin Known(calc)
      /\ action # "remove" => calc = manifest
  BY CalcManifestFields DEF CalcManifest
<1>8. ASSUME NEW q \in Known(calc)
      PROVE  calc.parts[q] = manifest.parts[q]
  <2>1. CASE q = CalcChain
    BY <1>7, <1>8, <2>1
  <2>2. CASE q # CalcChain
    BY <1>7, <1>8, <2>2, CalcManifestParts
  <2> QED
    BY <2>1, <2>2
<1> HIDE DEF calc
<1>9. /\ manifest'.parts[Workbook] = "dom"
      /\ \A q \in Known(calc) : q # Workbook => manifest'.parts[q] = calc.parts[q]
  BY <1>1, SetModeParts
<1>10. Known(manifest)' = Known(calc) \cup {Workbook}
  <2>1. Known(m2) = Known(calc) \cup {Workbook}
    BY SetModeFields
  <2> QED
    BY <1>1, <2>1 DEF Known
<1> HIDE DEF m2
<1>11. Fresh(Workbook)
  <2>1. replaced'[Workbook] = book
    BY <1>3, <1>4, <1>6, PartKinds
  <2> QED
    BY <1>2, <1>9, <2>1, PartKinds DEF Fresh
<1>12. ASSUME NEW q \in DOMAIN replaced'
       PROVE  Carried(q) \/ Fresh(q)
  <2>1. CASE q = Workbook
    BY <1>11, <2>1
  <2>2. CASE q # Workbook
    <3>1. q \in DOMAIN replaced /\ replaced'[q] = replaced[q]
      BY <1>3, <1>5, <1>6, <1>12, <2>2
    <3>2. q \in Known(calc)
      BY <1>6, <1>7, <1>12, <3>1
    <3> QED
      BY <1>8, <1>9, <2>2, <3>1, <3>2 DEF Carried
  <2> QED
    BY <2>1, <2>2
<1>13. ASSUME NEW q \in Known(manifest)' \ DOMAIN replaced'
       PROVE  Untouched(q)
  <2>1. q # Workbook
    BY <1>3, <1>6, PartKinds
  <2>2. q \in Known(calc) /\ q \in Known(manifest)
    BY <1>7, <1>10, <2>1
  <2>3. q \notin DOMAIN replaced
    BY <1>3, <1>6, <1>7, <2>2
  <2> QED
    BY <1>8, <1>9, <2>1, <2>2, <2>3 DEF Untouched
<1> QED
  BY <1>1, <1>12, <1>13 DEF Effect

LEMMA GeneratedParts ==
    ASSUME NEW m, NEW p
    PROVE  /\ Generated(m, p).parts[p] = "generate"
           /\ \A q \in Known(m) : q # p => Generated(m, p).parts[q] = m.parts[q]
<1> DEFINE a == With(m.parts, p, "generate")
<1>1. Generated(m, p).parts = a
  BY ManifestParts DEF Generated
<1>2. a[p] = "generate"
  BY WithNew
<1>3. ASSUME NEW q \in Known(m), q # p
      PROVE  a[q] = m.parts[q]
  BY <1>3, WithOld DEF Known
<1> HIDE DEF a
<1> QED
  BY <1>1, <1>2, <1>3

LEMMA PropertiesEffect ==
    ASSUME DOMAIN replaced \subseteq Known(manifest), SetDocumentProperties
    PROVE  Effect
<1> DEFINE first == Generated(manifest, Core)
           typed == Generated(first, App)
           linked == WithPackageLink(typed, "core", Core)
           m == WithPackageLink(linked, "app", App)
           props == Xml("generate", FALSE)
           r1 == With(replaced, Core, props)
           r2 == With(r1, App, props)
<1>1. /\ manifest' = m /\ replaced' = r2 /\ files' = files /\ edits' = edits + 1
  BY DEF SetDocumentProperties, Commit
<1>2. /\ props \in Payload /\ props.form = "xml" /\ props.files = {}
      /\ props.mode = "generate"
  BY XmlPayload DEF Modes
<1>3. /\ DOMAIN r1 = DOMAIN replaced \cup {Core} /\ r1[Core] = props
      /\ \A q \in DOMAIN replaced : q # Core => r1[q] = replaced[q]
  <2>1. DOMAIN r1 = DOMAIN replaced \cup {Core}
    BY WithDomain
  <2>2. r1[Core] = props
    BY WithNew, ZenonT(30)
  <2>3. ASSUME NEW q \in DOMAIN replaced, q # Core
        PROVE  r1[q] = replaced[q]
    BY <2>3, WithOld
  <2> HIDE DEF r1, props
  <2> QED
    BY <2>1, <2>2, <2>3
<1> HIDE DEF r1, props
<1>4. /\ DOMAIN replaced' = DOMAIN r1 \cup {App} /\ replaced'[App] = props
      /\ \A q \in DOMAIN r1 : q # App => replaced'[q] = r1[q]
  <2>1. DOMAIN r2 = DOMAIN r1 \cup {App}
    BY WithDomain
  <2>2. r2[App] = props
    BY WithNew
  <2>3. ASSUME NEW q \in DOMAIN r1, q # App
        PROVE  r2[q] = r1[q]
    BY <2>3, WithOld
  <2> HIDE DEF r2
  <2> QED
    BY <1>1, <2>1, <2>2, <2>3
<1>5. manifest'.parts = typed.parts
  <2>1. linked.parts = typed.parts
    BY ManifestParts DEF WithPackageLink
  <2> HIDE DEF linked
  <2>2. m.parts = linked.parts
    BY ManifestParts DEF WithPackageLink
  <2> QED
    BY <1>1, <2>1, <2>2
<1>6. /\ Known(first) = Known(manifest) \cup {Core} /\ first.parts[Core] = "generate"
      /\ \A q \in Known(manifest) : q # Core => first.parts[q] = manifest.parts[q]
  BY GeneratedFields, GeneratedParts
<1> HIDE DEF first
<1>7. /\ Known(typed) = Known(first) \cup {App} /\ typed.parts[App] = "generate"
      /\ \A q \in Known(first) : q # App => typed.parts[q] = first.parts[q]
  BY GeneratedFields, GeneratedParts
<1>8. Known(manifest)' = Known(typed)
  BY <1>5 DEF Known
<1> HIDE DEF typed, m, r2
<1>9. Core # App /\ Core \in SmallParts /\ App \in SmallParts
  BY PartKinds
<1>10. Fresh(Core) /\ Fresh(App)
  <2>1. replaced'[Core] = props /\ replaced'[App] = props
    BY <1>3, <1>4, <1>9
  <2>2. manifest'.parts[Core] = "generate" /\ manifest'.parts[App] = "generate"
    BY <1>5, <1>6, <1>7, <1>9
  <2> QED
    BY <1>2, <1>9, <2>1, <2>2 DEF Fresh
<1>11. ASSUME NEW q \in DOMAIN replaced'
       PROVE  Carried(q) \/ Fresh(q)
  <2>1. CASE q \in {Core, App}
    BY <1>10, <2>1
  <2>2. CASE q \notin {Core, App}
    <3>1. q \in DOMAIN replaced /\ replaced'[q] = replaced[q]
      BY <1>3, <1>4, <1>11, <2>2
    <3>2. manifest'.parts[q] = manifest.parts[q]
      BY <1>5, <1>6, <1>7, <2>2, <3>1
    <3> QED
      BY <3>1, <3>2 DEF Carried
  <2> QED
    BY <2>1, <2>2
<1>12. ASSUME NEW q \in Known(manifest)' \ DOMAIN replaced'
       PROVE  Untouched(q)
  <2>1. q \notin {Core, App} /\ q \in Known(manifest) /\ q \notin DOMAIN replaced
    BY <1>3, <1>4, <1>6, <1>7, <1>8
  <2> QED
    BY <1>5, <1>6, <1>7, <2>1 DEF Untouched
<1> QED
  BY <1>1, <1>11, <1>12 DEF Effect

(***************************************************************************)
(* Replacements, recalculation and temporary files                         *)
(***************************************************************************)
ReplacementsKept ==
    /\ edits \in 0..MaxEdits /\ files \subseteq 1..edits
    /\ \A q \in DOMAIN replaced :
           /\ replaced[q] \in Payload
           /\ replaced[q].form = "xml" <=> q \in SmallParts
           /\ replaced[q].files \subseteq files
           /\ manifest.parts[q] = replaced[q].mode
    /\ \A q \in Known(manifest) \ DOMAIN replaced : manifest.parts[q] = "copy"

LEMMA EffectKeeps ==
    ASSUME ReplacementsKept, edits < MaxEdits, Effect
    PROVE  ReplacementsKept'
<1>1. edits' \in 0..MaxEdits /\ files' \subseteq 1..edits'
  BY PartsAssumption DEF ReplacementsKept, Effect
<1>2. ASSUME NEW q \in DOMAIN replaced'
      PROVE  /\ replaced'[q] \in Payload
             /\ replaced'[q].form = "xml" <=> q \in SmallParts
             /\ replaced'[q].files \subseteq files'
             /\ manifest'.parts[q] = replaced'[q].mode
  <2>1. CASE Carried(q)
    BY <2>1 DEF Carried, ReplacementsKept, Effect
  <2>2. CASE Fresh(q)
    BY <2>2 DEF Fresh
  <2> QED
    BY <1>2, <2>1, <2>2 DEF Effect
<1>3. ASSUME NEW q \in Known(manifest)' \ DOMAIN replaced'
      PROVE  manifest'.parts[q] = "copy"
  BY <1>3 DEF Effect, Untouched, ReplacementsKept
<1>4. Payload' = Payload
  BY DEF Payload
<1> QED
  BY <1>1, <1>2, <1>3, <1>4 DEF ReplacementsKept

(***************************************************************************)
(* The edit plan, field by field                                           *)
(***************************************************************************)
LEMMA EditPlanFields ==
    ASSUME NEW a, NEW b, NEW c, NEW d, NEW u, NEW f, NEW g
    PROVE  /\ EditPlan(a, b, c, d, u, f, g).parts = a
           /\ EditPlan(a, b, c, d, u, f, g).removed = b
           /\ EditPlan(a, b, c, d, u, f, g).removedEntries = d
           /\ EditPlan(a, b, c, d, u, f, g).full = f
           /\ EditPlan(a, b, c, d, u, f, g).action = g
BY DEF EditPlan

\* The plan pl2 says the same of parts as pl, and of no more removed entries.
Refined(pl, pl2) ==
    /\ pl2.parts = pl.parts /\ pl2.removed = pl.removed
    /\ pl2.full = pl.full /\ pl2.action = pl.action
    /\ pl2.removedEntries \subseteq pl.removedEntries

LEMMA RefinedTwice ==
    ASSUME NEW a, NEW b, NEW c, Refined(a, b), Refined(b, c)
    PROVE  Refined(a, c)
BY DEF Refined

LEMMA PlanEntryRefines ==
    ASSUME NEW pl, NEW e, NEW mode
    PROVE  Refined(pl, PlanEntry(pl, e, mode))
BY EditPlanFields DEF Refined, PlanEntry, WithEntries

LEMMA PlanUnresolvedRefines ==
    ASSUME NEW pl, NEW links
    PROVE  Refined(pl, PlanUnresolved(pl, links))
BY EditPlanFields DEF Refined, PlanUnresolved

LEMMA PreservedRelsRefines ==
    ASSUME NEW pl, NEW owners
    PROVE  /\ Refined(pl, PreservedRels(pl, owners))
           /\ \A o \in owners : RelsEntry(o) \in SourceEntries =>
                  RelsEntry(o) \notin PreservedRels(pl, owners).removedEntries
<1> DEFINE kept == {RelsEntry(o) : o \in owners} \cap SourceEntries
           pl2 == PreservedRels(pl, owners)
           planned == [e \in DOMAIN pl.entries \cup kept |->
                          IF e \in kept THEN "copy" ELSE pl.entries[e]]
           gone == pl.removedEntries \ kept
<1>1. pl2 = EditPlan(pl.parts, pl.removed, planned, gone, pl.unresolved, pl.full, pl.action)
  BY DEF PreservedRels, WithEntries
<1>2. \A o \in owners : RelsEntry(o) \in SourceEntries => RelsEntry(o) \notin gone
  OBVIOUS
<1>3. gone \subseteq pl.removedEntries
  OBVIOUS
<1> HIDE DEF planned, gone, pl2
<1>4. /\ pl2.parts = pl.parts /\ pl2.removed = pl.removed /\ pl2.removedEntries = gone
      /\ pl2.full = pl.full /\ pl2.action = pl.action
  BY <1>1, EditPlanFields
<1>5. Refined(pl, pl2)
  BY <1>3, <1>4 DEF Refined
<1> QED
  BY <1>2, <1>4, <1>5 DEF pl2

LEMMA SyncedTypesPlanRefines ==
    ASSUME NEW pl, NEW e, NEW m
    PROVE  Refined(pl, SyncedTypesPlan(pl, e, m))
<1>1. CASE TypesEntry \notin DOMAIN e
  BY <1>1 DEF SyncedTypesPlan, Refined
<1>2. CASE TypesEntry \in DOMAIN e
  BY <1>2, PlanEntryRefines DEF SyncedTypesPlan
<1> QED
  BY <1>1, <1>2

LEMMA ActivePlanRefines ==
    ASSUME NEW pl, NEW e, NEW m, NEW p
    PROVE  /\ Refined(pl, ActivePlan(pl, e, m, p))
           /\ RelsEntry(p) \notin DOMAIN e /\ RelsEntry(p) \in SourceEntries =>
                  RelsEntry(p) \notin ActivePlan(pl, e, m, p).removedEntries
<1> DEFINE pl1 == IF RelsEntry(p) \in DOMAIN e THEN pl ELSE PreservedRels(pl, {p})
<1>1. ActivePlan(pl, e, m, p) = SyncedTypesPlan(pl1, e, m)
  BY DEF ActivePlan
<1>2. Refined(pl, pl1)
  <2>1. CASE RelsEntry(p) \in DOMAIN e
    BY <2>1 DEF Refined
  <2>2. CASE RelsEntry(p) \notin DOMAIN e
    BY <2>2, PreservedRelsRefines
  <2> QED
    BY <2>1, <2>2
<1>3. RelsEntry(p) \notin DOMAIN e /\ RelsEntry(p) \in SourceEntries =>
          RelsEntry(p) \notin pl1.removedEntries
  BY PreservedRelsRefines
<1> HIDE DEF pl1
<1>4. Refined(pl1, SyncedTypesPlan(pl1, e, m))
  BY SyncedTypesPlanRefines
<1>5. Refined(pl, SyncedTypesPlan(pl1, e, m))
  BY <1>2, <1>4, RefinedTwice
<1>6. SyncedTypesPlan(pl1, e, m).removedEntries \subseteq pl1.removedEntries
  BY <1>4 DEF Refined
<1> QED
  BY <1>1, <1>3, <1>5, <1>6

LEMMA PlanPartFields ==
    ASSUME NEW pl, NEW p, NEW mode
    PROVE  LET pl2 == PlanPart(pl, p, mode)
           IN  /\ pl2.parts = With(pl.parts, p, mode)
               /\ pl2.removed = Without(pl.removed, p)
               /\ pl2.removedEntries = pl.removedEntries
               /\ pl2.full = pl.full /\ pl2.action = pl.action
BY EditPlanFields DEF PlanPart, WithParts

LEMMA PlanRemovalFields ==
    ASSUME NEW pl, NEW p, NEW inbound
    PROVE  LET pl2 == PlanRemoval(pl, p, inbound)
           IN  /\ pl2.parts = Without(pl.parts, p)
               /\ pl2.removed = With(pl.removed, p, inbound)
               /\ pl2.removedEntries = pl.removedEntries
               /\ pl2.full = pl.full /\ pl2.action = pl.action
BY EditPlanFields DEF PlanRemoval, WithParts

LEMMA PlanRecalculationFields ==
    ASSUME NEW pl, NEW action
    PROVE  LET pl2 == PlanRecalculation(pl, action)
           IN  /\ pl2.parts = pl.parts /\ pl2.removed = pl.removed
               /\ pl2.removedEntries = pl.removedEntries
               /\ pl2.full = TRUE /\ pl2.action = action
BY DEF PlanRecalculation, EditPlan

LEMMA PlanEntryRemovalFields ==
    ASSUME NEW pl, NEW e
    PROVE  LET pl2 == PlanEntryRemoval(pl, e)
           IN  /\ pl2.parts = pl.parts /\ pl2.removed = pl.removed
               /\ pl2.removedEntries \subseteq pl.removedEntries \cup ({e} \cap SourceEntries)
               /\ pl2.full = pl.full /\ pl2.action = pl.action
<1>1. CASE e \in SourceEntries
  <2> DEFINE gone == pl.removedEntries \cup {e}
             pl2 == WithEntries(pl, Without(pl.entries, e), gone)
  <2>1. PlanEntryRemoval(pl, e) = pl2
    BY <1>1 DEF PlanEntryRemoval
  <2>2. /\ pl2.parts = pl.parts /\ pl2.removed = pl.removed /\ pl2.removedEntries = gone
        /\ pl2.full = pl.full /\ pl2.action = pl.action
    BY EditPlanFields DEF WithEntries
  <2> HIDE DEF pl2
  <2> QED
    BY <1>1, <2>1, <2>2
<1>2. CASE e \notin SourceEntries
  BY <1>2 DEF PlanEntryRemoval
<1> QED
  BY <1>1, <1>2

LEMMA CalcEntriesPlanRefines ==
    ASSUME NEW pl, NEW m, NEW action
    PROVE  LET pl2 == CalcEntriesPlan(pl, m, action)
           IN  /\ pl2.parts = pl.parts /\ pl2.removed = pl.removed
               /\ pl2.removedEntries \subseteq
                      IF action = "remove" /\ CalcChain \in source.parts
                      THEN pl.removedEntries \cup ({RelsEntry(CalcChain)} \cap SourceEntries)
                      ELSE pl.removedEntries
               /\ pl2.full = pl.full /\ pl2.action = pl.action
<1> DEFINE gone  == IF action = "remove" /\ CalcChain \in source.parts
                    THEN PlanEntryRemoval(pl, RelsEntry(CalcChain)) ELSE pl
           typed == IF DropsTypes(m, action) THEN PlanEntry(gone, TypesEntry, "dom") ELSE gone
           last  == IF DropsLinks(m, action)
                    THEN PlanEntry(typed, RelsEntry(Workbook), "dom") ELSE typed
           allowed == IF action = "remove" /\ CalcChain \in source.parts
                      THEN pl.removedEntries \cup ({RelsEntry(CalcChain)} \cap SourceEntries)
                      ELSE pl.removedEntries
<1>1. CalcEntriesPlan(pl, m, action) = last
  BY DEF CalcEntriesPlan
<1>2. /\ gone.parts = pl.parts /\ gone.removed = pl.removed
      /\ gone.removedEntries \subseteq allowed
      /\ gone.full = pl.full /\ gone.action = pl.action
  BY PlanEntryRemovalFields
<1> HIDE DEF gone
<1>3. Refined(gone, typed)
  <2>1. CASE DropsTypes(m, action)
    BY <2>1, PlanEntryRefines
  <2>2. CASE ~DropsTypes(m, action)
    BY <2>2 DEF Refined
  <2> QED
    BY <2>1, <2>2
<1> HIDE DEF typed
<1>4. Refined(typed, last)
  <2>1. CASE DropsLinks(m, action)
    BY <2>1, PlanEntryRefines
  <2>2. CASE ~DropsLinks(m, action)
    BY <2>2 DEF Refined
  <2> QED
    BY <2>1, <2>2
<1> HIDE DEF last, allowed
<1>5. Refined(gone, last)
  BY <1>3, <1>4, RefinedTwice
<1>6. /\ last.parts = pl.parts /\ last.removed = pl.removed
      /\ last.removedEntries \subseteq allowed
      /\ last.full = pl.full /\ last.action = pl.action
  BY <1>2, <1>5 DEF Refined
<1> QED
  BY <1>1, <1>6 DEF allowed

(***************************************************************************)
(* Maps that are built in another order                                    *)
(***************************************************************************)
IsMap(f) == f = [x \in DOMAIN f |-> f[x]]

LEMMA WithIsMap == \A f, x, v : IsMap(With(f, x, v))
BY DEF IsMap, With

LEMMA WithoutIsMap == \A f, x : IsMap(Without(f, x))
BY DEF IsMap, Without

LEMMA WithTwice == \A f, x, u, v : With(With(f, x, u), x, v) = With(f, x, v)
BY DEF With

LEMMA WithoutSwapped ==
    \A f, x, c, v : x # c => Without(With(f, x, v), c) = With(Without(f, c), x, v)
BY DEF With, Without

LEMMA WithoutAbsent == \A f, c : IsMap(f) /\ c \notin DOMAIN f => Without(f, c) = f
BY DEF IsMap, Without

(***************************************************************************)
(* The plan and the manifest name the same parts in the same modes, and    *)
(* the plan reports as removed what the package lost.                      *)
(***************************************************************************)
PlanAgrees ==
    /\ plan.parts = manifest.parts /\ IsMap(manifest.parts)
    /\ DOMAIN plan.removed = source.parts \ Known(manifest)
    /\ plan.removedEntries \subseteq SourceEntries \cap omitted
    /\ plan.removedEntries \subseteq {RelsEntry(o) : o \in Parts}

LEMMA StagePartPlans ==
    ASSUME Agreement, PlanAgrees, NEW p \in Parts,
           p \in Known(manifest) \cup source.parts, NEW payload, StagePart(p, payload)
    PROVE  PlanAgrees' /\ plan'.full = plan.full /\ plan'.action = plan.action
<1> DEFINE m == SetMode(PlannedManifest(p), p, payload.mode)
           pl1 == PlanPart(plan, p, payload.mode)
           back == omitted \ {PartEntry(p), RelsEntry(p)}
<1>1. /\ manifest' = m /\ plan' = ActivePlan(pl1, entries, m, p)
      /\ omitted' = back /\ source' = source
  BY DEF StagePart, Commit
<1>2. /\ pl1.parts = With(plan.parts, p, payload.mode)
      /\ pl1.removed = Without(plan.removed, p)
      /\ pl1.removedEntries = plan.removedEntries
      /\ pl1.full = plan.full /\ pl1.action = plan.action
  BY PlanPartFields
<1> HIDE DEF pl1
<1>3. /\ Refined(pl1, plan')
      /\ RelsEntry(p) \notin DOMAIN entries /\ RelsEntry(p) \in SourceEntries =>
             RelsEntry(p) \notin plan'.removedEntries
  BY <1>1, ActivePlanRefines
<1>4. m.parts = With(manifest.parts, p, payload.mode)
  <2>1. m.parts = With(PlannedManifest(p).parts, p, payload.mode)
    BY ManifestParts DEF SetMode
  <2>2. CASE p \in Known(manifest)
    BY <2>1, <2>2 DEF PlannedManifest
  <2>3. CASE p \notin Known(manifest)
    <3>1. PlannedManifest(p).parts = With(manifest.parts, p, "copy")
      BY <2>3, ManifestParts DEF PlannedManifest, Restored
    <3>2. With(With(manifest.parts, p, "copy"), p, payload.mode)
              = With(manifest.parts, p, payload.mode)
      BY WithTwice
    <3> QED
      BY <2>1, <3>1, <3>2
  <2> QED
    BY <2>2, <2>3
<1>5. plan'.parts = manifest'.parts /\ IsMap(manifest'.parts)
  <2>1. plan'.parts = With(manifest.parts, p, payload.mode)
    BY <1>2, <1>3 DEF Refined, PlanAgrees
  <2>2. IsMap(With(manifest.parts, p, payload.mode))
    BY WithIsMap
  <2> QED
    BY <1>1, <1>4, <2>1, <2>2
<1>6. DOMAIN plan'.removed = source'.parts \ Known(manifest)'
  <2>1. Known(manifest)' = Known(manifest) \cup {p}
    <3>1. DOMAIN m.parts = DOMAIN manifest.parts \cup {p}
      BY <1>4, WithDomain
    <3> QED
      BY <1>1, <3>1 DEF Known
  <2>2. DOMAIN Without(plan.removed, p) = DOMAIN plan.removed \ {p}
    BY WithoutDomain
  <2>3. plan'.removed = Without(plan.removed, p)
    BY <1>2, <1>3 DEF Refined
  <2> QED
    BY <1>1, <2>1, <2>2, <2>3 DEF PlanAgrees
<1>7. plan'.removedEntries \subseteq plan.removedEntries
  BY <1>2, <1>3 DEF Refined
<1>8. SourceEntries' = SourceEntries
  BY <1>1 DEF SourceEntries
<1>9. RelsEntry(p) \notin plan'.removedEntries
  <2>1. ASSUME RelsEntry(p) \in plan'.removedEntries
        PROVE  FALSE
    <3>1. RelsEntry(p) \in SourceEntries /\ RelsEntry(p) \in omitted
      BY <1>7, <2>1 DEF PlanAgrees
    <3>2. RelsEntry(p) \in DOMAIN entries
      BY <1>3, <2>1, <3>1
    <3>3. p \in Known(manifest)
      BY <3>2 DEF Agreement, Agrees, RemovedGone
    <3>4. RelsEntry(p) \notin omitted
      BY <3>3 DEF Agreement, Agrees, LinksAgree
    <3> QED
      BY <3>1, <3>4
  <2> QED
    BY <2>1
<1>10. ASSUME NEW e \in plan'.removedEntries
       PROVE  e \in SourceEntries \cap back /\ e \in {RelsEntry(o) : o \in Parts}
  <2>1. e \in SourceEntries \cap omitted /\ e \in {RelsEntry(o) : o \in Parts}
    BY <1>7 DEF PlanAgrees
  <2>2. e # PartEntry(p)
    BY <2>1, EntryKindsDiffer
  <2>3. e # RelsEntry(p)
    BY <1>9
  <2> QED
    BY <2>1, <2>2, <2>3
<1>11. PlanAgrees'
  BY <1>1, <1>5, <1>6, <1>8, <1>10 DEF PlanAgrees, IsMap
<1> QED
  BY <1>2, <1>3, <1>11 DEF Refined

LEMMA RemovePartPlans ==
    ASSUME Agreement, PlanAgrees, NEW p \in Parts, NEW fail, RemovePart(p, fail)
    PROVE  PlanAgrees' /\ plan'.full = plan.full /\ plan'.action = plan.action
<1> DEFINE m == Removed(manifest, p)
           inbound == Inbound(manifest, p)
           pl1 == PlanRemoval(plan, p, inbound)
           pl2 == PlanEntryRemoval(pl1, RelsEntry(p))
           gone == {PartEntry(p)} \cup ({RelsEntry(p)} \cap SourceEntries)
<1>1. /\ manifest' = m
      /\ plan' = IF p \in manifest.overrides THEN PlanEntry(pl2, TypesEntry, "dom") ELSE pl2
      /\ omitted' = omitted \cup gone /\ source' = source
      /\ p \in Known(manifest) \cap source.parts
  BY DEF RemovePart, Commit
<1>2. /\ pl1.parts = Without(plan.parts, p) /\ pl1.removed = With(plan.removed, p, inbound)
      /\ pl1.removedEntries = plan.removedEntries
      /\ pl1.full = plan.full /\ pl1.action = plan.action
  BY PlanRemovalFields
<1> HIDE DEF pl1
<1>3. /\ pl2.parts = pl1.parts /\ pl2.removed = pl1.removed
      /\ pl2.removedEntries \subseteq pl1.removedEntries \cup ({RelsEntry(p)} \cap SourceEntries)
      /\ pl2.full = pl1.full /\ pl2.action = pl1.action
  BY PlanEntryRemovalFields
<1> HIDE DEF pl2
<1>4. Refined(pl2, plan')
  <2>1. CASE p \in manifest.overrides
    BY <1>1, <2>1, PlanEntryRefines
  <2>2. CASE p \notin manifest.overrides
    BY <1>1, <2>2 DEF Refined
  <2> QED
    BY <2>1, <2>2
<1>5. manifest'.parts = Without(manifest.parts, p)
  BY <1>1, ManifestParts DEF Removed
<1>6. plan'.parts = manifest'.parts /\ IsMap(manifest'.parts)
  <2>1. plan'.parts = Without(manifest.parts, p)
    BY <1>2, <1>3, <1>4 DEF Refined, PlanAgrees
  <2>2. IsMap(Without(manifest.parts, p))
    BY WithoutIsMap
  <2> QED
    BY <1>5, <2>1, <2>2
<1>7. DOMAIN plan'.removed = source'.parts \ Known(manifest)'
  <2>1. Known(manifest)' = Known(manifest) \ {p}
    <3>1. DOMAIN Without(manifest.parts, p) = DOMAIN manifest.parts \ {p}
      BY WithoutDomain
    <3> QED
      BY <1>5, <3>1 DEF Known
  <2>2. DOMAIN With(plan.removed, p, inbound) = DOMAIN plan.removed \cup {p}
    BY WithDomain
  <2>3. plan'.removed = With(plan.removed, p, inbound)
    BY <1>2, <1>3, <1>4 DEF Refined
  <2> QED
    BY <1>1, <2>1, <2>2, <2>3 DEF PlanAgrees
<1>8. SourceEntries' = SourceEntries
  BY <1>1 DEF SourceEntries
<1>9. plan'.removedEntries \subseteq plan.removedEntries \cup ({RelsEntry(p)} \cap SourceEntries)
  BY <1>2, <1>3, <1>4 DEF Refined
<1>10. /\ plan'.removedEntries \subseteq SourceEntries \cap omitted'
       /\ plan'.removedEntries \subseteq {RelsEntry(o) : o \in Parts}
  BY <1>1, <1>9 DEF PlanAgrees
<1>11. PlanAgrees'
  BY <1>6, <1>7, <1>8, <1>10 DEF PlanAgrees, IsMap
<1> QED
  BY <1>2, <1>3, <1>4, <1>11 DEF Refined

LEMMA CalcPartsMap ==
    ASSUME NEW m, NEW action
    PROVE  CalcManifest(m, action).parts
               = IF action = "remove" THEN Without(m.parts, CalcChain) ELSE m.parts
<1>1. CASE action # "remove"
  BY <1>1 DEF CalcManifest
<1>2. CASE action = "remove"
  BY <1>2, ManifestParts DEF CalcManifest, WithoutCalcLinks, Removed
<1> QED
  BY <1>1, <1>2

LEMMA CalcRemovalFields ==
    ASSUME NEW pl, NEW m, NEW action, NEW inbound, IsMap(pl.parts),
           CalcChain \in DOMAIN pl.parts => CalcChain \in Known(m)
    PROVE  LET pl2 == CalcRemovalPlan(pl, m, action, inbound)
           IN  /\ pl2.parts = IF action = "remove" THEN Without(pl.parts, CalcChain) ELSE pl.parts
               /\ DOMAIN pl2.removed
                      = IF action = "remove" /\ CalcChain \in Known(m)
                        THEN DOMAIN pl.removed \cup {CalcChain} ELSE DOMAIN pl.removed
               /\ pl2.removedEntries = pl.removedEntries
               /\ pl2.full = pl.full /\ pl2.action = pl.action
<1>1. CASE action = "remove" /\ CalcChain \in Known(m)
  <2> DEFINE pl2 == PlanRemoval(pl, CalcChain, inbound)
  <2>1. CalcRemovalPlan(pl, m, action, inbound) = pl2
    BY <1>1 DEF CalcRemovalPlan
  <2>2. /\ pl2.parts = Without(pl.parts, CalcChain)
        /\ pl2.removed = With(pl.removed, CalcChain, inbound)
        /\ pl2.removedEntries = pl.removedEntries
        /\ pl2.full = pl.full /\ pl2.action = pl.action
    BY PlanRemovalFields
  <2>3. DOMAIN With(pl.removed, CalcChain, inbound) = DOMAIN pl.removed \cup {CalcChain}
    BY WithDomain
  <2> HIDE DEF pl2
  <2> QED
    BY <1>1, <2>1, <2>2, <2>3
<1>2. CASE ~(action = "remove" /\ CalcChain \in Known(m))
  <2>1. CalcRemovalPlan(pl, m, action, inbound) = pl
    BY <1>2 DEF CalcRemovalPlan
  <2>2. action = "remove" => Without(pl.parts, CalcChain) = pl.parts
    BY <1>2, WithoutAbsent
  <2> QED
    BY <1>2, <2>1, <2>2
<1> QED
  BY <1>1, <1>2

LEMMA KnownNotOmitted ==
    ASSUME Agreement, NEW p \in Known(manifest)
    PROVE  PartEntry(p) \notin omitted /\ RelsEntry(p) \notin omitted
BY DEF Agreement, Agrees, PartsAgree, LinksAgree

LEMMA CalcChainInSource ==
    ASSUME Agreement, CalcChain \in Known(manifest)
    PROVE  CalcChain \in source.parts
BY Distinct DEF Agreement, Agrees, PartsAgree

LEMMA RenamePlans ==
    ASSUME Agreement, PlanAgrees, RenameSheetCatalogEntry
    PROVE  PlanAgrees' /\ plan'.full = plan.full /\ plan'.action = plan.action
<1> DEFINE pl1 == PlanPart(plan, Workbook, "dom")
<1>1. /\ manifest' = SetMode(manifest, Workbook, "dom")
      /\ plan' = PreservedRels(pl1, {Workbook})
      /\ omitted' = omitted \ {PartEntry(Workbook)} /\ source' = source
      /\ Workbook \in Known(manifest)
  BY DEF RenameSheetCatalogEntry, Commit, Unomitted
<1>2. /\ pl1.parts = With(plan.parts, Workbook, "dom")
      /\ pl1.removed = Without(plan.removed, Workbook)
      /\ pl1.removedEntries = plan.removedEntries
      /\ pl1.full = plan.full /\ pl1.action = plan.action
  BY PlanPartFields
<1> HIDE DEF pl1
<1>3. Refined(pl1, plan')
  BY <1>1, PreservedRelsRefines
<1>4. manifest'.parts = With(manifest.parts, Workbook, "dom")
  BY <1>1, ManifestParts DEF SetMode
<1>5. plan'.parts = manifest'.parts /\ IsMap(manifest'.parts)
  <2>1. plan'.parts = With(manifest.parts, Workbook, "dom")
    BY <1>2, <1>3 DEF Refined, PlanAgrees
  <2>2. IsMap(With(manifest.parts, Workbook, "dom"))
    BY WithIsMap
  <2> QED
    BY <1>4, <2>1, <2>2
<1>6. DOMAIN plan'.removed = source'.parts \ Known(manifest)'
  <2>1. Known(manifest)' = Known(manifest)
    <3>1. DOMAIN With(manifest.parts, Workbook, "dom") = DOMAIN manifest.parts \cup {Workbook}
      BY WithDomain
    <3> QED
      BY <1>1, <1>4, <3>1 DEF Known
  <2>2. DOMAIN Without(plan.removed, Workbook) = DOMAIN plan.removed \ {Workbook}
    BY WithoutDomain
  <2>3. plan'.removed = Without(plan.removed, Workbook)
    BY <1>2, <1>3 DEF Refined
  <2> QED
    BY <1>1, <2>1, <2>2, <2>3 DEF PlanAgrees
<1>7. SourceEntries' = SourceEntries
  BY <1>1 DEF SourceEntries
<1>8. plan'.removedEntries \subseteq plan.removedEntries
  BY <1>2, <1>3 DEF Refined
<1>9. omitted' = omitted
  BY <1>1, KnownNotOmitted
<1>10. PlanAgrees'
  BY <1>5, <1>6, <1>7, <1>8, <1>9 DEF PlanAgrees, IsMap
<1> QED
  BY <1>2, <1>3, <1>10 DEF Refined

LEMMA PropertiesPlan ==
    ASSUME Agreement, PlanAgrees, SetDocumentProperties
    PROVE  PlanAgrees' /\ plan'.full = plan.full /\ plan'.action = plan.action
<1> DEFINE first == Generated(manifest, Core)
           typed == Generated(first, App)
           linked == WithPackageLink(typed, "core", Core)
           m == WithPackageLink(linked, "app", App)
           newTypes == ~({Core, App} \subseteq Known(manifest) \cap manifest.overrides)
           newLinks == m.links # manifest.links
           pl0 == PlanPart(plan, Core, "generate")
           pl1 == PlanPart(pl0, App, "generate")
           pl2 == IF newTypes THEN PlanEntry(pl1, TypesEntry, "dom") ELSE pl1
           pl3 == IF newLinks THEN PlanEntry(pl2, RelsEntry(Package), "dom") ELSE pl2
           f == With(With(manifest.parts, Core, "generate"), App, "generate")
<1>1. /\ manifest' = m /\ plan' = pl3
      /\ omitted' = (omitted \ {PartEntry(Core)}) \ {PartEntry(App)} /\ source' = source
  BY DEF SetDocumentProperties, Commit, Unomitted
<1>2. /\ pl0.parts = With(plan.parts, Core, "generate")
      /\ pl0.removed = Without(plan.removed, Core)
      /\ pl0.removedEntries = plan.removedEntries
      /\ pl0.full = plan.full /\ pl0.action = plan.action
  BY PlanPartFields
<1> HIDE DEF pl0
<1>3. /\ pl1.parts = With(pl0.parts, App, "generate")
      /\ pl1.removed = Without(pl0.removed, App)
      /\ pl1.removedEntries = pl0.removedEntries
      /\ pl1.full = pl0.full /\ pl1.action = pl0.action
  BY PlanPartFields
<1>4. m.parts = f
  <2>1. first.parts = With(manifest.parts, Core, "generate")
    BY ManifestParts DEF Generated
  <2> HIDE DEF first
  <2>2. typed.parts = With(first.parts, App, "generate")
    BY ManifestParts DEF Generated
  <2> HIDE DEF typed
  <2>3. linked.parts = typed.parts
    BY ManifestParts DEF WithPackageLink
  <2> HIDE DEF linked
  <2>4. m.parts = linked.parts
    BY ManifestParts DEF WithPackageLink
  <2> QED
    BY <2>1, <2>2, <2>3, <2>4
<1> HIDE DEF pl1, m
<1>5. Refined(pl1, pl2)
  <2>1. CASE newTypes
    BY <2>1, PlanEntryRefines
  <2>2. CASE ~newTypes
    BY <2>2 DEF Refined
  <2> QED
    BY <2>1, <2>2
<1> HIDE DEF pl2
<1>6. Refined(pl2, pl3)
  <2>1. CASE newLinks
    BY <2>1, PlanEntryRefines
  <2>2. CASE ~newLinks
    BY <2>2 DEF Refined
  <2> QED
    BY <2>1, <2>2
<1> HIDE DEF pl3
<1>7. /\ plan'.parts = pl1.parts /\ plan'.removed = pl1.removed
      /\ plan'.full = pl1.full /\ plan'.action = pl1.action
      /\ plan'.removedEntries \subseteq pl1.removedEntries
  BY <1>1, <1>5, <1>6 DEF Refined
<1>8. plan'.parts = manifest'.parts /\ IsMap(manifest'.parts)
  <2>1. plan'.parts = f
    BY <1>2, <1>3, <1>7 DEF PlanAgrees
  <2>2. IsMap(f)
    BY WithIsMap
  <2> QED
    BY <1>1, <1>4, <2>1, <2>2
<1>9. DOMAIN plan'.removed = source'.parts \ Known(manifest)'
  <2> DEFINE h == With(manifest.parts, Core, "generate")
             k == Without(plan.removed, Core)
  <2>1. DOMAIN h = Known(manifest) \cup {Core} /\ DOMAIN k = DOMAIN plan.removed \ {Core}
    BY WithDomain, WithoutDomain DEF Known
  <2> HIDE DEF h, k
  <2>2. DOMAIN With(h, App, "generate") = DOMAIN h \cup {App}
    BY WithDomain
  <2>3. DOMAIN Without(k, App) = DOMAIN k \ {App}
    BY WithoutDomain
  <2>4. Known(manifest)' = DOMAIN With(h, App, "generate")
    BY <1>1, <1>4 DEF Known, h
  <2>5. plan'.removed = Without(k, App)
    BY <1>2, <1>3, <1>7 DEF k
  <2> QED
    BY <1>1, <2>1, <2>2, <2>3, <2>4, <2>5 DEF PlanAgrees
<1>10. SourceEntries' = SourceEntries
  BY <1>1 DEF SourceEntries
<1>11. ASSUME NEW e \in plan'.removedEntries
       PROVE  e \in SourceEntries \cap omitted' /\ e \in {RelsEntry(o) : o \in Parts}
  <2>1. e \in SourceEntries \cap omitted /\ e \in {RelsEntry(o) : o \in Parts}
    BY <1>2, <1>3, <1>7 DEF PlanAgrees
  <2>2. e # PartEntry(Core) /\ e # PartEntry(App)
    BY <2>1, EntryKindsDiffer
  <2> QED
    BY <1>1, <2>1, <2>2
<1>12. PlanAgrees'
  BY <1>8, <1>9, <1>10, <1>11 DEF PlanAgrees, IsMap
<1> QED
  BY <1>2, <1>3, <1>7, <1>12

LEMMA RequestPlans ==
    ASSUME Agreement, PlanAgrees, NEW action, RequestFullCalculation(action)
    PROVE  PlanAgrees' /\ plan'.full = TRUE /\ plan'.action = action
<1> DEFINE calc == CalcManifest(manifest, action)
           inbound == Inbound(manifest, CalcChain)
           pl0 == PlanRecalculation(plan, action)
           book == PlanPart(pl0, Workbook, "dom")
           gone == CalcRemovalPlan(book, manifest, action, inbound)
           pl2 == CalcEntriesPlan(gone, manifest, action)
           f == With(manifest.parts, Workbook, "dom")
<1>1. /\ manifest' = SetMode(calc, Workbook, "dom")
      /\ plan' = IF action # "remove" THEN PreservedRels(book, {Workbook, CalcChain})
                 ELSE IF DropsLinks(manifest, action) THEN pl2
                 ELSE PreservedRels(pl2, {Workbook})
      /\ omitted' = CalcOmitted(omitted \ {PartEntry(Workbook)}, action) /\ source' = source
      /\ Workbook \in Known(manifest)
  BY DEF RequestFullCalculation, Commit, Unomitted, WorkbookReady
<1>2. /\ pl0.parts = plan.parts /\ pl0.removed = plan.removed
      /\ pl0.removedEntries = plan.removedEntries /\ pl0.full = TRUE /\ pl0.action = action
  BY PlanRecalculationFields
<1> HIDE DEF pl0
<1>3. /\ book.parts = With(pl0.parts, Workbook, "dom")
      /\ book.removed = Without(pl0.removed, Workbook)
      /\ book.removedEntries = pl0.removedEntries
      /\ book.full = pl0.full /\ book.action = pl0.action
  BY PlanPartFields
<1> HIDE DEF book
<1>4. /\ book.parts = f /\ IsMap(f) /\ DOMAIN f = Known(manifest)
      /\ DOMAIN book.removed = source.parts \ Known(manifest)
  <2>1. book.parts = f
    BY <1>2, <1>3 DEF PlanAgrees
  <2>2. IsMap(f)
    BY WithIsMap
  <2>3. DOMAIN f = Known(manifest) \cup {Workbook}
    BY WithDomain DEF Known
  <2>4. DOMAIN Without(plan.removed, Workbook) = DOMAIN plan.removed \ {Workbook}
    BY WithoutDomain
  <2> HIDE DEF f
  <2> QED
    BY <1>1, <1>2, <1>3, <2>1, <2>2, <2>3, <2>4 DEF PlanAgrees
<1>5. /\ gone.parts = IF action = "remove" THEN Without(f, CalcChain) ELSE f
      /\ DOMAIN gone.removed
             = IF action = "remove" /\ CalcChain \in Known(manifest)
               THEN DOMAIN book.removed \cup {CalcChain} ELSE DOMAIN book.removed
      /\ gone.removedEntries = book.removedEntries
      /\ gone.full = book.full /\ gone.action = book.action
  <2> HIDE DEF f
  <2>1. IsMap(book.parts) /\ (CalcChain \in DOMAIN book.parts => CalcChain \in Known(manifest))
    BY <1>4
  <2> QED
    BY <1>4, <2>1, CalcRemovalFields
<1> HIDE DEF gone
<1>6. /\ pl2.parts = gone.parts /\ pl2.removed = gone.removed
      /\ pl2.removedEntries \subseteq
             IF action = "remove" /\ CalcChain \in source.parts
             THEN gone.removedEntries \cup ({RelsEntry(CalcChain)} \cap SourceEntries)
             ELSE gone.removedEntries
      /\ pl2.full = gone.full /\ pl2.action = gone.action
  BY CalcEntriesPlanRefines
<1> HIDE DEF pl2
<1>7. Refined(IF action = "remove" THEN pl2 ELSE book, plan')
  <2>1. CASE action # "remove"
    BY <1>1, <2>1, PreservedRelsRefines
  <2>2. CASE action = "remove" /\ DropsLinks(manifest, action)
    BY <1>1, <2>2 DEF Refined
  <2>3. CASE action = "remove" /\ ~DropsLinks(manifest, action)
    BY <1>1, <2>3, PreservedRelsRefines
  <2> QED
    BY <2>1, <2>2, <2>3
<1>8. /\ plan'.parts = IF action = "remove" THEN Without(f, CalcChain) ELSE f
      /\ DOMAIN plan'.removed
             = IF action = "remove" /\ CalcChain \in Known(manifest)
               THEN DOMAIN book.removed \cup {CalcChain} ELSE DOMAIN book.removed
      /\ plan'.removedEntries \subseteq
             IF action = "remove" /\ CalcChain \in source.parts
             THEN plan.removedEntries \cup ({RelsEntry(CalcChain)} \cap SourceEntries)
             ELSE plan.removedEntries
      /\ plan'.full = TRUE /\ plan'.action = action
  <2> HIDE DEF f
  <2>1. CASE action = "remove"
    BY <1>2, <1>3, <1>5, <1>6, <1>7, <2>1 DEF Refined
  <2>2. CASE action # "remove"
    BY <1>2, <1>3, <1>4, <1>7, <2>2 DEF Refined
  <2> QED
    BY <2>1, <2>2
<1>9. manifest'.parts = IF action = "remove" THEN Without(f, CalcChain) ELSE f
  <2>1. manifest'.parts = With(calc.parts, Workbook, "dom")
    BY <1>1, ManifestParts DEF SetMode
  <2>2. calc.parts = IF action = "remove" THEN Without(manifest.parts, CalcChain)
                     ELSE manifest.parts
    BY CalcPartsMap
  <2>3. Without(f, CalcChain) = With(Without(manifest.parts, CalcChain), Workbook, "dom")
    BY WithoutSwapped, PartKinds
  <2> QED
    BY <2>1, <2>2, <2>3
<1>10. plan'.parts = manifest'.parts /\ IsMap(manifest'.parts)
  BY <1>4, <1>8, <1>9, WithoutIsMap
<1>11. Known(manifest)' = IF action = "remove" THEN Known(manifest) \ {CalcChain}
                          ELSE Known(manifest)
  <2>1. DOMAIN Without(f, CalcChain) = DOMAIN f \ {CalcChain}
    BY WithoutDomain
  <2> HIDE DEF f
  <2> QED
    BY <1>4, <1>9, <2>1 DEF Known
<1>12. DOMAIN plan'.removed = source'.parts \ Known(manifest)'
  BY <1>1, <1>4, <1>8, <1>11, CalcChainInSource
<1>13. SourceEntries' = SourceEntries
  BY <1>1 DEF SourceEntries
<1>14. omitted \ {PartEntry(Workbook)} = omitted
  BY <1>1, KnownNotOmitted
<1>15. /\ plan'.removedEntries \subseteq SourceEntries \cap omitted'
       /\ plan'.removedEntries \subseteq {RelsEntry(o) : o \in Parts}
  <2>1. /\ omitted \subseteq omitted'
        /\ action = "remove" /\ CalcChain \in source.parts => RelsEntry(CalcChain) \in omitted'
    BY <1>1, <1>14 DEF CalcOmitted
  <2>2. CalcChain \in Parts
    BY DEF Parts
  <2> QED
    BY <1>8, <2>1, <2>2 DEF PlanAgrees
<1>16. PlanAgrees'
  BY <1>10, <1>12, <1>13, <1>15 DEF PlanAgrees, IsMap
<1> QED
  BY <1>8, <1>16

LEMMA StageWorksheetPlans ==
    ASSUME Agreement, PlanAgrees, Sheet \in Known(manifest) \cup source.parts,
           NEW policy, NEW mode, NEW owned, StageWorksheet(policy, mode, owned)
    PROVE  /\ PlanAgrees'
           /\ IF RequestsFull(policy, PlannedManifest(Sheet))
              THEN plan'.full = TRUE /\ plan'.action = policy.calc
              ELSE plan'.full = plan.full /\ plan'.action = plan.action
<1> DEFINE m == PlannedManifest(Sheet)
           action == policy.calc
           full == RequestsFull(policy, m)
           calc == CalcManifest(m, action)
           after == SetMode(calc, Sheet, mode)
           back == omitted \ {PartEntry(Sheet), RelsEntry(Sheet)}
           om2 == IF full THEN Unomitted(back, Workbook) ELSE back
           pl1 == PlanPart(plan, Sheet, mode)
           target == ActivePlan(pl1, entries, calc, Sheet)
           sheet == PreservedRels(target, Copied(m, policy))
           asked == PlanRecalculation(sheet, action)
           book == IF full THEN PlanPart(asked, Workbook, "dom") ELSE sheet
           audited == PlanUnresolved(book, Unresolved(m))
           gone == CalcRemovalPlan(audited, m, action, {})
           g == With(manifest.parts, Sheet, mode)
           f == IF full THEN With(g, Workbook, "dom") ELSE g
<1>1. /\ manifest' = IF full THEN SetMode(after, Workbook, "dom") ELSE after
      /\ plan' = CalcEntriesPlan(gone, m, action)
      /\ omitted' = CalcOmitted(om2, action) /\ source' = source
      /\ Workbook \in Known(manifest)
  BY DEF StageWorksheet, WorksheetPlan, Commit, WorkbookReady
<1>2. /\ pl1.parts = With(plan.parts, Sheet, mode)
      /\ pl1.removed = Without(plan.removed, Sheet)
      /\ pl1.removedEntries = plan.removedEntries
      /\ pl1.full = plan.full /\ pl1.action = plan.action
  BY PlanPartFields
<1> HIDE DEF pl1
<1>3. /\ Refined(pl1, target)
      /\ RelsEntry(Sheet) \notin DOMAIN entries /\ RelsEntry(Sheet) \in SourceEntries =>
             RelsEntry(Sheet) \notin target.removedEntries
  BY ActivePlanRefines
<1> HIDE DEF target
<1>4. Refined(target, sheet)
  BY PreservedRelsRefines
<1> HIDE DEF sheet
<1>5. Refined(pl1, sheet)
  BY <1>3, <1>4, RefinedTwice
<1>6. /\ asked.parts = sheet.parts /\ asked.removed = sheet.removed
      /\ asked.removedEntries = sheet.removedEntries
      /\ asked.full = TRUE /\ asked.action = action
  BY PlanRecalculationFields
<1> HIDE DEF asked
<1>7. /\ sheet.parts = g /\ sheet.removed = Without(plan.removed, Sheet)
      /\ sheet.removedEntries \subseteq plan.removedEntries
      /\ sheet.full = plan.full /\ sheet.action = plan.action
      /\ sheet.removedEntries \subseteq target.removedEntries
  BY <1>2, <1>4, <1>5 DEF Refined, PlanAgrees
<1>8. /\ IsMap(g) /\ DOMAIN g = Known(manifest) \cup {Sheet}
      /\ DOMAIN sheet.removed = source.parts \ (Known(manifest) \cup {Sheet})
  <2>1. IsMap(g)
    BY WithIsMap
  <2>2. DOMAIN g = Known(manifest) \cup {Sheet}
    BY WithDomain DEF Known
  <2>3. DOMAIN Without(plan.removed, Sheet) = DOMAIN plan.removed \ {Sheet}
    BY WithoutDomain
  <2> HIDE DEF g
  <2> QED
    BY <1>7, <2>1, <2>2, <2>3 DEF PlanAgrees
<1>9. /\ book.parts = f /\ IsMap(f) /\ DOMAIN f = Known(manifest) \cup {Sheet}
      /\ DOMAIN book.removed = source.parts \ (Known(manifest) \cup {Sheet})
      /\ book.removedEntries = sheet.removedEntries
      /\ book.full = IF full THEN TRUE ELSE plan.full
      /\ book.action = IF full THEN action ELSE plan.action
  <2> HIDE DEF g, full
  <2>1. CASE full
    <3> DEFINE pl == PlanPart(asked, Workbook, "dom")
               h == With(g, Workbook, "dom")
    <3>1. /\ pl.parts = With(asked.parts, Workbook, "dom")
          /\ pl.removed = Without(asked.removed, Workbook)
          /\ pl.removedEntries = asked.removedEntries
          /\ pl.full = asked.full /\ pl.action = asked.action
      BY PlanPartFields
    <3>2. IsMap(h)
      BY WithIsMap
    <3>3. DOMAIN h = DOMAIN g \cup {Workbook}
      BY WithDomain
    <3>4. DOMAIN Without(sheet.removed, Workbook) = DOMAIN sheet.removed \ {Workbook}
      BY WithoutDomain
    <3>5. pl.parts = h
      BY <1>6, <1>7, <3>1
    <3> HIDE DEF pl, h
    <3>6. book = pl /\ f = h
      BY <2>1 DEF pl, h
    <3> HIDE DEF book, f
    <3> QED
      BY <1>1, <1>6, <1>8, <2>1, <3>1, <3>2, <3>3, <3>4, <3>5, <3>6
  <2>2. CASE ~full
    <3>1. book = sheet /\ f = g
      BY <2>2
    <3> HIDE DEF book, f
    <3> QED
      BY <1>7, <1>8, <2>2, <3>1
  <2> QED
    BY <2>1, <2>2
<1> HIDE DEF book
<1>10. Refined(book, audited)
  BY PlanUnresolvedRefines
<1> HIDE DEF audited
<1>11. Known(m) = Known(manifest) \cup {Sheet}
  BY PlannedKnown
<1>12. /\ gone.parts = IF action = "remove" THEN Without(f, CalcChain) ELSE f
       /\ DOMAIN gone.removed
              = IF action = "remove" /\ CalcChain \in Known(m)
                THEN DOMAIN book.removed \cup {CalcChain} ELSE DOMAIN book.removed
       /\ gone.removedEntries = audited.removedEntries
       /\ gone.full = book.full /\ gone.action = book.action
  <2> HIDE DEF f, m, action
  <2>1. /\ audited.parts = f /\ audited.removed = book.removed
        /\ audited.full = book.full /\ audited.action = book.action
    BY <1>9, <1>10 DEF Refined
  <2>2. IsMap(audited.parts) /\ (CalcChain \in DOMAIN audited.parts => CalcChain \in Known(m))
    BY <1>9, <1>11, <2>1
  <2>3. /\ gone.parts
               = IF action = "remove" THEN Without(audited.parts, CalcChain) ELSE audited.parts
        /\ DOMAIN gone.removed
               = IF action = "remove" /\ CalcChain \in Known(m)
                 THEN DOMAIN audited.removed \cup {CalcChain} ELSE DOMAIN audited.removed
        /\ gone.removedEntries = audited.removedEntries
        /\ gone.full = audited.full /\ gone.action = audited.action
    <3> DEFINE none == {}
               p == CalcRemovalPlan(audited, m, action, none)
    <3>1. gone = p
      OBVIOUS
    <3> HIDE DEF gone, none
    <3>2. /\ p.parts = IF action = "remove" THEN Without(audited.parts, CalcChain)
                       ELSE audited.parts
          /\ DOMAIN p.removed
                 = IF action = "remove" /\ CalcChain \in Known(m)
                   THEN DOMAIN audited.removed \cup {CalcChain} ELSE DOMAIN audited.removed
          /\ p.removedEntries = audited.removedEntries
          /\ p.full = audited.full /\ p.action = audited.action
      BY <2>2, CalcRemovalFields
    <3> HIDE DEF p
    <3> QED
      BY <3>1, <3>2
  <2> HIDE DEF gone
  <2> QED
    BY <2>1, <2>3
<1> HIDE DEF gone
<1>13. /\ plan'.parts = gone.parts /\ plan'.removed = gone.removed
       /\ plan'.removedEntries \subseteq
              IF action = "remove" /\ CalcChain \in source.parts
              THEN gone.removedEntries \cup ({RelsEntry(CalcChain)} \cap SourceEntries)
              ELSE gone.removedEntries
       /\ plan'.full = gone.full /\ plan'.action = gone.action
  BY <1>1, CalcEntriesPlanRefines
<1>14. gone.removedEntries \subseteq plan.removedEntries \cap target.removedEntries
  BY <1>7, <1>9, <1>10, <1>12 DEF Refined
<1>15. manifest'.parts = IF action = "remove" THEN Without(f, CalcChain) ELSE f
  <2> DEFINE c == calc.parts
  <2>1. after.parts = With(c, Sheet, mode)
    BY ManifestParts DEF SetMode
  <2>2. manifest'.parts = IF full THEN With(With(c, Sheet, mode), Workbook, "dom")
                          ELSE With(c, Sheet, mode)
    <3> HIDE DEF after, full, c
    <3>1. CASE full
      BY <1>1, <2>1, <3>1, ManifestParts DEF SetMode
    <3>2. CASE ~full
      BY <1>1, <2>1, <3>2
    <3> QED
      BY <3>1, <3>2
  <2>3. m.parts = manifest.parts \/ m.parts = With(manifest.parts, Sheet, "copy")
    <3>1. CASE Sheet \in Known(manifest)
      BY <3>1 DEF PlannedManifest
    <3>2. CASE Sheet \notin Known(manifest)
      BY <3>2, ManifestParts DEF PlannedManifest, Restored
    <3> QED
      BY <3>1, <3>2
  <2>4. With(m.parts, Sheet, mode) = g
    BY <2>3, WithTwice
  <2>5. c = IF action = "remove" THEN Without(m.parts, CalcChain) ELSE m.parts
    BY CalcPartsMap
  <2> HIDE DEF c, m, full
  <2>6. With(c, Sheet, mode) = IF action = "remove" THEN Without(g, CalcChain) ELSE g
    <3>1. Without(With(m.parts, Sheet, mode), CalcChain)
              = With(Without(m.parts, CalcChain), Sheet, mode)
      BY WithoutSwapped, PartKinds
    <3> HIDE DEF g
    <3> QED
      BY <2>4, <2>5, <3>1
  <2>7. Without(With(g, Workbook, "dom"), CalcChain)
            = With(Without(g, CalcChain), Workbook, "dom")
    BY WithoutSwapped, PartKinds
  <2> HIDE DEF g
  <2> QED
    BY <2>2, <2>6, <2>7
<1>16. plan'.parts = manifest'.parts /\ IsMap(manifest'.parts)
  <2> HIDE DEF f
  <2> QED
    BY <1>9, <1>12, <1>13, <1>15, WithoutIsMap
<1>17. Known(manifest)' = IF action = "remove" THEN Known(m) \ {CalcChain} ELSE Known(m)
  <2> HIDE DEF f
  <2>1. DOMAIN Without(f, CalcChain) = DOMAIN f \ {CalcChain}
    BY WithoutDomain
  <2> QED
    BY <1>9, <1>11, <1>15, <2>1 DEF Known
<1>18. DOMAIN plan'.removed = source'.parts \ Known(manifest)'
  <2>1. CalcChain \in Known(m) => CalcChain \in source.parts
    BY <1>11, CalcChainInSource, PartKinds
  <2> HIDE DEF m, f
  <2> QED
    BY <1>1, <1>9, <1>11, <1>12, <1>13, <1>17, <2>1
<1>19. SourceEntries' = SourceEntries
  BY <1>1 DEF SourceEntries
<1>20. RelsEntry(Sheet) \notin gone.removedEntries
  <2>1. ASSUME RelsEntry(Sheet) \in gone.removedEntries
        PROVE  FALSE
    <3>1. RelsEntry(Sheet) \in SourceEntries /\ RelsEntry(Sheet) \in omitted
      BY <1>14, <2>1 DEF PlanAgrees
    <3>2. RelsEntry(Sheet) \in DOMAIN entries
      BY <1>3, <1>14, <2>1, <3>1
    <3>3. Sheet \in Known(manifest)
      BY <3>2 DEF Agreement, Agrees, RemovedGone, Parts
    <3> QED
      BY <3>1, <3>3, KnownNotOmitted
  <2> QED
    BY <2>1
<1>21. back \subseteq om2
  <2>1. PartEntry(Workbook) \notin omitted
    BY <1>1, KnownNotOmitted
  <2> QED
    BY <2>1 DEF Unomitted
<1>22. ASSUME NEW e \in plan'.removedEntries
       PROVE  e \in SourceEntries \cap omitted' /\ e \in {RelsEntry(o) : o \in Parts}
  <2>1. CASE e \in gone.removedEntries
    <3>1. e \in SourceEntries \cap omitted /\ e \in {RelsEntry(o) : o \in Parts}
      BY <1>14, <2>1 DEF PlanAgrees
    <3>2. e # PartEntry(Sheet) /\ e # RelsEntry(Sheet)
      BY <1>20, <2>1, <3>1, EntryKindsDiffer
    <3>3. om2 \subseteq omitted'
      BY <1>1 DEF CalcOmitted
    <3> QED
      BY <1>21, <3>1, <3>2, <3>3
  <2>2. CASE /\ action = "remove" /\ CalcChain \in source.parts
             /\ e = RelsEntry(CalcChain) /\ e \in SourceEntries
    <3>1. e \in omitted'
      BY <1>1, <2>2 DEF CalcOmitted
    <3> QED
      BY <2>2, <3>1 DEF Parts
  <2> QED
    BY <1>13, <1>22, <2>1, <2>2
<1>23. PlanAgrees'
  BY <1>16, <1>18, <1>19, <1>22 DEF PlanAgrees, IsMap
<1>24. plan'.full = book.full /\ plan'.action = book.action
  BY <1>12, <1>13
<1> HIDE DEF full, m
<1>25. IF full THEN plan'.full = TRUE /\ plan'.action = action
       ELSE plan'.full = plan.full /\ plan'.action = plan.action
  BY <1>9, <1>24
<1> QED
  BY <1>23, <1>25 DEF full, m

(***************************************************************************)
(* A requested recalculation stays on the workbook part                    *)
(***************************************************************************)
LEMMA BookStaged ==
    ASSUME NEW r, NEW v
    PROVE  Workbook \in DOMAIN With(r, Workbook, v) /\ With(r, Workbook, v)[Workbook] = v
<1>1. DOMAIN With(r, Workbook, v) = DOMAIN r \cup {Workbook}
  BY WithDomain
<1>2. With(r, Workbook, v)[Workbook] = v
  BY WithNew
<1> QED
  BY <1>1, <1>2

LEMMA BookLeft ==
    ASSUME NEW r, NEW p, NEW v, p # Workbook, Workbook \in DOMAIN r
    PROVE  /\ Workbook \in DOMAIN With(r, p, v)
           /\ With(r, p, v)[Workbook] = r[Workbook]
<1>1. DOMAIN With(r, p, v) = DOMAIN r \cup {p}
  BY WithDomain
<1>2. With(r, p, v)[Workbook] = r[Workbook]
  BY WithOld
<1> QED
  BY <1>1, <1>2

LEMMA StagePartFull ==
    ASSUME FullCalculationKept, NEW p, NEW payload, StagePart(p, payload),
           p = Workbook /\ plan.full => payload.full, plan'.full = plan.full
    PROVE  FullCalculationKept'
<1> DEFINE m == PlannedManifest(p)
<1>1. manifest' = SetMode(m, p, payload.mode) /\ replaced' = With(replaced, p, payload)
  BY DEF StagePart, Commit
<1>2. Known(manifest)' = Known(manifest) \cup {p}
  <2>1. Known(m) = Known(manifest) \cup {p}
    BY PlannedKnown
  <2> HIDE DEF m
  <2>2. Known(SetMode(m, p, payload.mode)) = Known(m) \cup {p}
    BY SetModeFields
  <2> QED
    BY <1>1, <2>1, <2>2 DEF Known
<1>3. DOMAIN replaced' = DOMAIN replaced \cup {p}
  BY <1>1, WithDomain
<1>4. replaced'[p] = payload
  BY <1>1, WithNew
<1>5. ASSUME NEW q \in DOMAIN replaced, q # p
      PROVE  replaced'[q] = replaced[q]
  BY <1>1, <1>5, WithOld
<1> QED
  BY <1>2, <1>3, <1>4, <1>5 DEF FullCalculationKept

LEMMA RemovePartFull ==
    ASSUME FullCalculationKept, NEW p, NEW fail, RemovePart(p, fail), plan'.full = plan.full
    PROVE  FullCalculationKept'
<1>1. manifest' = Removed(manifest, p) /\ replaced' = Without(replaced, p)
  BY DEF RemovePart, Commit
<1>2. Known(manifest)' = Known(manifest) \ {p}
  BY <1>1, RemovedFields DEF Known
<1>3. DOMAIN replaced' = DOMAIN replaced \ {p}
  BY <1>1, WithoutDomain
<1>4. ASSUME NEW q \in DOMAIN replaced, q # p
      PROVE  replaced'[q] = replaced[q]
  BY <1>1, <1>4, WithoutOld
<1> QED
  BY <1>2, <1>3, <1>4 DEF FullCalculationKept

\* What a workbook or worksheet operation leaves of the replacements r.
LEMMA DroppedMap ==
    ASSUME NEW r, NEW r2, NEW cond, r2 = IF cond THEN Without(r, CalcChain) ELSE r
    PROVE  Workbook \in DOMAIN r => Workbook \in DOMAIN r2 /\ r2[Workbook] = r[Workbook]
<1>1. DOMAIN Without(r, CalcChain) = DOMAIN r \ {CalcChain}
  BY WithoutDomain
<1>2. Workbook \in DOMAIN r => Without(r, CalcChain)[Workbook] = r[Workbook]
  BY WithoutOld, PartKinds
<1> QED
  BY <1>1, <1>2, PartKinds

LEMMA StageWorksheetFull ==
    ASSUME FullCalculationKept, NEW policy, NEW mode, NEW owned,
           StageWorksheet(policy, mode, owned),
           IF RequestsFull(policy, PlannedManifest(Sheet))
           THEN plan'.full = TRUE ELSE plan'.full = plan.full
    PROVE  FullCalculationKept'
<1> DEFINE m == PlannedManifest(Sheet)
           full == RequestsFull(policy, m)
           sheet == Chunks(mode, IF owned THEN {edits + 1} ELSE {})
           calcGone == policy.calc = "remove" /\ CalcChain \in Known(m)
           book == Xml("dom", TRUE)
           r1 == With(replaced, Sheet, sheet)
           r2 == IF full THEN With(r1, Workbook, book) ELSE r1
<1>1. /\ replaced' = IF calcGone THEN Without(r2, CalcChain) ELSE r2
      /\ Workbook \in Known(manifest)
  BY DEF StageWorksheet, Commit, WorkbookReady
<1>2. book.full = TRUE
  BY DEF Xml
<1> HIDE DEF m, sheet, book, full
<1>3. Workbook \in DOMAIN replaced => Workbook \in DOMAIN r1 /\ r1[Workbook] = replaced[Workbook]
  BY BookLeft, PartKinds
<1> HIDE DEF r1
<1>4. CASE full
  <2>1. /\ Workbook \in DOMAIN With(r1, Workbook, book)
        /\ With(r1, Workbook, book)[Workbook] = book
    BY BookStaged
  <2>3. Workbook \in DOMAIN r2 /\ r2[Workbook] = book
    BY <1>4, <2>1
  <2> HIDE DEF r2, calcGone
  <2>4. Workbook \in DOMAIN replaced' /\ replaced'[Workbook] = book
    BY <1>1, <2>3, DroppedMap
  <2> QED
    BY <1>2, <2>4 DEF FullCalculationKept
<1>5. CASE ~full
  <2>1. plan'.full = plan.full
    BY <1>5 DEF full, m
  <2>2. r2 = r1
    BY <1>5
  <2> HIDE DEF r2, calcGone
  <2>3. Workbook \in DOMAIN replaced =>
            Workbook \in DOMAIN replaced' /\ replaced'[Workbook] = replaced[Workbook]
    BY <1>1, <1>3, <2>2, DroppedMap
  <2> QED
    BY <1>1, <2>1, <2>3 DEF FullCalculationKept
<1> QED
  BY <1>4, <1>5

LEMMA RequestFull ==
    ASSUME NEW action, RequestFullCalculation(action)
    PROVE  FullCalculationKept'
<1> DEFINE book == Xml("dom", TRUE)
           r == With(replaced, Workbook, book)
<1>1. replaced' = IF action = "remove" THEN Without(r, CalcChain) ELSE r
  BY DEF RequestFullCalculation, Commit
<1>2. book.full = TRUE
  BY DEF Xml
<1> HIDE DEF book
<1>3. Workbook \in DOMAIN r /\ r[Workbook] = book
  BY BookStaged
<1> HIDE DEF r
<1>5. Workbook \in DOMAIN replaced' /\ replaced'[Workbook] = book
  BY <1>1, <1>3, DroppedMap
<1> QED
  BY <1>2, <1>5 DEF FullCalculationKept

LEMMA RenameFull ==
    ASSUME FullCalculationKept, RenameSheetCatalogEntry, plan'.full = plan.full
    PROVE  FullCalculationKept'
<1> DEFINE book == Xml("dom", CurrentFull)
<1>1. replaced' = With(replaced, Workbook, book) /\ Workbook \in Known(manifest)
  BY DEF RenameSheetCatalogEntry, Commit
<1>2. book.full = CurrentFull
  BY DEF Xml
<1> HIDE DEF book
<1>3. Workbook \in DOMAIN replaced' /\ replaced'[Workbook] = book
  BY <1>1, BookStaged
<1>5. plan.full => CurrentFull
  BY <1>1 DEF FullCalculationKept, CurrentFull
<1> QED
  BY <1>2, <1>3, <1>5 DEF FullCalculationKept

LEMMA PropertiesFull ==
    ASSUME FullCalculationKept, SetDocumentProperties, plan'.full = plan.full
    PROVE  FullCalculationKept'
<1> DEFINE first == Generated(manifest, Core)
           typed == Generated(first, App)
           linked == WithPackageLink(typed, "core", Core)
           m == WithPackageLink(linked, "app", App)
           props == Xml("generate", FALSE)
           r1 == With(replaced, Core, props)
<1>1. manifest' = m /\ replaced' = With(r1, App, props)
  BY DEF SetDocumentProperties, Commit
<1>2. Known(first) = Known(manifest) \cup {Core}
  BY GeneratedFields
<1> HIDE DEF first
<1>3. Known(typed) = Known(first) \cup {App}
  BY GeneratedFields
<1> HIDE DEF typed
<1>4. Known(linked) = Known(typed)
  BY PackageLinkFields
<1> HIDE DEF linked
<1>5. Known(m) = Known(linked)
  BY PackageLinkFields
<1> HIDE DEF m, props
<1>6. Workbook \in Known(manifest)' => Workbook \in Known(manifest)
  BY <1>1, <1>2, <1>3, <1>4, <1>5, PartKinds DEF Known
<1>7. Workbook \in DOMAIN replaced => Workbook \in DOMAIN r1 /\ r1[Workbook] = replaced[Workbook]
  BY BookLeft, PartKinds
<1> HIDE DEF r1
<1>8. Workbook \in DOMAIN r1 => Workbook \in DOMAIN replaced' /\ replaced'[Workbook] = r1[Workbook]
  BY <1>1, BookLeft, PartKinds
<1> QED
  BY <1>6, <1>7, <1>8 DEF FullCalculationKept

(***************************************************************************)
(* The overrides and relationships stay those of parts                     *)
(***************************************************************************)
Typed(m) == m.overrides \subseteq Parts /\ m.links \subseteq Link

LEMMA SetModeTyped ==
    ASSUME NEW m, NEW p, NEW mode, Typed(m)
    PROVE  Typed(SetMode(m, p, mode))
BY SetModeFields DEF Typed

LEMMA PlannedTyped ==
    ASSUME NEW p, IsSource(source), Typed(manifest)
    PROVE  Typed(PlannedManifest(p))
<1>1. CASE p \in Known(manifest)
  BY <1>1 DEF PlannedManifest
<1>2. CASE p \notin Known(manifest)
  <2> DEFINE m == Restored(manifest, p)
  <2>1. /\ m.overrides = manifest.overrides \cup ({p} \cap source.overrides)
        /\ m.links = manifest.links \cup LinksOf(source.links, p)
    BY RestoredFields
  <2>2. PlannedManifest(p) = m
    BY <1>2 DEF PlannedManifest
  <2>3. source.overrides \subseteq Parts /\ LinksOf(source.links, p) \subseteq Link
    BY DEF IsSource, LinksOf
  <2> HIDE DEF m
  <2> QED
    BY <2>1, <2>2, <2>3 DEF Typed
<1> QED
  BY <1>1, <1>2

LEMMA RemovedTyped ==
    ASSUME NEW m, NEW p, Typed(m)
    PROVE  Typed(Removed(m, p))
<1>1. /\ Removed(m, p).overrides = m.overrides \ {p}
      /\ Removed(m, p).links = m.links \ LinksOf(m.links, p)
  BY RemovedFields
<1> QED
  BY <1>1 DEF Typed

LEMMA CalcManifestTyped ==
    ASSUME NEW m, NEW action, Typed(m)
    PROVE  Typed(CalcManifest(m, action))
<1> DEFINE r == Removed(m, CalcChain)
           w == WithoutCalcLinks(r)
<1>1. Typed(r)
  BY RemovedTyped
<1> HIDE DEF r
<1>2. w.overrides = r.overrides
  BY CalcLinksFields
<1>3. w.links = {l \in r.links : ~(Owner(l) = Workbook /\ TypeOf(l) = "calc")}
  BY CalcLinksFields
<1> HIDE DEF w
<1>4. Typed(w)
  BY <1>1, <1>2, <1>3 DEF Typed
<1>5. CalcManifest(m, action) = IF action = "remove" THEN w ELSE m
  BY DEF CalcManifest, w, r
<1> QED
  BY <1>4, <1>5

LEMMA GeneratedTyped ==
    ASSUME NEW m, NEW p \in Parts, Typed(m)
    PROVE  Typed(Generated(m, p))
<1>1. Generated(m, p).overrides = m.overrides \cup {p} /\ Generated(m, p).links = m.links
  BY GeneratedFields
<1> QED
  BY <1>1 DEF Typed

LEMMA PackageLinkTyped ==
    ASSUME NEW m, NEW type \in Types, NEW p \in Parts, Typed(m)
    PROVE  Typed(WithPackageLink(m, type, p))
<1>1. CASE \E l \in LinksOf(m.links, Package) : TypeOf(l) = type
  BY <1>1 DEF WithPackageLink
<1>2. CASE ~\E l \in LinksOf(m.links, Package) : TypeOf(l) = type
  <2> DEFINE w == Manifest(m.parts, m.overrides, m.links \cup {<<Package, type, p>>})
  <2>1. w.overrides = m.overrides /\ w.links = m.links \cup {<<Package, type, p>>}
    BY ManifestFields
  <2>2. WithPackageLink(m, type, p) = w
    BY <1>2 DEF WithPackageLink
  <2>3. <<Package, type, p>> \in Link
    BY DEF Link
  <2> HIDE DEF w
  <2> QED
    BY <2>1, <2>2, <2>3 DEF Typed
<1> QED
  BY <1>1, <1>2

LEMMA WorksheetTyped ==
    ASSUME NEW policy, NEW mode, NEW owned, IsSource(source), Typed(manifest),
           StageWorksheet(policy, mode, owned)
    PROVE  Typed(manifest')
<1> DEFINE m == PlannedManifest(Sheet)
           calc == CalcManifest(m, policy.calc)
           after == SetMode(calc, Sheet, mode)
<1>1. manifest' = IF RequestsFull(policy, m) THEN SetMode(after, Workbook, "dom") ELSE after
  BY DEF StageWorksheet, Commit
<1>2. Typed(m)
  BY PlannedTyped
<1> HIDE DEF m
<1>3. Typed(calc)
  BY <1>2, CalcManifestTyped
<1> HIDE DEF calc
<1>4. Typed(after)
  BY <1>3, SetModeTyped
<1> HIDE DEF after
<1>5. Typed(SetMode(after, Workbook, "dom"))
  BY <1>4, SetModeTyped
<1> QED
  BY <1>1, <1>4, <1>5

LEMMA PropertiesTyped ==
    ASSUME Typed(manifest), SetDocumentProperties
    PROVE  Typed(manifest')
<1> DEFINE first == Generated(manifest, Core)
           typed == Generated(first, App)
           linked == WithPackageLink(typed, "core", Core)
           m == WithPackageLink(linked, "app", App)
<1>1. manifest' = m
  BY DEF SetDocumentProperties, Commit
<1>2. Core \in Parts /\ App \in Parts /\ "core" \in Types /\ "app" \in Types
  BY DEF Parts, Types
<1>3. Typed(first)
  BY <1>2, GeneratedTyped
<1> HIDE DEF first
<1>4. Typed(typed)
  BY <1>2, <1>3, GeneratedTyped
<1> HIDE DEF typed
<1>5. Typed(linked)
  BY <1>2, <1>4, PackageLinkTyped
<1> HIDE DEF linked
<1>6. Typed(m)
  BY <1>2, <1>5, PackageLinkTyped
<1> QED
  BY <1>1, <1>6

(***************************************************************************)
(* The plan, the replacements and the temporary files                      *)
(***************************************************************************)
PlanKept ==
    /\ PlanAgrees /\ ReplacementsKept /\ FullCalculationKept
    /\ plan.action \in Actions /\ Typed(manifest)

PlanInv ==
    /\ AgreementInv
    /\ opened \in {"no", "yes", "rejected"}
    /\ IF opened = "yes" THEN PlanKept
       ELSE Unstaged /\ plan = CopyPlan(source) /\ files = {} /\ edits = 0

LEMMA PlanInitially ==
    ASSUME IsSource(source), Unstaged, plan = CopyPlan(source), files = {}, edits = 0
    PROVE  PlanKept
<1> DEFINE copy == [p \in source.parts |-> "copy"]
<1>1. manifest = Manifest(copy, source.overrides, source.links)
  BY DEF Unstaged, CopyManifest
<1>2. manifest.parts = copy
  BY <1>1, ManifestParts
<1>3. manifest.overrides = source.overrides /\ manifest.links = source.links
  BY <1>1, ManifestFields
<1>4. plan.parts = copy /\ plan.removed = <<>> /\ plan.removedEntries = {}
      /\ plan.full = FALSE /\ plan.action = "none"
  BY DEF CopyPlan, EditPlan
<1>5. DOMAIN copy = source.parts /\ IsMap(copy) /\ \A p \in source.parts : copy[p] = "copy"
  BY DEF IsMap
<1> HIDE DEF copy
<1>6. PlanAgrees
  <2>1. DOMAIN plan.removed = {}
    BY <1>4
  <2> QED
    BY <1>2, <1>4, <1>5, <2>1 DEF PlanAgrees, Known
<1>7. ReplacementsKept
  <2>1. DOMAIN replaced = {}
    BY DEF Unstaged
  <2> QED
    BY <1>2, <1>5, <2>1, PartsAssumption DEF ReplacementsKept, Known
<1>8. FullCalculationKept
  BY <1>4 DEF FullCalculationKept
<1>9. plan.action \in Actions
  BY <1>4 DEF Actions
<1>10. Typed(manifest)
  BY <1>3 DEF Typed, IsSource
<1> QED
  BY <1>6, <1>7, <1>8, <1>9, <1>10 DEF PlanKept

LEMMA OpenPlanned ==
    ASSUME PlanInv, Open
    PROVE  PlanInv'
<1>1. /\ opened = "no" /\ opened' \in {"yes", "rejected"}
      /\ UNCHANGED <<source, manifest, plan, replaced, entries, omitted, files, edits>>
  BY DEF Open
<1>2. AgreementInv'
  BY OpenAgrees DEF PlanInv
<1>3. /\ IsSource(source) /\ Unstaged /\ plan = CopyPlan(source)
      /\ files = {} /\ edits = 0
  BY <1>1 DEF PlanInv, AgreementInv
<1>4. /\ Unstaged' /\ (plan = CopyPlan(source))' /\ files' = {} /\ edits' = 0
      /\ IsSource(source)'
  BY <1>1, <1>3 DEF Unstaged, CopyManifest, CopyPlan, IsSource
<1>5. PlanKept
  BY <1>3, PlanInitially
<1>6. PlanKept'
  BY <1>1, <1>5 DEF PlanKept, PlanAgrees, ReplacementsKept, FullCalculationKept, Known,
                    SourceEntries, Payload
<1> QED
  BY <1>1, <1>2, <1>4, <1>6 DEF PlanInv

LEMMA ReadyPlanned ==
    ASSUME PlanInv, Ready
    PROVE  /\ Agreement /\ PlanKept /\ IsSource(source)
           /\ DOMAIN replaced \subseteq Known(manifest)
           /\ edits \in Nat /\ edits < MaxEdits
<1>1. Agreement /\ PlanKept /\ edits < MaxEdits
  BY DEF PlanInv, Ready, AgreementInv
<1>2. edits \in Nat
  BY <1>1 DEF PlanKept, ReplacementsKept
<1>3. IsSource(source) /\ DOMAIN replaced \subseteq Known(manifest)
  BY <1>1 DEF Agreement, Agrees, PartsAgree
<1> QED
  BY <1>1, <1>2, <1>3

LEMMA CommitPlanned ==
    ASSUME PlanInv, Ready, [Next]_vars, UNCHANGED <<source, opened>>, Effect, PlanAgrees',
           FullCalculationKept', plan'.action \in Actions, Typed(manifest')
    PROVE  PlanInv'
<1>1. AgreementInv'
  BY AgreementStep DEF PlanInv
<1>2. ReplacementsKept'
  BY ReadyPlanned, EffectKeeps DEF PlanKept
<1>3. PlanKept'
  BY <1>2 DEF PlanKept, Typed, Actions, Parts, Link
<1> QED
  BY <1>1, <1>3 DEF PlanInv, Ready

LEMMA StagedPlanned ==
    ASSUME PlanInv, Ready, [Next]_vars, NEW p \in Parts,
           p \in Known(manifest) \cup source.parts,
           NEW payload \in Payload, payload.form = "xml" <=> p \in SmallParts,
           payload.files = {}, p = Workbook /\ plan.full => payload.full,
           StagePart(p, payload)
    PROVE  PlanInv'
<1>1. Agreement /\ PlanKept /\ IsSource(source) /\ DOMAIN replaced \subseteq Known(manifest)
  BY ReadyPlanned
<1>2. UNCHANGED <<source, opened>> /\ manifest' = SetMode(PlannedManifest(p), p, payload.mode)
  BY DEF StagePart, Commit
<1>3. Effect
  BY <1>1, StagePartEffect
<1>4. PlanAgrees' /\ plan'.full = plan.full /\ plan'.action = plan.action
  BY <1>1, StagePartPlans DEF PlanKept
<1>5. FullCalculationKept'
  BY <1>1, <1>4, StagePartFull DEF PlanKept
<1>6. Typed(manifest')
  BY <1>1, <1>2, PlannedTyped, SetModeTyped DEF PlanKept
<1> QED
  BY <1>1, <1>2, <1>3, <1>4, <1>5, <1>6, CommitPlanned DEF PlanKept

LEMMA RemovedPlanned ==
    ASSUME PlanInv, [Next]_vars, NEW p \in Parts, NEW fail \in BOOLEAN, RemovePart(p, fail)
    PROVE  PlanInv'
<1>1. Ready /\ UNCHANGED <<source, opened>> /\ manifest' = Removed(manifest, p)
  BY DEF RemovePart, Commit
<1>2. Agreement /\ PlanKept /\ DOMAIN replaced \subseteq Known(manifest)
  BY <1>1, ReadyPlanned
<1>3. Effect
  BY <1>2, RemovePartEffect
<1>4. PlanAgrees' /\ plan'.full = plan.full /\ plan'.action = plan.action
  BY <1>2, RemovePartPlans DEF PlanKept
<1>5. FullCalculationKept'
  BY <1>2, <1>4, RemovePartFull DEF PlanKept
<1>6. Typed(manifest')
  BY <1>1, <1>2, RemovedTyped DEF PlanKept
<1> QED
  BY <1>1, <1>2, <1>3, <1>4, <1>5, <1>6, CommitPlanned DEF PlanKept

LEMMA WorksheetPlanned ==
    ASSUME PlanInv, [Next]_vars, Ready, Sheet \in Known(manifest) \cup source.parts,
           NEW policy \in Policies, NEW mode \in Modes, NEW owned,
           StageWorksheet(policy, mode, owned)
    PROVE  PlanInv'
<1>1. UNCHANGED <<source, opened>>
  BY DEF StageWorksheet, Commit
<1>2. /\ Agreement /\ PlanKept /\ IsSource(source) /\ DOMAIN replaced \subseteq Known(manifest)
      /\ edits \in Nat /\ edits < MaxEdits
  BY ReadyPlanned
<1>3. Effect
  BY <1>2, StageWorksheetEffect
<1>4. /\ PlanAgrees'
      /\ IF RequestsFull(policy, PlannedManifest(Sheet))
         THEN plan'.full = TRUE /\ plan'.action = policy.calc
         ELSE plan'.full = plan.full /\ plan'.action = plan.action
  BY <1>2, StageWorksheetPlans DEF PlanKept
<1>5. FullCalculationKept'
  BY <1>2, <1>4, StageWorksheetFull DEF PlanKept
<1>6. Typed(manifest')
  BY <1>2, WorksheetTyped DEF PlanKept
<1>7. policy.calc \in Actions
  BY DEF Policies, Actions
<1> QED
  BY <1>1, <1>2, <1>3, <1>4, <1>5, <1>6, <1>7, CommitPlanned DEF PlanKept

LEMMA RequestPlanned ==
    ASSUME PlanInv, [Next]_vars, NEW action \in {"preserve", "remove"},
           RequestFullCalculation(action)
    PROVE  PlanInv'
<1>1. /\ Ready /\ UNCHANGED <<source, opened>>
      /\ manifest' = SetMode(CalcManifest(manifest, action), Workbook, "dom")
  BY DEF RequestFullCalculation, Commit
<1>2. Agreement /\ PlanKept /\ DOMAIN replaced \subseteq Known(manifest)
  BY <1>1, ReadyPlanned
<1>3. Effect
  BY <1>2, RequestEffect
<1>4. PlanAgrees' /\ plan'.full = TRUE /\ plan'.action = action
  BY <1>2, RequestPlans DEF PlanKept
<1>5. FullCalculationKept'
  BY RequestFull
<1>6. Typed(manifest')
  BY <1>1, <1>2, CalcManifestTyped, SetModeTyped DEF PlanKept
<1> QED
  BY <1>1, <1>3, <1>4, <1>5, <1>6, CommitPlanned DEF Actions

LEMMA RenamePlanned ==
    ASSUME PlanInv, [Next]_vars, RenameSheetCatalogEntry
    PROVE  PlanInv'
<1>1. /\ Ready /\ UNCHANGED <<source, opened>>
      /\ manifest' = SetMode(manifest, Workbook, "dom")
  BY DEF RenameSheetCatalogEntry, Commit
<1>2. Agreement /\ PlanKept /\ DOMAIN replaced \subseteq Known(manifest)
  BY <1>1, ReadyPlanned
<1>3. CurrentFull \in BOOLEAN
  BY DEF CurrentFull
<1>4. Effect
  BY <1>2, <1>3, RenameEffect
<1>5. PlanAgrees' /\ plan'.full = plan.full /\ plan'.action = plan.action
  BY <1>2, RenamePlans DEF PlanKept
<1>6. FullCalculationKept'
  BY <1>2, <1>5, RenameFull DEF PlanKept
<1>7. Typed(manifest')
  BY <1>1, <1>2, SetModeTyped DEF PlanKept
<1> QED
  BY <1>1, <1>2, <1>4, <1>5, <1>6, <1>7, CommitPlanned DEF PlanKept

LEMMA PropertiesPlanned ==
    ASSUME PlanInv, [Next]_vars, SetDocumentProperties
    PROVE  PlanInv'
<1>1. Ready /\ UNCHANGED <<source, opened>>
  BY DEF SetDocumentProperties, Commit
<1>2. Agreement /\ PlanKept /\ DOMAIN replaced \subseteq Known(manifest)
  BY <1>1, ReadyPlanned
<1>3. Effect
  BY <1>2, PropertiesEffect
<1>4. PlanAgrees' /\ plan'.full = plan.full /\ plan'.action = plan.action
  BY <1>2, PropertiesPlan DEF PlanKept
<1>5. FullCalculationKept'
  BY <1>2, <1>4, PropertiesFull DEF PlanKept
<1>6. Typed(manifest')
  BY <1>2, PropertiesTyped DEF PlanKept
<1> QED
  BY <1>1, <1>2, <1>3, <1>4, <1>5, <1>6, CommitPlanned DEF PlanKept

LEMMA PlanStep ==
    ASSUME PlanInv, [Next]_vars
    PROVE  PlanInv'
<1>1. CASE UNCHANGED vars
  <2>1. AgreementInv'
    BY AgreementStep DEF PlanInv
  <2> QED
    BY <1>1, <2>1 DEF vars, PlanInv, Unstaged, CopyManifest, CopyPlan, PlanKept, PlanAgrees,
                      ReplacementsKept, FullCalculationKept, Known, SourceEntries, Payload,
                      Typed
<1>2. CASE Open
  BY <1>2, OpenPlanned
<1>3. ASSUME NEW p \in Parts, NEW mode \in Modes, ReplacePart(p, mode)
      PROVE  PlanInv'
  <2> DEFINE own == p = Workbook /\ plan.full
             payload == Xml(mode, own)
  <2>1. /\ Ready /\ p \in Known(manifest) \cup source.parts /\ p \in SmallParts
        /\ StagePart(p, payload)
    BY <1>3 DEF ReplacePart
  <2>2. own \in BOOLEAN
    OBVIOUS
  <2>3. /\ payload \in Payload /\ payload.form = "xml" /\ payload.files = {}
        /\ payload.full = own
    <3> HIDE DEF own
    <3> QED
      BY <2>2, XmlPayload
  <2>4. p = Workbook /\ plan.full => own
    OBVIOUS
  <2> HIDE DEF own, payload
  <2> QED
    BY <2>1, <2>3, <2>4, StagedPlanned
<1>4. ASSUME NEW p \in Parts, ReplacePartChunks(p)
      PROVE  PlanInv'
  <2> DEFINE payload == Chunks("stream", {})
  <2>1. /\ Ready /\ p \in Known(manifest) \cup source.parts /\ p \notin SmallParts
        /\ StagePart(p, payload)
    BY <1>4 DEF ReplacePartChunks
  <2>2. payload \in Payload /\ payload.form = "chunks" /\ payload.files = {}
    BY ChunksPayload DEF Modes
  <2>3. p # Workbook
    BY <2>1, PartKinds
  <2> HIDE DEF payload
  <2> QED
    BY <2>1, <2>2, <2>3, StagedPlanned
<1>5. ASSUME NEW p \in Parts, NEW fail \in BOOLEAN, RemovePart(p, fail)
      PROVE  PlanInv'
  BY <1>5, RemovedPlanned
<1>6. "stream" \in Modes /\ "dom" \in Modes
  BY DEF Modes
<1>7. ASSUME NEW policy \in Policies,
             \/ ReplaceWorksheetFromChunkSource(policy)
             \/ ReplaceWorksheetChunks(policy)
             \/ ReplaceWorksheetSheetData(policy)
             \/ ReplaceWorksheetCells(policy)
             \/ \E inflated \in BOOLEAN : ReplaceWorksheetCellsIndexed(policy, inflated)
      PROVE  PlanInv'
  <2>1. CASE ReplaceWorksheetFromChunkSource(policy)
    BY <1>6, <2>1, WorksheetPlanned DEF ReplaceWorksheetFromChunkSource
  <2>2. CASE ReplaceWorksheetChunks(policy)
    BY <1>6, <2>2, WorksheetPlanned DEF ReplaceWorksheetChunks
  <2>3. CASE ReplaceWorksheetSheetData(policy)
    BY <1>6, <2>3, WorksheetPlanned DEF ReplaceWorksheetSheetData
  <2>4. CASE ReplaceWorksheetCells(policy)
    BY <1>6, <2>4, WorksheetPlanned DEF ReplaceWorksheetCells
  <2>5. ASSUME NEW inflated \in BOOLEAN, ReplaceWorksheetCellsIndexed(policy, inflated)
        PROVE  PlanInv'
    BY <1>6, <2>5, WorksheetPlanned DEF ReplaceWorksheetCellsIndexed
  <2> QED
    BY <1>7, <2>1, <2>2, <2>3, <2>4, <2>5
<1>8. ASSUME NEW action \in {"preserve", "remove"}, RequestFullCalculation(action)
      PROVE  PlanInv'
  BY <1>8, RequestPlanned
<1>9. CASE RenameSheetCatalogEntry
  BY <1>9, RenamePlanned
<1>10. CASE SetDocumentProperties
  BY <1>10, PropertiesPlanned
<1> QED
  BY <1>1, <1>2, <1>3, <1>4, <1>5, <1>7, <1>8, <1>9, <1>10 DEF Next

LEMMA PlanIsInvariant == Spec => []PlanInv
<1>1. Init => PlanInv
  BY SourcesAssumption DEF Init, PlanInv, AgreementInv, Unstaged
<1> QED
  BY <1>1, PlanStep, PTL DEF Spec

LEMMA PlanMeansOutput == PlanInv => PlanFollowsOutput
<1> SUFFICES ASSUME PlanInv, opened = "yes"
             PROVE  PlanFollowsOutput
  BY DEF PlanFollowsOutput
<1>1. Agreement /\ PlanKept
  BY DEF PlanInv, AgreementInv
<1>2. plan.parts = manifest.parts /\ DOMAIN plan.removed = source.parts \ Known(manifest)
  BY <1>1 DEF PlanKept, PlanAgrees
<1>3. ASSUME NEW p \in Known(manifest)
      PROVE  plan.parts[p] = OutputMode(p)
  BY <1>1, <1>2 DEF PlanKept, ReplacementsKept, OutputMode
<1>4. ASSUME NEW p \in DOMAIN plan.removed
      PROVE  PartEntry(p) \in omitted
  BY <1>1, <1>2 DEF Agreement, Agrees, PartsAgree
<1>5. plan.removedEntries \subseteq omitted
  BY <1>1 DEF PlanKept, PlanAgrees
<1> QED
  BY <1>2, <1>3, <1>4, <1>5 DEF PlanFollowsOutput

LEMMA PlanMeansFull == PlanInv => FullCalculationKept
<1>1. CASE opened = "yes"
  BY <1>1 DEF PlanInv, PlanKept
<1>2. CASE opened # "yes"
  BY <1>2 DEF PlanInv, FullCalculationKept, CopyPlan, EditPlan
<1> QED
  BY <1>1, <1>2

LEMMA PlanMeansOwned == PlanInv => StagedFilesOwned
<1>1. CASE opened = "yes"
  BY <1>1 DEF PlanInv, PlanKept, ReplacementsKept, StagedFilesOwned
<1>2. CASE opened # "yes"
  BY <1>2 DEF PlanInv, Unstaged, StagedFilesOwned
<1> QED
  BY <1>1, <1>2

LEMMA PlanMeansTypes == PlanInv => TypeOK
<1> SUFFICES ASSUME PlanInv PROVE TypeOK
  OBVIOUS
<1>1. IsSource(source) /\ opened \in {"no", "yes", "rejected"}
  BY DEF PlanInv, AgreementInv
<1>2. PlanKept
  BY <1>1, PlanInitially DEF PlanInv
<1>3. Typed(manifest) /\ plan.action \in Actions /\ ReplacementsKept
  BY <1>2 DEF PlanKept
<1>4. /\ Known(manifest) \subseteq Parts
      /\ DOMAIN entries \subseteq {TypesEntry, RelsEntry(Package), RelsEntry(Workbook)}
  <2>1. CASE opened = "yes"
    <3>1. Agreement
      BY <2>1 DEF PlanInv, AgreementInv
    <3> QED
      BY <3>1, KnownParts DEF Agreement, Agrees, EntriesNamed
  <2>2. CASE opened # "yes"
    <3>1. Unstaged
      BY <2>2 DEF PlanInv
    <3>2. Known(manifest) = DOMAIN [p \in source.parts |-> "copy"]
      BY <3>1, ManifestFields DEF Unstaged, CopyManifest
    <3> QED
      BY <1>1, <3>1, <3>2 DEF Unstaged, IsSource
  <2> QED
    BY <2>1, <2>2
<1> QED
  BY <1>1, <1>3, <1>4 DEF TypeOK, Typed, ReplacementsKept

(* The maps of a planned package are over its parts and entry names, small *)
(* parts are staged as XML and all others as chunks.                       *)
THEOREM TypeCorrect == Spec => []TypeOK
BY PlanIsInvariant, PlanMeansTypes, PTL

(* The edit plan that audits report is the one a save carries out: every   *)
(* part with its mode, as removed exactly what the package has lost.       *)
THEOREM PlanIsCarriedOut == Spec => []PlanFollowsOutput
BY PlanIsInvariant, PlanMeansOutput, PTL

(* A requested recalculation stays on the workbook part through every      *)
(* replacement, rename, removal and restoration of it.                     *)
THEOREM RecalculationIsKept == Spec => []FullCalculationKept
BY PlanIsInvariant, PlanMeansFull, PTL

(* A temporary file that a planned part is read from is the editor's.      *)
THEOREM TemporariesAreOwned == Spec => []StagedFilesOwned
BY PlanIsInvariant, PlanMeansOwned, PTL
(***************************************************************************)
(* Reports of relationships.  No worksheet of a source is related to the   *)
(* calcChain: a rewrite that removes it looks for relationships whose      *)
(* target is gone before it does.                                          *)
(***************************************************************************)
SheetsAvoidCalcChain ==
    \A s \in Sources : \A l \in s.links : Owner(l) = Sheet => Target(l) # CalcChain

ReportsInv ==
    /\ PlanInv /\ source \in Sources
    /\ LinksOf(manifest.links, Sheet) \subseteq source.links
    /\ DanglingSheetLinksReported

LEMMA WithoutFields ==
    ASSUME NEW f, NEW x
    PROVE  LET g == Without(f, x)
           IN  /\ DOMAIN g = DOMAIN f \ {x}
               /\ \A y \in DOMAIN f : y # x => y \in DOMAIN g /\ g[y] = f[y]
BY DEF Without

LEMMA UnresolvedField ==
    ASSUME NEW a, NEW b, NEW c, NEW d, NEW u, NEW f, NEW g
    PROVE  EditPlan(a, b, c, d, u, f, g).unresolved = u
BY DEF EditPlan

LEMMA EntriesKeepUnresolved ==
    ASSUME NEW pl
    PROVE  /\ \A e, mode : PlanEntry(pl, e, mode).unresolved = pl.unresolved
           /\ \A e : PlanEntryRemoval(pl, e).unresolved = pl.unresolved
           /\ \A owners : PreservedRels(pl, owners).unresolved = pl.unresolved
<1>1. \A planned, gone : WithEntries(pl, planned, gone).unresolved = pl.unresolved
  BY UnresolvedField DEF WithEntries
<1> QED
  BY <1>1 DEF PlanEntry, PlanEntryRemoval, PreservedRels

LEMMA PartsKeepUnresolved ==
    ASSUME NEW pl
    PROVE  /\ \A p, mode : PlanPart(pl, p, mode).unresolved = pl.unresolved
           /\ \A p, inbound : PlanRemoval(pl, p, inbound).unresolved = pl.unresolved
           /\ \A action : PlanRecalculation(pl, action).unresolved = pl.unresolved
           /\ \A links : PlanUnresolved(pl, links).unresolved = pl.unresolved \cup links
<1>1. \A parts, removed : WithParts(pl, parts, removed).unresolved = pl.unresolved
  BY UnresolvedField DEF WithParts
<1>2. \A p, mode : PlanPart(pl, p, mode).unresolved = pl.unresolved
  BY <1>1 DEF PlanPart
<1>3. \A p, inbound : PlanRemoval(pl, p, inbound).unresolved = pl.unresolved
  BY <1>1 DEF PlanRemoval
<1>4. \A action : PlanRecalculation(pl, action).unresolved = pl.unresolved
  BY DEF PlanRecalculation, EditPlan
<1>5. ASSUME NEW links
      PROVE  PlanUnresolved(pl, links).unresolved = pl.unresolved \cup links
  BY UnresolvedField DEF PlanUnresolved
<1> QED
  BY <1>2, <1>3, <1>4, <1>5

LEMMA ActiveKeepsUnresolved ==
    ASSUME NEW pl, NEW e, NEW m, NEW p
    PROVE  ActivePlan(pl, e, m, p).unresolved = pl.unresolved
<1> DEFINE pl1 == IF RelsEntry(p) \in DOMAIN e THEN pl ELSE PreservedRels(pl, {p})
<1>1. pl1.unresolved = pl.unresolved
  BY EntriesKeepUnresolved
<1>2. ActivePlan(pl, e, m, p) = SyncedTypesPlan(pl1, e, m)
  BY DEF ActivePlan
<1> HIDE DEF pl1
<1>3. SyncedTypesPlan(pl1, e, m).unresolved = pl1.unresolved
  BY EntriesKeepUnresolved DEF SyncedTypesPlan
<1> QED
  BY <1>1, <1>2, <1>3

LEMMA CalcKeepsUnresolved ==
    ASSUME NEW pl, NEW m, NEW action, NEW inbound
    PROVE  /\ CalcEntriesPlan(pl, m, action).unresolved = pl.unresolved
           /\ CalcRemovalPlan(pl, m, action, inbound).unresolved = pl.unresolved
<1> DEFINE gone == IF action = "remove" /\ CalcChain \in source.parts
                   THEN PlanEntryRemoval(pl, RelsEntry(CalcChain)) ELSE pl
           typed == IF DropsTypes(m, action) THEN PlanEntry(gone, TypesEntry, "dom") ELSE gone
<1>1. gone.unresolved = pl.unresolved
  BY EntriesKeepUnresolved
<1>2. CalcEntriesPlan(pl, m, action)
          = IF DropsLinks(m, action) THEN PlanEntry(typed, RelsEntry(Workbook), "dom") ELSE typed
  BY DEF CalcEntriesPlan
<1> HIDE DEF gone
<1>3. typed.unresolved = gone.unresolved
  BY EntriesKeepUnresolved
<1> HIDE DEF typed
<1>4. CalcEntriesPlan(pl, m, action).unresolved = typed.unresolved
  BY <1>2, EntriesKeepUnresolved
<1>5. CalcRemovalPlan(pl, m, action, inbound).unresolved = pl.unresolved
  BY PartsKeepUnresolved DEF CalcRemovalPlan
<1> QED
  BY <1>1, <1>3, <1>4, <1>5

\* What an operation other than a rewrite of the worksheet leaves reported.
ReportsCarried ==
    /\ plan.unresolved \subseteq plan'.unresolved
    /\ \A p \in DOMAIN plan.removed \ Known(manifest)' :
           p \in DOMAIN plan'.removed /\ plan'.removed[p] = plan.removed[p]
    /\ \A p \in Known(manifest) \ Known(manifest)' :
           p \in DOMAIN plan'.removed /\ plan'.removed[p] = Inbound(manifest, p)
    /\ LinksOf(manifest.links, Sheet)' \subseteq LinksOf(manifest.links, Sheet)
    /\ Sheet \in DOMAIN replaced' => Sheet \in DOMAIN replaced

LEMMA CarriedStaysReported ==
    ASSUME DanglingSheetLinksReported, ReportsCarried
    PROVE  DanglingSheetLinksReported'
<1> SUFFICES ASSUME Sheet \in DOMAIN replaced', NEW l \in LinksOf(manifest.links, Sheet)',
                    Target(l) \notin Known(manifest)', l \notin plan'.unresolved
             PROVE  Target(l) \in DOMAIN plan'.removed /\ l \in plan'.removed[Target(l)]
  BY DEF DanglingSheetLinksReported
<1>1. l \in LinksOf(manifest.links, Sheet) /\ Sheet \in DOMAIN replaced /\ l \notin plan.unresolved
  BY DEF ReportsCarried
<1>2. CASE Target(l) \in Known(manifest)
  <2>1. l \in Inbound(manifest, Target(l))
    BY <1>1 DEF Inbound, LinksOf
  <2> QED
    BY <1>2, <2>1 DEF ReportsCarried
<1>3. CASE Target(l) \in DOMAIN plan.removed /\ l \in plan.removed[Target(l)]
  BY <1>3 DEF ReportsCarried
<1> QED
  BY <1>1, <1>2, <1>3 DEF DanglingSheetLinksReported

LEMMA SetModeLinks ==
    ASSUME NEW p, NEW mode, p # Sheet
    PROVE  LinksOf(SetMode(PlannedManifest(p), p, mode).links, Sheet)
               = LinksOf(manifest.links, Sheet)
<1>1. SetMode(PlannedManifest(p), p, mode).links = PlannedManifest(p).links
  BY SetModeFields
<1>2. CASE p \in Known(manifest)
  BY <1>1, <1>2 DEF PlannedManifest
<1>3. CASE p \notin Known(manifest)
  <2>1. PlannedManifest(p).links = manifest.links \cup LinksOf(source.links, p)
    BY <1>3, RestoredFields DEF PlannedManifest
  <2> QED
    BY <1>1, <2>1, OtherLinksAdded
<1> QED
  BY <1>2, <1>3

LEMMA StagePartCarries ==
    ASSUME PlanKept, NEW p, p # Sheet, NEW payload, StagePart(p, payload)
    PROVE  ReportsCarried
<1> DEFINE m == SetMode(PlannedManifest(p), p, payload.mode)
           pl1 == PlanPart(plan, p, payload.mode)
<1>1. /\ manifest' = m /\ plan' = ActivePlan(pl1, entries, m, p)
      /\ replaced' = With(replaced, p, payload)
  BY DEF StagePart, Commit
<1>2. Known(m) = Known(manifest) \cup {p}
  BY SetModeFields, PlannedKnown
<1>3. LinksOf(m.links, Sheet) = LinksOf(manifest.links, Sheet)
  BY SetModeLinks
<1> HIDE DEF m
<1>4. pl1.removed = Without(plan.removed, p) /\ pl1.unresolved = plan.unresolved
  BY PlanPartFields, PartsKeepUnresolved
<1> HIDE DEF pl1
<1>5. plan'.removed = pl1.removed /\ plan'.unresolved = pl1.unresolved
  BY <1>1, ActivePlanRefines, ActiveKeepsUnresolved DEF Refined
<1>6. DOMAIN replaced' = DOMAIN replaced \cup {p}
  BY <1>1, WithDomain
<1>7. ASSUME NEW q \in DOMAIN plan.removed \ Known(manifest)'
      PROVE  q \in DOMAIN plan'.removed /\ plan'.removed[q] = plan.removed[q]
  <2>1. q # p
    BY <1>1, <1>2
  <2>2. plan'.removed = Without(plan.removed, p)
    BY <1>4, <1>5
  <2> QED
    <3> DEFINE g == Without(plan.removed, p)
    <3>1. \A y \in DOMAIN plan.removed : y # p => y \in DOMAIN g /\ g[y] = plan.removed[y]
      BY WithoutFields
    <3>2. plan'.removed = g
      BY <2>2
    <3> HIDE DEF g
    <3> QED
      BY <2>1, <3>1, <3>2
<1>8. Known(manifest)' = Known(m)
  BY <1>1
<1> QED
  BY <1>1, <1>2, <1>3, <1>4, <1>5, <1>6, <1>7, <1>8 DEF ReportsCarried

LEMMA RemovePartCarries ==
    ASSUME PlanKept, NEW p, NEW fail, RemovePart(p, fail)
    PROVE  ReportsCarried
<1> DEFINE m == Removed(manifest, p)
           inbound == Inbound(manifest, p)
           pl1 == PlanRemoval(plan, p, inbound)
           pl2 == PlanEntryRemoval(pl1, RelsEntry(p))
<1>1. /\ manifest' = m /\ replaced' = Without(replaced, p) /\ p \in Known(manifest)
      /\ plan' = IF p \in manifest.overrides THEN PlanEntry(pl2, TypesEntry, "dom") ELSE pl2
  BY DEF RemovePart, Commit
<1>2. /\ Known(m) = Known(manifest) \ {p}
      /\ m.links = manifest.links \ LinksOf(manifest.links, p)
  BY RemovedFields
<1>3. LinksOf(m.links, Sheet) \subseteq LinksOf(manifest.links, Sheet)
  BY <1>2 DEF LinksOf
<1> HIDE DEF m
<1>4. pl1.removed = With(plan.removed, p, inbound) /\ pl1.unresolved = plan.unresolved
  BY PlanRemovalFields, PartsKeepUnresolved
<1> HIDE DEF pl1
<1>5. pl2.removed = pl1.removed /\ pl2.unresolved = pl1.unresolved
  BY PlanEntryRemovalFields, EntriesKeepUnresolved
<1> HIDE DEF pl2
<1>6. plan'.removed = pl2.removed /\ plan'.unresolved = pl2.unresolved
  BY <1>1, PlanEntryRefines, EntriesKeepUnresolved DEF Refined
<1>7. DOMAIN replaced' = DOMAIN replaced \ {p}
  BY <1>1, WithoutDomain
<1>8. p \notin DOMAIN plan.removed
  BY <1>1 DEF PlanKept, PlanAgrees
<1>9. plan'.removed = With(plan.removed, p, inbound)
  BY <1>4, <1>5, <1>6
<1> DEFINE g == With(plan.removed, p, inbound)
<1>13. /\ DOMAIN g = DOMAIN plan.removed \cup {p} /\ g[p] = inbound
       /\ \A y \in DOMAIN plan.removed : y # p => y \in DOMAIN g /\ g[y] = plan.removed[y]
  <2>1. DOMAIN g = DOMAIN plan.removed \cup {p}
    BY WithDomain
  <2>2. g[p] = inbound
    BY WithNew
  <2>3. ASSUME NEW y \in DOMAIN plan.removed, y # p
        PROVE  g[y] = plan.removed[y]
    BY <2>3, WithOld
  <2> HIDE DEF g
  <2> QED
    BY <2>1, <2>2, <2>3
<1>14. plan'.removed = g
  BY <1>9
<1> HIDE DEF g
<1>10. p \in DOMAIN plan'.removed /\ plan'.removed[p] = inbound
  BY <1>13, <1>14
<1>11. ASSUME NEW q \in DOMAIN plan.removed
       PROVE  q \in DOMAIN plan'.removed /\ plan'.removed[q] = plan.removed[q]
  <2>1. q # p
    BY <1>8
  <2> QED
    BY <1>13, <1>14, <2>1
<1>12. Known(manifest)' = Known(m)
  BY <1>1
<1> QED
  BY <1>1, <1>2, <1>3, <1>4, <1>5, <1>6, <1>7, <1>10, <1>11, <1>12 DEF ReportsCarried

LEMMA CalcLinksOfSheet ==
    ASSUME NEW m, NEW action
    PROVE  LinksOf(CalcManifest(m, action).links, Sheet) = LinksOf(m.links, Sheet)
<1>1. CASE action # "remove"
  BY <1>1 DEF CalcManifest
<1>2. CASE action = "remove"
  <2> DEFINE gone == Removed(m, CalcChain)
  <2>1. gone.links = m.links \ LinksOf(m.links, CalcChain)
    BY RemovedFields
  <2>2. CalcManifest(m, action) = WithoutCalcLinks(gone)
    BY <1>2 DEF CalcManifest
  <2> HIDE DEF gone
  <2>3. WithoutCalcLinks(gone).links
            = {l \in gone.links : ~(Owner(l) = Workbook /\ TypeOf(l) = "calc")}
    BY CalcLinksFields
  <2> QED
    BY <2>1, <2>2, <2>3, PartKinds DEF LinksOf
<1> QED
  BY <1>1, <1>2

LEMMA RequestCarries ==
    ASSUME PlanKept, NEW action, RequestFullCalculation(action)
    PROVE  ReportsCarried
<1> DEFINE calc == CalcManifest(manifest, action)
           m == SetMode(calc, Workbook, "dom")
           inbound == Inbound(manifest, CalcChain)
           pl0 == PlanRecalculation(plan, action)
           book == PlanPart(pl0, Workbook, "dom")
           gone == CalcRemovalPlan(book, manifest, action, inbound)
           pl2 == CalcEntriesPlan(gone, manifest, action)
           r == With(replaced, Workbook, Xml("dom", TRUE))
<1>1. /\ manifest' = m /\ Workbook \in Known(manifest)
      /\ plan' = IF action # "remove" THEN PreservedRels(book, {Workbook, CalcChain})
                 ELSE IF DropsLinks(manifest, action) THEN pl2
                 ELSE PreservedRels(pl2, {Workbook})
      /\ replaced' = IF action = "remove" THEN Without(r, CalcChain) ELSE r
  BY DEF RequestFullCalculation, Commit, WorkbookReady
<1>2. /\ Known(m) = IF action = "remove" THEN Known(manifest) \ {CalcChain} ELSE Known(manifest)
      /\ LinksOf(m.links, Sheet) = LinksOf(manifest.links, Sheet)
  <2>1. Known(m) = Known(calc) \cup {Workbook} /\ m.links = calc.links
    BY SetModeFields
  <2>2. /\ Known(calc) = IF action = "remove" THEN Known(manifest) \ {CalcChain}
                         ELSE Known(manifest)
        /\ LinksOf(calc.links, Sheet) = LinksOf(manifest.links, Sheet)
    BY CalcManifestFields, CalcLinksOfSheet
  <2> HIDE DEF calc, m
  <2> QED
    BY <1>1, <2>1, <2>2, PartKinds
<1> HIDE DEF m
<1>3. /\ book.removed = Without(plan.removed, Workbook) /\ book.unresolved = plan.unresolved
  <2>1. pl0.removed = plan.removed /\ pl0.unresolved = plan.unresolved
    BY PlanRecalculationFields, PartsKeepUnresolved
  <2> HIDE DEF pl0
  <2> QED
    BY <2>1, PlanPartFields, PartsKeepUnresolved
<1> HIDE DEF book
<1>4. Workbook \notin DOMAIN plan.removed
  BY <1>1 DEF PlanKept, PlanAgrees
<1>5. /\ DOMAIN book.removed = DOMAIN plan.removed
      /\ \A q \in DOMAIN plan.removed : book.removed[q] = plan.removed[q]
  BY <1>3, <1>4, WithoutDomain, WithoutOld
<1>6. gone.unresolved = book.unresolved
  BY CalcKeepsUnresolved
<1>7. gone.removed = IF action = "remove" /\ CalcChain \in Known(manifest)
                     THEN With(book.removed, CalcChain, inbound) ELSE book.removed
  BY PlanRemovalFields DEF CalcRemovalPlan
<1> HIDE DEF gone
<1>8. pl2.removed = gone.removed /\ pl2.unresolved = gone.unresolved
  BY CalcEntriesPlanRefines, CalcKeepsUnresolved
<1> HIDE DEF pl2
<1>9. /\ plan'.unresolved = plan.unresolved
      /\ plan'.removed = IF action = "remove" /\ CalcChain \in Known(manifest)
                         THEN With(book.removed, CalcChain, inbound) ELSE book.removed
  <2>1. CASE action # "remove"
    BY <1>1, <1>3, <2>1, PreservedRelsRefines, EntriesKeepUnresolved DEF Refined
  <2>2. CASE action = "remove"
    <3>1. plan'.removed = pl2.removed /\ plan'.unresolved = pl2.unresolved
      BY <1>1, <2>2, PreservedRelsRefines, EntriesKeepUnresolved DEF Refined
    <3> QED
      BY <1>3, <1>6, <1>7, <1>8, <3>1
  <2> QED
    BY <2>1, <2>2
<1>10. Sheet \in DOMAIN replaced' => Sheet \in DOMAIN replaced
  <2>1. DOMAIN r = DOMAIN replaced \cup {Workbook}
    BY WithDomain
  <2> HIDE DEF r
  <2>2. DOMAIN Without(r, CalcChain) = DOMAIN r \ {CalcChain}
    BY WithoutDomain
  <2> QED
    BY <1>1, <2>1, <2>2, PartKinds
<1>11. Known(manifest)' = Known(m) /\ LinksOf(manifest.links, Sheet)' = LinksOf(m.links, Sheet)
  BY <1>1
<1>12. CASE action = "remove" /\ CalcChain \in Known(manifest)
  <2>1. CalcChain \notin DOMAIN plan.removed
    BY <1>12 DEF PlanKept, PlanAgrees
  <2> DEFINE g == With(book.removed, CalcChain, inbound)
  <2>2. plan'.removed = g
    BY <1>9, <1>12
  <2>5. /\ DOMAIN g = DOMAIN book.removed \cup {CalcChain} /\ g[CalcChain] = inbound
        /\ \A y \in DOMAIN book.removed :
               y # CalcChain => y \in DOMAIN g /\ g[y] = book.removed[y]
    <3>1. DOMAIN g = DOMAIN book.removed \cup {CalcChain}
      BY WithDomain
    <3>2. g[CalcChain] = inbound
      BY WithNew
    <3>3. ASSUME NEW y \in DOMAIN book.removed, y # CalcChain
          PROVE  g[y] = book.removed[y]
      BY <3>3, WithOld
    <3> HIDE DEF g
    <3> QED
      BY <3>1, <3>2, <3>3
  <2> HIDE DEF g
  <2>3. CalcChain \in DOMAIN plan'.removed /\ plan'.removed[CalcChain] = inbound
    BY <2>2, <2>5
  <2>4. ASSUME NEW q \in DOMAIN plan.removed
        PROVE  q \in DOMAIN plan'.removed /\ plan'.removed[q] = plan.removed[q]
    <3>1. q # CalcChain /\ q \in DOMAIN book.removed
      BY <1>5, <2>1
    <3> QED
      BY <1>5, <2>2, <2>5, <3>1
  <2> QED
    BY <1>2, <1>9, <1>10, <1>11, <1>12, <2>3, <2>4 DEF ReportsCarried
<1>13. CASE ~(action = "remove" /\ CalcChain \in Known(manifest))
  <2>1. plan'.removed = book.removed /\ Known(m) = Known(manifest)
    BY <1>2, <1>9, <1>13
  <2> QED
    BY <1>2, <1>5, <1>9, <1>10, <1>11, <2>1 DEF ReportsCarried
<1> QED
  BY <1>12, <1>13

LEMMA RenameCarries ==
    ASSUME PlanKept, RenameSheetCatalogEntry
    PROVE  ReportsCarried
<1> DEFINE pl1 == PlanPart(plan, Workbook, "dom")
           m == SetMode(manifest, Workbook, "dom")
<1>1. /\ manifest' = m /\ plan' = PreservedRels(pl1, {Workbook})
      /\ replaced' = With(replaced, Workbook, Xml("dom", CurrentFull))
      /\ Workbook \in Known(manifest)
  BY DEF RenameSheetCatalogEntry, Commit
<1>2. Known(m) = Known(manifest) /\ m.links = manifest.links
  BY <1>1, SetModeFields
<1> HIDE DEF m
<1>3. pl1.removed = Without(plan.removed, Workbook) /\ pl1.unresolved = plan.unresolved
  BY PlanPartFields, PartsKeepUnresolved
<1> HIDE DEF pl1
<1>4. plan'.removed = pl1.removed /\ plan'.unresolved = pl1.unresolved
  BY <1>1, PreservedRelsRefines, EntriesKeepUnresolved DEF Refined
<1>5. DOMAIN replaced' = DOMAIN replaced \cup {Workbook}
  BY <1>1, WithDomain
<1>6. Workbook \notin DOMAIN plan.removed
  BY <1>1 DEF PlanKept, PlanAgrees
<1>7. \A q \in DOMAIN plan.removed :
          q \in DOMAIN plan'.removed /\ plan'.removed[q] = plan.removed[q]
  BY <1>3, <1>4, <1>6, WithoutDomain, WithoutOld
<1>8. /\ Known(manifest)' = Known(m)
      /\ LinksOf(manifest.links, Sheet)' = LinksOf(m.links, Sheet)
  BY <1>1
<1> QED
  BY <1>2, <1>3, <1>4, <1>5, <1>7, <1>8, PartKinds DEF ReportsCarried

LEMMA PropertiesCarry ==
    ASSUME PlanKept, SetDocumentProperties
    PROVE  ReportsCarried
<1> DEFINE one == Generated(manifest, Core)
           typed == Generated(one, App)
           linked == WithPackageLink(typed, "core", Core)
           m == WithPackageLink(linked, "app", App)
           newTypes == ~({Core, App} \subseteq Known(manifest) \cap manifest.overrides)
           pl0 == PlanPart(plan, Core, "generate")
           pl1 == PlanPart(pl0, App, "generate")
           pl2 == IF newTypes THEN PlanEntry(pl1, TypesEntry, "dom") ELSE pl1
           props == Xml("generate", FALSE)
           r == With(replaced, Core, props)
<1>1. /\ manifest' = m /\ replaced' = With(r, App, props)
      /\ plan' = IF m.links # manifest.links THEN PlanEntry(pl2, RelsEntry(Package), "dom")
                 ELSE pl2
  BY DEF SetDocumentProperties, Commit
<1>2. /\ Known(m) = Known(manifest) \cup {Core, App}
      /\ LinksOf(m.links, Sheet) = LinksOf(manifest.links, Sheet)
  <2>1. Known(one) = Known(manifest) \cup {Core} /\ one.links = manifest.links
    BY GeneratedFields
  <2> HIDE DEF one
  <2>2. Known(typed) = Known(one) \cup {App} /\ typed.links = one.links
    BY GeneratedFields
  <2> HIDE DEF typed
  <2>3. Sheet # Package
    BY Distinct DEF Parts
  <2>4. /\ Known(linked) = Known(typed)
        /\ LinksOf(linked.links, Sheet) = LinksOf(typed.links, Sheet)
    BY <2>3, PackageLinkFields
  <2> HIDE DEF linked
  <2>5. Known(m) = Known(linked) /\ LinksOf(m.links, Sheet) = LinksOf(linked.links, Sheet)
    BY <2>3, PackageLinkFields
  <2> HIDE DEF m
  <2> QED
    BY <2>1, <2>2, <2>4, <2>5
<1> HIDE DEF m
<1>3. pl0.removed = Without(plan.removed, Core) /\ pl0.unresolved = plan.unresolved
  BY PlanPartFields, PartsKeepUnresolved
<1> HIDE DEF pl0
<1>4. pl1.removed = Without(pl0.removed, App) /\ pl1.unresolved = pl0.unresolved
  BY PlanPartFields, PartsKeepUnresolved
<1> HIDE DEF pl1
<1>5. pl2.removed = pl1.removed /\ pl2.unresolved = pl1.unresolved
  BY PlanEntryRefines, EntriesKeepUnresolved DEF Refined
<1> HIDE DEF pl2
<1>6. plan'.removed = pl2.removed /\ plan'.unresolved = pl2.unresolved
  BY <1>1, PlanEntryRefines, EntriesKeepUnresolved DEF Refined
<1>7. DOMAIN replaced' = DOMAIN replaced \cup {Core, App}
  <2>1. DOMAIN r = DOMAIN replaced \cup {Core}
    BY WithDomain
  <2> HIDE DEF r
  <2> DEFINE r2 == With(r, App, props)
  <2>2. DOMAIN r2 = DOMAIN r \cup {App} /\ replaced' = r2
    BY <1>1, WithDomain
  <2> HIDE DEF r2
  <2> QED
    BY <2>1, <2>2
<1>8. ASSUME NEW q \in DOMAIN plan.removed \ Known(m)
      PROVE  q \in DOMAIN plan'.removed /\ plan'.removed[q] = plan.removed[q]
  <2>1. q # Core /\ q # App
    BY <1>2
  <2>2. q \in DOMAIN pl0.removed /\ pl0.removed[q] = plan.removed[q]
    <3> DEFINE g == Without(plan.removed, Core)
    <3>1. \A y \in DOMAIN plan.removed : y # Core => y \in DOMAIN g /\ g[y] = plan.removed[y]
      BY WithoutFields
    <3>2. pl0.removed = g
      BY <1>3
    <3> HIDE DEF g
    <3> QED
      BY <2>1, <3>1, <3>2
  <2>3. q \in DOMAIN pl1.removed /\ pl1.removed[q] = pl0.removed[q]
    <3> DEFINE g == Without(pl0.removed, App)
    <3>1. \A y \in DOMAIN pl0.removed : y # App => y \in DOMAIN g /\ g[y] = pl0.removed[y]
      BY WithoutFields
    <3>2. pl1.removed = g
      BY <1>4
    <3> HIDE DEF g
    <3> QED
      BY <2>1, <2>2, <3>1, <3>2
  <2> QED
    BY <1>5, <1>6, <2>2, <2>3
<1>9. /\ Known(manifest)' = Known(m)
      /\ LinksOf(manifest.links, Sheet)' = LinksOf(m.links, Sheet)
  BY <1>1
<1>10. Sheet \notin {Core, App}
  BY Distinct
<1> QED
  BY <1>2, <1>3, <1>4, <1>5, <1>6, <1>7, <1>8, <1>9, <1>10 DEF ReportsCarried

\* A rewrite reports what its worksheet is related to and the plan has not.
LEMMA WorksheetReports ==
    ASSUME SheetsAvoidCalcChain, source \in Sources, LinksOf(manifest.links, Sheet) \subseteq source.links,
           NEW policy, NEW mode, NEW owned, StageWorksheet(policy, mode, owned)
    PROVE  /\ LinksOf(manifest.links, Sheet)' \subseteq source.links
           /\ DanglingSheetLinksReported'
<1> DEFINE m == PlannedManifest(Sheet)
           full == RequestsFull(policy, m)
           calc == CalcManifest(m, policy.calc)
           after == SetMode(calc, Sheet, mode)
           m2 == IF full THEN SetMode(after, Workbook, "dom") ELSE after
           target == ActivePlan(PlanPart(plan, Sheet, mode), entries, calc, Sheet)
           sheet == PreservedRels(target, Copied(m, policy))
           book == IF full
                   THEN PlanPart(PlanRecalculation(sheet, policy.calc), Workbook, "dom")
                   ELSE sheet
           audited == PlanUnresolved(book, Unresolved(m))
           gone == CalcRemovalPlan(audited, m, policy.calc, {})
<1>1. manifest' = m2 /\ plan' = CalcEntriesPlan(gone, m, policy.calc)
  BY DEF StageWorksheet, WorksheetPlan, Commit
<1>2. plan'.unresolved = audited.unresolved
  BY <1>1, CalcKeepsUnresolved
<1>3. Unresolved(m) \subseteq audited.unresolved
  <2> HIDE DEF book
  <2>1. audited.unresolved = book.unresolved \cup Unresolved(m)
    BY UnresolvedField DEF PlanUnresolved
  <2> QED
    BY <2>1
<1> HIDE DEF target, sheet, book, audited, gone
<1>4. LinksOf(m.links, Sheet) \subseteq source.links
  <2>1. CASE Sheet \in Known(manifest)
    BY <2>1 DEF PlannedManifest
  <2>2. CASE Sheet \notin Known(manifest)
    <3>1. m.links = manifest.links \cup LinksOf(source.links, Sheet)
      BY <2>2, RestoredFields DEF PlannedManifest
    <3> QED
      BY <3>1 DEF LinksOf
  <2> QED
    BY <2>1, <2>2
<1>5. /\ LinksOf(m2.links, Sheet) = LinksOf(m.links, Sheet)
      /\ Known(m) \ {CalcChain} \subseteq Known(m2)
  <2>1. LinksOf(calc.links, Sheet) = LinksOf(m.links, Sheet)
    BY CalcLinksOfSheet
  <2>2. Known(m) \ {CalcChain} \subseteq Known(calc)
    BY CalcManifestFields
  <2> HIDE DEF calc, m
  <2>3. after.links = calc.links /\ Known(calc) \subseteq Known(after)
    BY SetModeFields
  <2> HIDE DEF after
  <2>4. m2.links = after.links /\ Known(after) \subseteq Known(m2)
    BY SetModeFields
  <2> HIDE DEF m2
  <2> QED
    BY <2>1, <2>2, <2>3, <2>4
<1>6. LinksOf(manifest.links, Sheet)' = LinksOf(m2.links, Sheet) /\ Known(manifest)' = Known(m2)
  BY <1>1
<1> HIDE DEF m2, calc, after, full
<1>7. ASSUME NEW l \in LinksOf(manifest.links, Sheet)'
      PROVE  Target(l) \in Known(manifest)' \/ l \in plan'.unresolved
  <2>1. l \in LinksOf(m.links, Sheet)
    BY <1>5, <1>6
  <2>2. Owner(l) = Sheet /\ l \in m.links /\ Target(l) # CalcChain
    BY <1>4, <2>1 DEF LinksOf, SheetsAvoidCalcChain
  <2>3. CASE Target(l) \in Known(m)
    BY <1>5, <1>6, <2>2, <2>3
  <2>4. CASE Target(l) \notin Known(m)
    <3>1. Sheet \in DependencyParts(m)
      BY DEF DependencyParts
    <3>2. l \in Unresolved(m)
      BY <2>2, <2>4, <3>1 DEF Unresolved, Known
    <3> QED
      BY <1>2, <1>3, <3>2
  <2> QED
    BY <2>3, <2>4
<1> QED
  BY <1>4, <1>5, <1>6, <1>7 DEF DanglingSheetLinksReported

LEMMA ReportsStep ==
    ASSUME SheetsAvoidCalcChain, ReportsInv, [Next]_vars
    PROVE  ReportsInv'
<1>1. PlanInv' /\ source' = source
  <2>1. source' = source
    BY DEF Next, vars, Open, ReplacePart, ReplacePartChunks, StagePart, RemovePart, Commit,
           ReplaceWorksheetFromChunkSource, ReplaceWorksheetChunks, ReplaceWorksheetSheetData,
           ReplaceWorksheetCells, ReplaceWorksheetCellsIndexed, StageWorksheet,
           RequestFullCalculation, RenameSheetCatalogEntry, SetDocumentProperties
  <2> QED
    BY <2>1, PlanStep DEF ReportsInv
<1>2. ASSUME ReportsCarried
      PROVE  ReportsInv'
  BY <1>1, <1>2, CarriedStaysReported DEF ReportsInv, ReportsCarried
<1>3. ASSUME NEW policy, NEW mode, NEW owned, StageWorksheet(policy, mode, owned)
      PROVE  ReportsInv'
  BY <1>1, <1>3, WorksheetReports DEF ReportsInv
<1>4. Ready => PlanKept
  BY ReadyPlanned DEF ReportsInv
<1>5. CASE UNCHANGED vars
  BY <1>1, <1>5 DEF vars, ReportsInv, DanglingSheetLinksReported, Known
<1>6. CASE Open
  BY <1>1, <1>6 DEF Open, ReportsInv, DanglingSheetLinksReported, Known
<1>7. ASSUME NEW p \in Parts, NEW mode \in Modes, ReplacePart(p, mode)
      PROVE  ReportsInv'
  <2>1. Ready /\ p # Sheet /\ StagePart(p, Xml(mode, p = Workbook /\ plan.full))
    BY <1>7, PartKinds DEF ReplacePart
  <2> QED
    BY <1>2, <1>4, <2>1, StagePartCarries
<1>8. ASSUME NEW p \in Parts, ReplacePartChunks(p)
      PROVE  ReportsInv'
  <2>1. Ready /\ p # Sheet /\ StagePart(p, Chunks("stream", {}))
    BY <1>8 DEF ReplacePartChunks
  <2> QED
    BY <1>2, <1>4, <2>1, StagePartCarries
<1>9. ASSUME NEW p \in Parts, NEW fail \in BOOLEAN, RemovePart(p, fail)
      PROVE  ReportsInv'
  BY <1>2, <1>4, <1>9, RemovePartCarries DEF RemovePart
<1>10. ASSUME NEW policy \in Policies,
              \/ ReplaceWorksheetFromChunkSource(policy)
              \/ ReplaceWorksheetChunks(policy)
              \/ ReplaceWorksheetSheetData(policy)
              \/ ReplaceWorksheetCells(policy)
              \/ \E inflated \in BOOLEAN : ReplaceWorksheetCellsIndexed(policy, inflated)
       PROVE  ReportsInv'
  BY <1>3, <1>10 DEF ReplaceWorksheetFromChunkSource, ReplaceWorksheetChunks,
                     ReplaceWorksheetSheetData, ReplaceWorksheetCells,
                     ReplaceWorksheetCellsIndexed
<1>11. ASSUME NEW action \in {"preserve", "remove"}, RequestFullCalculation(action)
       PROVE  ReportsInv'
  BY <1>2, <1>4, <1>11, RequestCarries DEF RequestFullCalculation
<1>12. CASE RenameSheetCatalogEntry
  BY <1>2, <1>4, <1>12, RenameCarries DEF RenameSheetCatalogEntry
<1>13. CASE SetDocumentProperties
  BY <1>2, <1>4, <1>13, PropertiesCarry DEF SetDocumentProperties
<1> QED
  BY <1>5, <1>6, <1>7, <1>8, <1>9, <1>10, <1>11, <1>12, <1>13 DEF Next

LEMMA ReportsInitially == ASSUME Init PROVE ReportsInv
<1>1. PlanInv
  BY SourcesAssumption DEF Init, PlanInv, AgreementInv, Unstaged
<1>2. manifest.links = source.links
  BY ManifestFields DEF Init, CopyManifest
<1>3. LinksOf(manifest.links, Sheet) \subseteq source.links
  BY <1>2 DEF LinksOf
<1> QED
  BY <1>1, <1>3 DEF Init, ReportsInv, DanglingSheetLinksReported

(* Every relationship of a replaced worksheet whose target is gone has     *)
(* been reported to the caller, whichever went first, as long as no        *)
(* worksheet is related to the calcChain.                                  *)
THEOREM DanglingLinksAreReported ==
    SheetsAvoidCalcChain => (Spec => []DanglingSheetLinksReported)
<1> SUFFICES ASSUME SheetsAvoidCalcChain PROVE Spec => []DanglingSheetLinksReported
  OBVIOUS
<1>1. Init => ReportsInv
  BY ReportsInitially
<1>2. ReportsInv /\ [Next]_vars => ReportsInv'
  BY ReportsStep
<1>3. ReportsInv => DanglingSheetLinksReported
  BY DEF ReportsInv
<1> QED
  BY <1>1, <1>2, <1>3, PTL DEF Spec
=============================================================================
