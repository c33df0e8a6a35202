-------------------------- MODULE ReadModel_proofs --------------------------
(* The tables keep their keys and references whatever arrives              *)
(* (TypeCorrect); a lead or a manual sale stands as its last change left   *)
(* it, in whatever order the changes arrive (LastChangeStandsAlways); what *)
(* an event linked is told together, whatever arrives after it             *)
(* (JourneysLinkedAlways); a search finds what the events name             *)
(* (SearchCompleteAlways); the rates of a report are off by no more than   *)
(* what was ingested while it ran (RatesBoundedAlways); and the reports    *)
(* agree with each other: by source, by day, method, channel and product,  *)
(* and in the two parts of a period (SourcesAgreeAlways,                   *)
(* BreakdownsAgreeAlways, PeriodsAddUpAlways). The first section is about  *)
(* the classifier's rules, for every visit and every list of excluded      *)
(* hosts.                                                                  *)
EXTENDS ReportRequests, Journeys, FiniteSetTheorems, SequenceTheorems,
        WellFoundedInduction, TLAPS

-----------------------------------------------------------------------------
(* The classifier *)

\* The filter of the reports lists every source there is
\* (README.md:397, classifier.py:203-260).
THEOREM SourcesListed ==
  ASSUME NEW visit, NEW excluded
  PROVE  ClassifySource(visit, excluded) \in SourceNames
BY Zenon DEF ClassifySource, SourceNames

\* A visit is direct exactly if nothing is known of where it came from but, at
\* most, an excluded host: neither click id nor utm is ever taken for a direct
\* visit, which would let an older touch stand (classifier.py:214-258).
THEOREM DirectIffNothingKnown ==
  ASSUME NEW visit, NEW excluded
  PROVE  ClassifySource(visit, excluded) = "direct" <=>
           /\ ~HasClickId(visit) /\ ~HasUtm(visit)
           /\ EffectiveReferrer(visit, excluded) = Null
<1>1. ASSUME ~HasClickId(visit), ~HasUtm(visit), EffectiveReferrer(visit, excluded) = Null
      PROVE  ClassifySource(visit, excluded) = "direct"
  BY <1>1, ClassifierAssumption DEF ClassifySource, HasUtm
<1>2. CASE HasClickId(visit)
  BY <1>2 DEF ClassifySource
<1>3. CASE ~HasClickId(visit) /\ HasUtm(visit)
  BY <1>3 DEF ClassifySource
<1>4. CASE /\ ~HasClickId(visit) /\ ~HasUtm(visit)
           /\ EffectiveReferrer(visit, excluded) # Null
  BY <1>4 DEF ClassifySource
<1> QED
  BY <1>1, <1>2, <1>3, <1>4

\* A visit of an anonymized visitor is direct, so that it starts no new touch but
\* the first one (session_started.py:60-85).
THEOREM ErasedIsDirect ==
  ASSUME NEW visit, Fields \subseteq DOMAIN visit, NEW excluded
  PROVE  ClassifySource(Erased(visit), excluded) = "direct"
<1>1. \A f \in Fields : Erased(visit)[f] = Null
  BY DEF Erased
<1>2. ~HasClickId(Erased(visit)) /\ ~HasUtm(Erased(visit))
  BY <1>1 DEF HasClickId, HasUtm, Fields
<1>3. EffectiveReferrer(Erased(visit), excluded) = Null
  BY <1>1 DEF EffectiveReferrer, Fields
<1> QED
  BY <1>2, <1>3, DirectIffNothingKnown

\* A host that is excluded stays so when rules are added.
LEMMA MoreExcluded ==
  ASSUME NEW host, NEW excluded, NEW more, excluded \subseteq more,
         IsExcludedHost(host, excluded)
  PROVE  IsExcludedHost(host, more)
BY DEF IsExcludedHost

\* A payment provider or an origin that is added to the list takes visits from
\* seo, social and referral to direct, and changes nothing else
\* (classifier.py:216-217).
THEOREM ExclusionOnlyHidesReferrers ==
  ASSUME NEW visit, NEW excluded, NEW more, excluded \subseteq more,
         ClassifySource(visit, more) # ClassifySource(visit, excluded)
  PROVE  /\ ClassifySource(visit, excluded) \in {"seo", "social", "referral"}
         /\ ClassifySource(visit, more) = "direct"
<1>1. EffectiveReferrer(visit, more) # EffectiveReferrer(visit, excluded)
  BY DEF ClassifySource
<1>2. /\ EffectiveReferrer(visit, more) = Null
      /\ EffectiveReferrer(visit, excluded) # Null
  BY <1>1, MoreExcluded DEF EffectiveReferrer
<1>3. ~HasClickId(visit) /\ ~HasUtm(visit)
  BY <1>2 DEF ClassifySource
<1>4. ClassifySource(visit, more) = "direct"
  BY <1>2, <1>3, DirectIffNothingKnown
<1>5. ClassifySource(visit, excluded) \in {"seo", "social", "referral"}
  BY <1>2, <1>3, ClassifierAssumption DEF ClassifySource, HasUtm
<1> QED
  BY <1>4, <1>5

-----------------------------------------------------------------------------
(* Tables *)

Ids(rows) == {r.id : r \in rows}

Key(t, r) == IF t = "payments" THEN <<r.id, r.method>> ELSE r.id

KeysUnique(t, rows) == \A r, s \in rows : Key(t, r) = Key(t, s) => r = s

\* Tables whose rows change, and their columns.
Entities == {"visitors", "sessions", "leads", "orders", "sales", "refunds"}

Columns(t) ==
  CASE t = "visitors" -> DOMAIN VisitorStub(Null)
    [] t = "sessions" -> DOMAIN SessionStub(Null, Null)
    [] t = "leads" -> DOMAIN LeadStub(Null)
    [] t = "orders" -> DOMAIN OrderStub(Null)
    [] t = "sales" -> DOMAIN SaleStub(Null)
    [] OTHER -> {"id", "order", "at", "amount", "currency", "method", "shop", "invalid"}

\* Tables with a row for an event.
Facts == {"views", "carts", "checkouts", "intents", "payments", "history"}

OfVisitors == {"sessions", "leads", "orders", "sales", "views", "carts",
               "checkouts", "intents", "contacts", "payments", "links"}

\* A row of table t has its columns, and what it refers to is there, if d are the
\* tables and J the events stored.
RowSound(d, J, t, r) ==
  /\ t \in Entities => DOMAIN r = Columns(t)
  /\ t \in Facts => \E e \in J : e.id = r.id
  /\ t \in OfVisitors => r.visitor \in Ids(d["visitors"]) \cup {Null}
  /\ t \in {"orders", "sales", "contacts"} => r.lead \in Ids(d["leads"]) \cup {Null}
  /\ t = "history" => r.lead \in Ids(d["leads"])
  /\ t \in {"refunds", "lines"} => r.order \in Ids(d["orders"])
  /\ t = "refundLines" => r.refund \in Ids(d["refunds"])

TableSound(d, J, t, rows) ==
  /\ t \notin {"lines", "refundLines", "links"} => KeysUnique(t, rows)
  /\ \A r \in rows : RowSound(d, J, t, r)

Sound(d, J) ==
  /\ d = [t \in Tables |-> d[t]]
  /\ \A t \in Tables : TableSound(d, J, t, d[t])

\* No row is deleted that others may refer to.
Grown(d, d2) ==
  \A t \in {"visitors", "leads", "orders", "refunds"} : Ids(d[t]) \subseteq Ids(d2[t])

\* The rows that e names are there.
Present(d, e) ==
  /\ e.visitor \in Ids(d["visitors"]) \cup {Null}
  /\ e.lead \in Ids(d["leads"]) \cup {Null}
  /\ e.order \in Ids(d["orders"]) \cup {Null}
  /\ e.sale \in Ids(d["sales"]) \cup {Null}

Fresh(J, e) == \A f \in J : f.id # e.id

\* Tables that lose no id others refer to are sound, if each that changed is.
LEMMA Changed ==
  ASSUME NEW d, NEW d2, NEW J, NEW J2, NEW C,
         Sound(d, J), J \subseteq J2, Grown(d, d2),
         d2 = [t \in Tables |-> d2[t]],
         \A t \in Tables \ C : d2[t] = d[t],
         \A t \in C : TableSound(d, J2, t, d2[t])
  PROVE  Sound(d2, J2)
<1>1. ASSUME NEW t \in Tables PROVE TableSound(d, J2, t, d2[t])
  BY <1>1 DEF Sound, TableSound, RowSound
<1>2. ASSUME NEW t \in Tables, NEW r, RowSound(d, J2, t, r) PROVE RowSound(d2, J2, t, r)
  BY <1>2 DEF RowSound, Grown
<1> QED BY <1>1, <1>2 DEF Sound, TableSound

\* INSERT .. ON CONFLICT DO NOTHING of a sound row.
LEMMA Inserted ==
  ASSUME NEW d, NEW J, NEW t, NEW rows, NEW row,
         TableSound(d, J, t, rows), t # "payments", RowSound(d, J, t, row)
  PROVE  /\ TableSound(d, J, t, InsertNew(rows, row))
         /\ Ids(InsertNew(rows, row)) = Ids(rows) \cup {row.id}
BY DEF TableSound, InsertNew, Ids, KeysUnique, Key

\* F takes rows to new.
Takes(F, rows, new) ==
  /\ \A r \in rows : F[r] \in new
  /\ \A n \in new : \E r \in rows : n = F[r]

\* An UPDATE that leaves ids alone.
LEMMA Imaged ==
  ASSUME NEW d, NEW J, NEW t \in Entities, NEW rows, NEW F, NEW new,
         Takes(F, rows, new), TableSound(d, J, t, rows),
         \A r \in rows : F[r].id = r.id /\ RowSound(d, J, t, F[r])
  PROVE  TableSound(d, J, t, new) /\ Ids(new) = Ids(rows)
<1>1. \A x : Key(t, x) = x.id
  BY DEF Entities, Key
<1>2. ASSUME NEW r \in rows, NEW s \in rows, F[r].id = F[s].id PROVE F[r] = F[s]
  BY <1>1, <1>2 DEF TableSound, KeysUnique, Entities
<1>3. KeysUnique(t, new)
  BY <1>1, <1>2 DEF KeysUnique, Takes
<1>4. \A n \in new : RowSound(d, J, t, n)
  BY DEF Takes
<1>5. Ids(new) = Ids(rows)
  BY DEF Ids, Takes
<1> QED BY <1>3, <1>4, <1>5 DEF TableSound

-----------------------------------------------------------------------------
(* Stubs *)

\* A stub is inserted for an id that the event names (stubs.py:21).
LEMMA StubInserted ==
  ASSUME NEW d, NEW J, NEW t, NEW rows, NEW i, NEW row,
         TableSound(d, J, t, rows), t # "payments", RowSound(d, J, t, row), row.id = i
  PROVE  /\ TableSound(d, J, t, InsertStub(rows, i, row))
         /\ Ids(rows) \subseteq Ids(InsertStub(rows, i, row))
         /\ i \in Ids(InsertStub(rows, i, row)) \cup {Null}
BY Inserted DEF InsertStub

\* What EnsureStubs does, table by table.
LEMMA StubTables ==
  ASSUME NEW d, NEW e, d = [t \in Tables |-> d[t]]
  PROVE  /\ EnsureStubs(d, e) = [t \in Tables |-> EnsureStubs(d, e)[t]]
         /\ EnsureStubs(d, e)["visitors"]
              = InsertStub(d["visitors"], e.visitor, VisitorStub(e.visitor))
         /\ EnsureStubs(d, e)["sessions"]
              = IF e.visitor = Null THEN d["sessions"]
                ELSE InsertStub(d["sessions"], e.session, SessionStub(e.session, e.visitor))
         /\ EnsureStubs(d, e)["leads"] = InsertStub(d["leads"], e.lead, LeadStub(e.lead))
         /\ EnsureStubs(d, e)["orders"] = InsertStub(d["orders"], e.order, OrderStub(e.order))
         /\ EnsureStubs(d, e)["sales"] = InsertStub(d["sales"], e.sale, SaleStub(e.sale))
         /\ \A t \in Tables \ {"visitors", "sessions", "leads", "orders", "sales"} :
              EnsureStubs(d, e)[t] = d[t]
BY DEF EnsureStubs, Tables

LEMMA StubRows ==
  ASSUME NEW d, NEW J, NEW i, NEW v \in Ids(d["visitors"])
  PROVE  /\ RowSound(d, J, "visitors", VisitorStub(i)) /\ VisitorStub(i).id = i
         /\ RowSound(d, J, "sessions", SessionStub(i, v)) /\ SessionStub(i, v).id = i
BY DEF RowSound, Entities, Facts, OfVisitors, Columns, VisitorStub, SessionStub

LEMMA DependentStubRows ==
  ASSUME NEW d, NEW J, NEW i
  PROVE  /\ RowSound(d, J, "leads", LeadStub(i)) /\ LeadStub(i).id = i
         /\ RowSound(d, J, "orders", OrderStub(i)) /\ OrderStub(i).id = i
         /\ RowSound(d, J, "sales", SaleStub(i)) /\ SaleStub(i).id = i
BY DEF RowSound, Entities, Facts, OfVisitors, Columns, LeadStub, OrderStub, SaleStub

LEMMA VisitorStubRow ==
  ASSUME NEW d, NEW J, NEW i
  PROVE  RowSound(d, J, "visitors", VisitorStub(i)) /\ VisitorStub(i).id = i
BY DEF RowSound, Entities, Facts, OfVisitors, Columns, VisitorStub

\* After the stubs, every row that e names is there.
LEMMA StubsSound ==
  ASSUME NEW d, NEW J, NEW e, Sound(d, J)
  PROVE  /\ Sound(EnsureStubs(d, e), J) /\ Present(EnsureStubs(d, e), e)
         /\ Grown(d, EnsureStubs(d, e))
<1> DEFINE d1 == [d EXCEPT !.visitors = InsertStub(@, e.visitor, VisitorStub(e.visitor))]
           d2 == EnsureStubs(d, e)
<1>1. /\ d = [t \in Tables |-> d[t]] /\ \A t \in Tables : TableSound(d, J, t, d[t])
      /\ d1 = [t \in Tables |-> d1[t]]
      /\ d1["visitors"] = InsertStub(d["visitors"], e.visitor, VisitorStub(e.visitor))
      /\ \A t \in Tables \ {"visitors"} : d1[t] = d[t]
      /\ {"visitors", "sessions", "leads", "orders", "sales", "refunds"} \subseteq Tables
  BY DEF Sound, Tables
<1> HIDE DEF d1
<1>2. /\ TableSound(d, J, "visitors", d1["visitors"])
      /\ Ids(d["visitors"]) \subseteq Ids(d1["visitors"])
      /\ e.visitor \in Ids(d1["visitors"]) \cup {Null}
  BY <1>1, StubInserted, VisitorStubRow
<1>3. Grown(d, d1)
  BY <1>1, <1>2 DEF Grown
<1>4. Sound(d1, J)
  <2> DEFINE C == {"visitors"}
  <2>1. \A t \in C : TableSound(d, J, t, d1[t])
    BY <1>2
  <2>2. \A t \in Tables \ C : d1[t] = d[t]
    BY <1>1
  <2> HIDE DEF C
  <2> QED BY <1>1, <1>3, <2>1, <2>2, Changed
<1>5. \A t \in Tables : TableSound(d1, J, t, d1[t])
  BY <1>4 DEF Sound
<1>t. /\ d2["leads"] = InsertStub(d1["leads"], e.lead, LeadStub(e.lead))
      /\ d2["orders"] = InsertStub(d1["orders"], e.order, OrderStub(e.order))
      /\ d2["sales"] = InsertStub(d1["sales"], e.sale, SaleStub(e.sale))
      /\ TableSound(d1, J, "leads", d1["leads"])
      /\ TableSound(d1, J, "orders", d1["orders"])
      /\ TableSound(d1, J, "sales", d1["sales"])
  BY <1>1, <1>5, StubTables
<1>6. /\ TableSound(d1, J, "leads", d2["leads"])
      /\ Ids(d1["leads"]) \subseteq Ids(d2["leads"]) /\ e.lead \in Ids(d2["leads"]) \cup {Null}
  <2>1. RowSound(d1, J, "leads", LeadStub(e.lead)) /\ LeadStub(e.lead).id = e.lead
    BY DependentStubRows
  <2> HIDE DEF d2
  <2> QED BY <1>t, <2>1, StubInserted
<1>7. /\ TableSound(d1, J, "orders", d2["orders"])
      /\ Ids(d1["orders"]) \subseteq Ids(d2["orders"]) /\ e.order \in Ids(d2["orders"]) \cup {Null}
  <2>1. RowSound(d1, J, "orders", OrderStub(e.order)) /\ OrderStub(e.order).id = e.order
    BY DependentStubRows
  <2> HIDE DEF d2
  <2> QED BY <1>t, <2>1, StubInserted
<1>8. /\ TableSound(d1, J, "sales", d2["sales"])
      /\ e.sale \in Ids(d2["sales"]) \cup {Null}
  <2>1. RowSound(d1, J, "sales", SaleStub(e.sale)) /\ SaleStub(e.sale).id = e.sale
    BY DependentStubRows
  <2> HIDE DEF d2
  <2> QED BY <1>t, <2>1, StubInserted
<1>9. TableSound(d1, J, "sessions", d2["sessions"])
  <2>1. CASE e.visitor = Null
    BY <2>1, <1>1, <1>5, StubTables
  <2>2. CASE e.visitor # Null
    <3>1. d2["sessions"] = InsertStub(d1["sessions"], e.session, SessionStub(e.session, e.visitor))
      BY <2>2, <1>1, StubTables
    <3>2. e.visitor \in Ids(d1["visitors"])
      BY <2>2, <1>2
    <3>3. TableSound(d1, J, "sessions", d1["sessions"])
      BY <1>1, <1>5
    <3> HIDE DEF d2
    <3> QED BY <3>1, <3>2, <3>3, StubRows, StubInserted
  <2> QED BY <2>1, <2>2
<1>10. d2 = [t \in Tables |-> d2[t]] /\ d2["visitors"] = d1["visitors"]
       /\ \A t \in Tables \ {"sessions", "leads", "orders", "sales"} : d2[t] = d1[t]
  BY <1>1, StubTables
<1> HIDE DEF d2
<1>11. Grown(d1, d2)
  BY <1>1, <1>6, <1>7, <1>10 DEF Grown
<1>12. Sound(d2, J)
  <2> DEFINE C == {"sessions", "leads", "orders", "sales"}
  <2>1. \A t \in C : TableSound(d1, J, t, d2[t])
    BY <1>6, <1>7, <1>8, <1>9
  <2>2. \A t \in Tables \ C : d2[t] = d1[t]
    BY <1>10
  <2> HIDE DEF C
  <2> QED BY <1>4, <1>10, <1>11, <2>1, <2>2, Changed
<1>13. Grown(d, d2)
  BY <1>3, <1>11 DEF Grown
<1>14. Present(d2, e)
  BY <1>2, <1>6, <1>7, <1>8, <1>10 DEF Present
<1> QED BY <1>12, <1>13, <1>14 DEF d2

-----------------------------------------------------------------------------
(* Rows of facts *)

\* The columns of a fact's place, and its own.
LEMMA Placed ==
  ASSUME NEW e, NEW columns, DOMAIN columns \cap {"at", "shop", "market", "visitor"} = {}
  PROVE  /\ Extend(Place(e), columns).visitor = e.visitor
         /\ Extend(Place(e), columns).at = e.at
         /\ \A c \in DOMAIN columns : Extend(Place(e), columns)[c] = columns[c]
BY DEF Extend, Place

\* A row for an event that is not stored yet has a new key.
LEMMA FactAdded ==
  ASSUME NEW d, NEW J, NEW e, NEW t \in Facts \ {"payments"}, NEW row,
         Sound(d, J), Fresh(J, e), row.id = e.id, RowSound(d, J \cup {e}, t, row)
  PROVE  Sound([d EXCEPT ![t] = @ \cup {row}], J \cup {e})
<1> DEFINE d2 == [d EXCEPT ![t] = @ \cup {row}]
           C == {t}
<1>1. t \in Tables /\ t \notin Entities /\ t # "payments"
      /\ t \notin {"visitors", "leads", "orders", "refunds"}
  BY DEF Facts, Tables, Entities
<1>2. /\ d2 = [u \in Tables |-> d2[u]] /\ d2[t] = d[t] \cup {row}
      /\ \A u \in Tables \ C : d2[u] = d[u]
  BY <1>1 DEF Sound
<1>3. TableSound(d, J, t, d[t])
  BY <1>1 DEF Sound
<1>4. \A r \in d[t] : r.id # e.id
  BY <1>3 DEF TableSound, RowSound, Fresh
<1>5. KeysUnique(t, d2[t])
  BY <1>2, <1>3, <1>4, <1>1 DEF TableSound, KeysUnique, Key, Facts
<1>6. \A r \in d2[t] : RowSound(d, J \cup {e}, t, r)
  BY <1>2, <1>3 DEF TableSound, RowSound
<1>7. \A u \in C : TableSound(d, J \cup {e}, u, d2[u])
  BY <1>5, <1>6 DEF TableSound
<1>8. Grown(d, d2)
  BY <1>1, <1>2 DEF Grown, Tables
<1> HIDE DEF C
<1>9. Sound(d2, J \cup {e})
  <2> HIDE DEF d2
  <2> QED BY <1>2, <1>7, <1>8, Changed
<1> QED BY <1>9

LEMMA WebFacts ==
  ASSUME NEW d, NEW J, NEW e, Sound(d, J), Present(d, e), Fresh(J, e)
  PROVE  /\ Sound(ProductViewed(d, e), J \cup {e})
         /\ Sound(AddToCart(d, e), J \cup {e})
         /\ Sound(CheckoutStarted(d, e), J \cup {e})
         /\ Sound(ContactIntent(d, e), J \cup {e})
<1>1. ASSUME NEW t \in {"views", "carts", "checkouts", "intents"}, NEW row,
             row.id = e.id, row.visitor = e.visitor
      PROVE  t \in Facts \ {"payments"} /\ RowSound(d, J \cup {e}, t, row)
  BY <1>1 DEF RowSound, Facts, Entities, OfVisitors, Present
<1>2. Sound(ProductViewed(d, e), J \cup {e})
  <2> DEFINE row == Extend(Place(e), [id |-> e.id, sku |-> e.sku])
  <2>1. row.id = e.id /\ row.visitor = e.visitor
    BY Placed
  <2> HIDE DEF row
  <2>2. Sound([d EXCEPT !["views"] = @ \cup {row}], J \cup {e})
    BY <1>1, <2>1, FactAdded
  <2> QED BY <2>2 DEF ProductViewed, row
<1>3. Sound(AddToCart(d, e), J \cup {e})
  <2> DEFINE row == Extend(Place(e), [id |-> e.id, sku |-> e.sku])
  <2>1. row.id = e.id /\ row.visitor = e.visitor
    BY Placed
  <2> HIDE DEF row
  <2>2. Sound([d EXCEPT !["carts"] = @ \cup {row}], J \cup {e})
    BY <1>1, <2>1, FactAdded
  <2> QED BY <2>2 DEF AddToCart, row
<1>4. Sound(CheckoutStarted(d, e), J \cup {e})
  <2> DEFINE row == Extend(Place(e), [id |-> e.id])
  <2>1. row.id = e.id /\ row.visitor = e.visitor
    BY Placed
  <2> HIDE DEF row
  <2>2. Sound([d EXCEPT !["checkouts"] = @ \cup {row}], J \cup {e})
    BY <1>1, <2>1, FactAdded
  <2> QED BY <2>2 DEF CheckoutStarted, row
<1>5. Sound(ContactIntent(d, e), J \cup {e})
  <2> DEFINE row == Extend(Place(e), [id |-> e.id, channel |-> e.channel])
  <2>1. row.id = e.id /\ row.visitor = e.visitor
    BY Placed
  <2> HIDE DEF row
  <2>2. Sound([d EXCEPT !["intents"] = @ \cup {row}], J \cup {e})
    BY <1>1, <2>1, FactAdded
  <2> QED BY <2>2 DEF ContactIntent, row
<1> QED BY <1>2, <1>3, <1>4, <1>5

LEMMA ContactSound ==
  ASSUME NEW d, NEW J, NEW e, Sound(d, J), Present(d, e)
  PROVE  Sound(ContactReceived(d, e), J \cup {e})
<1> DEFINE row == Extend(Place(e), [id |-> e.contact, lead |-> e.lead,
                                    channel |-> e.contactChannel])
           d2 == ContactReceived(d, e)
           C == {"contacts"}
<1>1. row.id = e.contact /\ row.visitor = e.visitor /\ row.lead = e.lead
  BY Placed
<1>2. RowSound(d, J \cup {e}, "contacts", row)
  BY <1>1 DEF RowSound, Facts, Entities, OfVisitors, Present
<1>3. TableSound(d, J \cup {e}, "contacts", d["contacts"])
  BY DEF Sound, TableSound, RowSound, Tables
<1>4. /\ d2 = [u \in Tables |-> d2[u]] /\ d2["contacts"] = InsertNew(d["contacts"], row)
      /\ \A u \in Tables \ C : d2[u] = d[u]
  BY DEF Sound, ContactReceived, Tables
<1> HIDE DEF row
<1>5. \A u \in C : TableSound(d, J \cup {e}, u, d2[u])
  BY <1>2, <1>3, <1>4, Inserted
<1>6. Grown(d, d2)
  BY <1>4 DEF Grown, Tables
<1> HIDE DEF C, d2
<1>7. Sound(d2, J \cup {e})
  BY <1>4, <1>5, <1>6, Changed
<1> QED BY <1>7 DEF d2

LEMMA LinkSound ==
  ASSUME NEW d, NEW J, NEW e, Sound(d, J), Present(d, e)
  PROVE  Sound(CustomerLinked(d, e), J \cup {e})
<1> DEFINE row == [visitor |-> e.visitor, customer |-> e.customer]
           d2 == CustomerLinked(d, e)
           C == {"links"}
<1>1. RowSound(d, J \cup {e}, "links", row)
  BY DEF RowSound, Facts, Entities, OfVisitors, Present
<1>2. /\ d2 = [u \in Tables |-> d2[u]] /\ d2["links"] = d["links"] \cup {row}
      /\ \A u \in Tables \ C : d2[u] = d[u]
  BY DEF Sound, CustomerLinked, Tables
<1> HIDE DEF row
<1>3. \A u \in C : TableSound(d, J \cup {e}, u, d2[u])
  BY <1>1, <1>2 DEF Sound, TableSound, RowSound, Tables
<1>4. Grown(d, d2)
  BY <1>2 DEF Grown, Tables
<1> HIDE DEF C, d2
<1>5. Sound(d2, J \cup {e})
  BY <1>2, <1>3, <1>4, Changed
<1> QED BY <1>5 DEF d2

\* Keys of payments are an event and a method (models/facts.py).
LEMMA PaymentsAdded ==
  ASSUME NEW d, NEW J, NEW e, NEW M, NEW kind,
         Sound(d, J), Present(d, e), Fresh(J, e)
  PROVE  Sound([d EXCEPT !.payments = @ \cup {Payment(e, m, kind) : m \in M}], J \cup {e})
<1> DEFINE new == {Payment(e, m, kind) : m \in M}
           d2 == [d EXCEPT !.payments = @ \cup new]
           C == {"payments"}
<1>1. \A m \in M : /\ Payment(e, m, kind).id = e.id /\ Payment(e, m, kind).visitor = e.visitor
                   /\ Payment(e, m, kind).method = m
  BY Placed DEF Payment
<1>2. \A r \in new : RowSound(d, J \cup {e}, "payments", r)
  BY <1>1 DEF RowSound, Facts, Entities, OfVisitors, Present
<1>3. TableSound(d, J, "payments", d["payments"])
  BY DEF Sound, Tables
<1>4. \A r \in d["payments"] : r.id # e.id
  BY <1>3 DEF TableSound, RowSound, Fresh, Facts
<1>5. /\ d2 = [u \in Tables |-> d2[u]] /\ d2["payments"] = d["payments"] \cup new
      /\ \A u \in Tables \ C : d2[u] = d[u]
  BY DEF Sound, Tables
<1>6. \A r, s \in new : r.method = s.method => r = s
  BY <1>1
<1>7. \A r \in new : r.id = e.id
  BY <1>1
<1> HIDE DEF new
<1>8. KeysUnique("payments", d2["payments"])
  <2>1. \A r, s \in d["payments"] : r.id = s.id /\ r.method = s.method => r = s
    BY <1>3 DEF TableSound, KeysUnique, Key
  <2>2. \A r, s \in d2["payments"] : r.id = s.id /\ r.method = s.method => r = s
    BY <2>1, <1>4, <1>5, <1>6, <1>7
  <2> QED BY <2>2 DEF KeysUnique, Key
<1>9. \A u \in C : TableSound(d, J \cup {e}, u, d2[u])
  BY <1>2, <1>3, <1>5, <1>8 DEF TableSound, RowSound
<1>10. Grown(d, d2)
  BY <1>5 DEF Grown, Tables
<1> HIDE DEF C, d2
<1>11. Sound(d2, J \cup {e})
  BY <1>5, <1>9, <1>10, Changed
<1> QED BY <1>11 DEF d2, new

LEMMA PaymentsSound ==
  ASSUME NEW d, NEW J, NEW e, Sound(d, J), Present(d, e), Fresh(J, e)
  PROVE  /\ Sound(PaymentMethodsShown(d, e), J \cup {e})
         /\ Sound(PaymentMethodSelected(d, e), J \cup {e})
         /\ Sound(PaymentFailed(d, e), J \cup {e})
<1>0. ASSUME NEW M, NEW kind
      PROVE  Sound([d EXCEPT !.payments = @ \cup {Payment(e, m, kind) : m \in M}], J \cup {e})
  BY PaymentsAdded
<1>1. Sound(PaymentMethodsShown(d, e), J \cup {e})
  BY PaymentsAdded DEF PaymentMethodsShown
<1>2. \A kind : {Payment(e, e.method, kind)} = {Payment(e, m, kind) : m \in {e.method}}
  OBVIOUS
<1>3. Sound(PaymentMethodSelected(d, e), J \cup {e})
  <2>1. Sound([d EXCEPT !.payments = @ \cup {Payment(e, m, "selected") : m \in {e.method}}],
              J \cup {e})
    <3> DEFINE M == {e.method}
    <3> HIDE DEF M
    <3>1. Sound([d EXCEPT !.payments = @ \cup {Payment(e, m, "selected") : m \in M}], J \cup {e})
      BY <1>0
    <3> QED BY <3>1 DEF M
  <2> QED BY <1>2, <2>1 DEF PaymentMethodSelected
<1>4. Sound(PaymentFailed(d, e), J \cup {e})
  <2>1. Sound([d EXCEPT !.payments = @ \cup {Payment(e, m, "failed") : m \in {e.method}}],
              J \cup {e})
    <3> DEFINE M == {e.method}
    <3> HIDE DEF M
    <3>1. Sound([d EXCEPT !.payments = @ \cup {Payment(e, m, "failed") : m \in M}], J \cup {e})
      BY <1>0
    <3> QED BY <3>1 DEF M
  <2> QED BY <1>2, <2>1 DEF PaymentFailed
<1> QED BY <1>1, <1>3, <1>4

-----------------------------------------------------------------------------
(* Rows that change *)

\* r2 is r but for its touches.
Retouched(r, r2) ==
  /\ DOMAIN r2 = DOMAIN r
  /\ \A c \in DOMAIN r \ {"touch"} : r2[c] = r[c]

\* Columns that a handler overlays change if the event carries them.
LEMMA OverlaidRow ==
  ASSUME NEW r, NEW columns, NEW onlyEmpty
  PROVE  /\ DOMAIN OverlayRow(r, columns, onlyEmpty) = DOMAIN r
         /\ \A c \in DOMAIN r \ DOMAIN columns :
              OverlayRow(r, columns, onlyEmpty)[c] = r[c]
         /\ \A c \in DOMAIN r \cap DOMAIN columns :
              OverlayRow(r, columns, onlyEmpty)[c]
                = IF columns[c] = Null \/ (onlyEmpty /\ r[c] # Null) THEN r[c] ELSE columns[c]
BY DEF OverlayRow, Rule!Overlay

\* Snapshots change touches only.
LEMMA SnapshotRow ==
  ASSUME NEW d, NEW e, NEW r
  PROVE  Retouched(r, SnapshotIfMissing(d, e, r)) /\ Retouched(r, Snapshot(d, e, r))
BY DEF SnapshotIfMissing, Snapshot, Retouched

LEMMA StampedRow ==
  ASSUME NEW r, NEW e, NEW status, {"status", "version", "lastAt"} \subseteq DOMAIN r
  PROVE  /\ DOMAIN Stamp(r, e, status) = DOMAIN r
         /\ Stamp(r, e, status).status = status
         /\ Stamp(r, e, status).version = e.version
         /\ Stamp(r, e, status).lastAt = e.at
         /\ \A c \in DOMAIN r \ {"status", "version", "lastAt"} :
              Stamp(r, e, status)[c] = r[c]
BY DEF Stamp

\* The handlers of leads, sales and orders, column by column.
LEMMA CreatedLeadRow ==
  ASSUME NEW d, NEW e, NEW r, DOMAIN r = Columns("leads"), r.event = Null
  PROVE  /\ DOMAIN CreatedLead(d, e, r) = DOMAIN r
         /\ CreatedLead(d, e, r).id = r.id
         /\ CreatedLead(d, e, r).visitor \in {r.visitor, e.visitor}
         /\ CreatedLead(d, e, r).event = e.id /\ CreatedLead(d, e, r).at = e.at
         /\ CreatedLead(d, e, r).wonAt = r.wonAt /\ CreatedLead(d, e, r).lostAt = r.lostAt
         /\ IF Newer(r, e)
            THEN /\ CreatedLead(d, e, r).status = e.status
                 /\ CreatedLead(d, e, r).version = e.version
                 /\ CreatedLead(d, e, r).lastAt = e.at
            ELSE /\ CreatedLead(d, e, r).status = r.status
                 /\ CreatedLead(d, e, r).version = r.version
                 /\ CreatedLead(d, e, r).lastAt = r.lastAt
<1> DEFINE applies == Newer(r, e)
           base == [r EXCEPT !.event = e.id, !.at = e.at]
           row == OverlayRow(base, Entity(e), ~applies)
           final == IF applies THEN Stamp(row, e, e.status) ELSE row
<1>1. CreatedLead(d, e, r) = SnapshotIfMissing(d, e, final)
  BY DEF CreatedLead
<1>2. DOMAIN r = {"id", "event", "at", "status", "wonAt", "lostAt", "version", "lastAt",
                  "channel", "visitor", "customer", "shop", "market", "touch"}
  BY DEF Columns, LeadStub
<1>3. /\ DOMAIN base = DOMAIN r /\ base.event = e.id /\ base.at = e.at
      /\ \A c \in DOMAIN r \ {"event", "at"} : base[c] = r[c]
  BY <1>2
<1>4. /\ DOMAIN Entity(e) = {"visitor", "lead", "customer", "cart", "shop", "market",
                             "channel", "method", "currency"}
      /\ Entity(e).visitor = e.visitor
  BY DEF Entity
<1> HIDE DEF applies, base
<1>5. /\ DOMAIN row = DOMAIN r /\ row.event = e.id /\ row.id = r.id /\ row.at = e.at
      /\ row.visitor \in {r.visitor, e.visitor}
      /\ row.status = r.status /\ row.version = r.version /\ row.lastAt = r.lastAt
      /\ row.wonAt = r.wonAt /\ row.lostAt = r.lostAt
  BY <1>2, <1>3, <1>4, OverlaidRow
<1> HIDE DEF row
<1>6. /\ DOMAIN final = DOMAIN r /\ final.event = e.id /\ final.id = r.id
      /\ final.visitor \in {r.visitor, e.visitor} /\ final.at = e.at
      /\ final.wonAt = r.wonAt /\ final.lostAt = r.lostAt
      /\ IF applies
         THEN final.status = e.status /\ final.version = e.version /\ final.lastAt = e.at
         ELSE final.status = r.status /\ final.version = r.version /\ final.lastAt = r.lastAt
  BY <1>2, <1>5, StampedRow
<1> HIDE DEF final
<1> QED BY <1>1, <1>2, <1>6, SnapshotRow DEF Retouched, applies

LEMMA ChangedLeadRow ==
  ASSUME NEW e, NEW r, DOMAIN r = Columns("leads")
  PROVE  /\ DOMAIN ChangedLead(e, r) = DOMAIN r
         /\ ChangedLead(e, r).id = r.id /\ ChangedLead(e, r).event = r.event
         /\ ChangedLead(e, r).at = r.at
         /\ ChangedLead(e, r).visitor \in {r.visitor, e.visitor}
         /\ ChangedLead(e, r).status = e.status
         /\ ChangedLead(e, r).version = e.version /\ ChangedLead(e, r).lastAt = e.at
         /\ e.status = "won" => ChangedLead(e, r).wonAt = e.at
         /\ e.status = "lost" => ChangedLead(e, r).lostAt = e.at
<1> DEFINE place == [visitor |-> e.visitor, customer |-> e.customer,
                     shop |-> e.shop, market |-> e.market]
           row == OverlayRow(r, place, TRUE)
           stamped == Stamp(row, e, e.status)
<1>1. ChangedLead(e, r) = [stamped EXCEPT
                             !.wonAt = IF e.status = "won" THEN e.at ELSE @,
                             !.lostAt = IF e.status = "lost" THEN e.at ELSE @]
  BY DEF ChangedLead
<1>2. DOMAIN r = {"id", "event", "at", "status", "wonAt", "lostAt", "version", "lastAt",
                  "channel", "visitor", "customer", "shop", "market", "touch"}
  BY DEF Columns, LeadStub
<1>3. DOMAIN place = {"visitor", "customer", "shop", "market"} /\ place.visitor = e.visitor
  OBVIOUS
<1> HIDE DEF place
<1>4. /\ DOMAIN row = DOMAIN r /\ row.event = r.event /\ row.id = r.id /\ row.at = r.at
      /\ row.visitor \in {r.visitor, e.visitor}
  <2>1. /\ DOMAIN row = DOMAIN r
        /\ \A c \in DOMAIN r \ DOMAIN place : row[c] = r[c]
        /\ \A c \in DOMAIN r \cap DOMAIN place :
             row[c] = IF place[c] = Null \/ (TRUE /\ r[c] # Null)
                      THEN r[c] ELSE place[c]
    BY DEF OverlayRow, Rule!Overlay
  <2> HIDE DEF row
  <2> QED BY <1>2, <1>3, <2>1
<1> HIDE DEF row
<1>5. /\ DOMAIN stamped = DOMAIN r /\ stamped.event = r.event /\ stamped.id = r.id
      /\ stamped.at = r.at
      /\ stamped.visitor \in {r.visitor, e.visitor}
      /\ stamped.status = e.status /\ stamped.version = e.version /\ stamped.lastAt = e.at
  BY <1>2, <1>4, StampedRow
<1> HIDE DEF stamped
<1> QED BY <1>1, <1>2, <1>5

LEMMA CreatedSaleRow ==
  ASSUME NEW d, NEW e, NEW r, DOMAIN r = Columns("sales"), r.event = Null
  PROVE  /\ DOMAIN CreatedSale(d, e, r) = DOMAIN r
         /\ CreatedSale(d, e, r).id = r.id
         /\ CreatedSale(d, e, r).visitor \in {r.visitor, e.visitor}
         /\ CreatedSale(d, e, r).lead \in {r.lead, e.lead}
         /\ CreatedSale(d, e, r).event = e.id /\ CreatedSale(d, e, r).at = e.confirmedAt
         /\ CreatedSale(d, e, r).cancelled = r.cancelled
         /\ IF ~r.cancelled /\ Newer(r, e)
            THEN /\ CreatedSale(d, e, r).status = "confirmed"
                 /\ CreatedSale(d, e, r).version = e.version
                 /\ CreatedSale(d, e, r).lastAt = e.at
                 /\ e.amount # Null => CreatedSale(d, e, r).amount = e.amount
                 /\ e.currency # Null => CreatedSale(d, e, r).currency = e.currency
            ELSE /\ CreatedSale(d, e, r).status = r.status
                 /\ CreatedSale(d, e, r).version = r.version
                 /\ CreatedSale(d, e, r).lastAt = r.lastAt
                 /\ r.amount # Null => CreatedSale(d, e, r).amount = r.amount
                 /\ r.currency # Null => CreatedSale(d, e, r).currency = r.currency
                 /\ r.amount = Null => CreatedSale(d, e, r).amount = e.amount
                 /\ r.currency = Null => CreatedSale(d, e, r).currency = e.currency
<1> DEFINE applies == ~r.cancelled /\ Newer(r, e)
           base == [r EXCEPT !.event = e.id, !.at = e.confirmedAt]
           columns == Extend(Entity(e), [amount |-> e.amount])
           row == OverlayRow(base, columns, ~applies)
           final == IF applies THEN Stamp(row, e, "confirmed") ELSE row
<1>1. CreatedSale(d, e, r) = SnapshotIfMissing(d, e, final)
  BY DEF CreatedSale
<1>2. DOMAIN r = {"id", "event", "at", "status", "cancelled", "version", "lastAt", "amount",
                  "currency", "lead", "visitor", "customer", "shop", "market", "touch"}
  BY DEF Columns, SaleStub
<1>3. /\ DOMAIN base = DOMAIN r /\ base.event = e.id /\ base.at = e.confirmedAt
      /\ \A c \in DOMAIN r \ {"event", "at"} : base[c] = r[c]
  BY <1>2
<1>4. /\ DOMAIN columns = {"visitor", "lead", "customer", "cart", "shop", "market",
                           "channel", "method", "currency", "amount"}
      /\ columns.visitor = e.visitor /\ columns.lead = e.lead
      /\ columns.currency = e.currency /\ columns.amount = e.amount
  BY DEF Entity, Extend
<1> HIDE DEF applies, base, columns
<1>5. /\ DOMAIN row = DOMAIN r /\ row.event = e.id /\ row.id = r.id /\ row.at = e.confirmedAt
      /\ row.visitor \in {r.visitor, e.visitor} /\ row.lead \in {r.lead, e.lead}
      /\ row.status = r.status /\ row.version = r.version /\ row.lastAt = r.lastAt
      /\ row.cancelled = r.cancelled
      /\ IF applies
         THEN /\ e.amount # Null => row.amount = e.amount
              /\ e.currency # Null => row.currency = e.currency
         ELSE /\ r.amount # Null => row.amount = r.amount
              /\ r.currency # Null => row.currency = r.currency
              /\ r.amount = Null => row.amount = e.amount
              /\ r.currency = Null => row.currency = e.currency
  <2>1. /\ DOMAIN row = DOMAIN base
        /\ \A c \in DOMAIN base \ DOMAIN columns : row[c] = base[c]
        /\ \A c \in DOMAIN base \cap DOMAIN columns :
             row[c] = IF columns[c] = Null \/ (~applies /\ base[c] # Null)
                      THEN base[c] ELSE columns[c]
    BY DEF OverlayRow, Rule!Overlay
  <2> HIDE DEF row
  <2> QED BY <1>2, <1>3, <1>4, <2>1
<1> HIDE DEF row
<1>6. /\ DOMAIN final = DOMAIN r /\ final.event = e.id /\ final.id = r.id
      /\ final.at = e.confirmedAt
      /\ final.visitor \in {r.visitor, e.visitor} /\ final.lead \in {r.lead, e.lead}
      /\ final.cancelled = r.cancelled
      /\ final.amount = row.amount /\ final.currency = row.currency
      /\ IF applies
         THEN final.status = "confirmed" /\ final.version = e.version /\ final.lastAt = e.at
         ELSE final.status = r.status /\ final.version = r.version /\ final.lastAt = r.lastAt
  BY <1>2, <1>5, StampedRow
<1> HIDE DEF final
<1>7. Retouched(final, CreatedSale(d, e, r))
  BY <1>1, SnapshotRow
<1>8. \A c \in DOMAIN r \ {"touch"} : CreatedSale(d, e, r)[c] = final[c]
  BY <1>6, <1>7 DEF Retouched
<1>9. DOMAIN CreatedSale(d, e, r) = DOMAIN r
  BY <1>6, <1>7 DEF Retouched
<1> QED BY <1>2, <1>5, <1>6, <1>8, <1>9 DEF applies

LEMMA UpdatedSaleRow ==
  ASSUME NEW e, NEW r, DOMAIN r = Columns("sales")
  PROVE  /\ DOMAIN UpdatedSale(e, r) = DOMAIN r
         /\ UpdatedSale(e, r).id = r.id /\ UpdatedSale(e, r).event = r.event
         /\ UpdatedSale(e, r).at = r.at
         /\ UpdatedSale(e, r).visitor \in {r.visitor, e.visitor}
         /\ UpdatedSale(e, r).lead \in {r.lead, e.lead}
         /\ UpdatedSale(e, r).cancelled = r.cancelled
         /\ UpdatedSale(e, r).status = e.status
         /\ UpdatedSale(e, r).version = e.version /\ UpdatedSale(e, r).lastAt = e.at
         /\ UpdatedSale(e, r).amount = e.amount /\ UpdatedSale(e, r).currency = e.currency
<1> DEFINE base == [r EXCEPT !.amount = e.amount, !.currency = e.currency,
                             !.shop = e.shop, !.market = e.market]
           row == OverlayRow(base, Entity(e), FALSE)
<1>1. UpdatedSale(e, r) = Stamp(row, e, e.status)
  BY DEF UpdatedSale
<1>2. DOMAIN r = {"id", "event", "at", "status", "cancelled", "version", "lastAt", "amount",
                  "currency", "lead", "visitor", "customer", "shop", "market", "touch"}
  BY DEF Columns, SaleStub
<1>3. /\ DOMAIN base = DOMAIN r /\ base.amount = e.amount /\ base.currency = e.currency
      /\ \A c \in DOMAIN r \ {"amount", "currency", "shop", "market"} : base[c] = r[c]
  BY <1>2
<1>4. /\ DOMAIN Entity(e) = {"visitor", "lead", "customer", "cart", "shop", "market",
                             "channel", "method", "currency"}
      /\ Entity(e).visitor = e.visitor /\ Entity(e).lead = e.lead
      /\ Entity(e).currency = e.currency
  BY DEF Entity
<1> HIDE DEF base
<1>5. /\ DOMAIN row = DOMAIN r /\ row.event = r.event /\ row.id = r.id /\ row.at = r.at
      /\ row.visitor \in {r.visitor, e.visitor} /\ row.lead \in {r.lead, e.lead}
      /\ row.cancelled = r.cancelled
      /\ row.amount = e.amount /\ row.currency = e.currency
  <2>1. /\ DOMAIN row = DOMAIN base
        /\ \A c \in DOMAIN base \ DOMAIN Entity(e) : row[c] = base[c]
        /\ \A c \in DOMAIN base \cap DOMAIN Entity(e) :
             row[c] = IF Entity(e)[c] = Null \/ (FALSE /\ base[c] # Null)
                      THEN base[c] ELSE Entity(e)[c]
    BY DEF OverlayRow, Rule!Overlay
  <2> HIDE DEF row
  <2> QED BY <1>2, <1>3, <1>4, <2>1
<1> HIDE DEF row
<1> QED BY <1>1, <1>2, <1>5, StampedRow

LEMMA CancelledSaleRow ==
  ASSUME NEW e, NEW r, DOMAIN r = Columns("sales")
  PROVE  /\ DOMAIN CancelledSale(e, r) = DOMAIN r
         /\ CancelledSale(e, r).cancelled /\ CancelledSale(e, r).status = "cancelled"
         /\ CancelledSale(e, r).version = e.version /\ CancelledSale(e, r).lastAt = e.at
         /\ \A c \in DOMAIN r \ {"cancelled", "status", "version", "lastAt"} :
              CancelledSale(e, r)[c] = r[c]
<1>1. DOMAIN r = {"id", "event", "at", "status", "cancelled", "version", "lastAt", "amount",
                  "currency", "lead", "visitor", "customer", "shop", "market", "touch"}
  BY DEF Columns, SaleStub
<1> QED BY <1>1 DEF CancelledSale, Stamp

LEMMA OrderRow ==
  ASSUME NEW d, NEW e, NEW r, DOMAIN r = Columns("orders"), NEW n,
         n = CreatedOrder(d, e, r) \/ n = PaidOrder(d, e, r)
  PROVE  /\ DOMAIN n = DOMAIN r /\ n.id = r.id
         /\ n.visitor \in {r.visitor, e.visitor}
         /\ n.lead \in {r.lead, e.lead}
<1>1. DOMAIN r = {"id", "created", "createdAt", "paid", "paidAt", "amount", "currency",
                  "method", "lead", "visitor", "customer", "cart", "shop", "market", "touch"}
  BY DEF Columns, OrderStub
<1>2. ASSUME NEW columns, "id" \notin DOMAIN columns, {"visitor", "lead"} \subseteq DOMAIN columns,
             columns.visitor = e.visitor, columns.lead = e.lead,
             Retouched(OverlayRow(r, columns, FALSE), n)
      PROVE  /\ DOMAIN n = DOMAIN r /\ n.id = r.id
             /\ n.visitor \in {r.visitor, e.visitor}
             /\ n.lead \in {r.lead, e.lead}
  <2> DEFINE row == OverlayRow(r, columns, FALSE)
  <2>1. /\ DOMAIN row = DOMAIN r
        /\ \A c \in DOMAIN r \ DOMAIN columns : row[c] = r[c]
        /\ \A c \in DOMAIN r \cap DOMAIN columns :
             row[c] = IF columns[c] = Null THEN r[c] ELSE columns[c]
    BY DEF OverlayRow, Rule!Overlay
  <2>2. DOMAIN n = DOMAIN row /\ \A c \in DOMAIN row \ {"touch"} : n[c] = row[c]
    BY <1>2 DEF Retouched
  <2> HIDE DEF row
  <2> QED BY <1>1, <1>2, <2>1, <2>2
<1>3. CASE n = CreatedOrder(d, e, r)
  <2> DEFINE columns == Extend(Entity(e), [created |-> e.id, createdAt |-> e.at])
  <2>1. /\ "id" \notin DOMAIN columns /\ {"visitor", "lead"} \subseteq DOMAIN columns
        /\ columns.visitor = e.visitor /\ columns.lead = e.lead
    BY DEF Extend, Entity
  <2>2. Retouched(OverlayRow(r, columns, FALSE), n)
    BY <1>3, SnapshotRow DEF CreatedOrder
  <2> HIDE DEF columns
  <2> QED BY <1>2, <2>1, <2>2
<1>4. CASE n = PaidOrder(d, e, r)
  <2> DEFINE columns == Extend(Entity(e),
               [paid |-> e.id, paidAt |-> e.at, amount |-> e.amount,
                createdAt |-> IF r.createdAt = Null THEN e.at ELSE r.createdAt])
  <2>1. /\ "id" \notin DOMAIN columns /\ {"visitor", "lead"} \subseteq DOMAIN columns
        /\ columns.visitor = e.visitor /\ columns.lead = e.lead
    BY DEF Extend, Entity
  <2>2. Retouched(OverlayRow(r, columns, FALSE), n)
    BY <1>4, SnapshotRow DEF PaidOrder
  <2> HIDE DEF columns
  <2> QED BY <1>2, <2>1, <2>2
<1> QED BY <1>3, <1>4

-----------------------------------------------------------------------------
(* Handlers of rows that change *)

\* The row with an id is that row.
LEMMA RowThere ==
  ASSUME NEW rows, NEW i \in Ids(rows)
  PROVE  Row(rows, i) \in rows /\ Row(rows, i).id = i
BY DEF Ids, Row

\* One table changes, and loses no id.
LEMMA TableChanged ==
  ASSUME NEW d, NEW J, NEW J2, NEW t \in Tables, NEW rows,
         Sound(d, J), J \subseteq J2, TableSound(d, J2, t, rows),
         Ids(d[t]) \subseteq Ids(rows)
  PROVE  Sound([d EXCEPT ![t] = rows], J2) /\ Grown(d, [d EXCEPT ![t] = rows])
<1> DEFINE d2 == [d EXCEPT ![t] = rows]
           C == {t}
<1>1. /\ d2 = [u \in Tables |-> d2[u]] /\ d2[t] = rows
      /\ \A u \in Tables \ C : d2[u] = d[u]
  BY DEF Sound
<1>2. \A u \in C : TableSound(d, J2, u, d2[u])
  BY <1>1
<1>3. Grown(d, d2)
  BY <1>1 DEF Grown, Tables
<1> HIDE DEF C, d2
<1>4. Sound(d2, J2)
  BY <1>1, <1>2, <1>3, Changed
<1> QED BY <1>3, <1>4 DEF d2

\* A table stays sound as the journal grows.
LEMMA TablesOf ==
  ASSUME NEW d, NEW J, Sound(d, J), NEW J2, J \subseteq J2
  PROVE  \A t \in Tables : TableSound(d, J2, t, d[t])
BY DEF Sound, TableSound, RowSound

LEMMA LeadRow ==
  ASSUME NEW d, NEW J, NEW r, DOMAIN r = Columns("leads"),
         r.visitor \in Ids(d["visitors"]) \cup {Null}
  PROVE  RowSound(d, J, "leads", r)
BY DEF RowSound, Entities, Facts, OfVisitors

LEMMA LeadOf ==
  ASSUME NEW d, NEW J, NEW r, RowSound(d, J, "leads", r)
  PROVE  DOMAIN r = Columns("leads") /\ r.visitor \in Ids(d["visitors"]) \cup {Null}
BY DEF RowSound, Entities, OfVisitors

\* A handler that updates one table keeps all of them sound.
LEMMA RowsChanged ==
  ASSUME NEW d, NEW J, NEW J2, NEW t \in Entities, NEW F, NEW rows,
         Sound(d, J), J \subseteq J2, Takes(F, d[t], rows),
         \A r \in d[t] : RowSound(d, J2, t, r) =>
           F[r].id = r.id /\ RowSound(d, J2, t, F[r])
  PROVE  Sound([d EXCEPT ![t] = rows], J2) /\ Grown(d, [d EXCEPT ![t] = rows])
<1>1. t \in Tables
  BY DEF Tables, Entities
<1>2. TableSound(d, J2, t, d[t])
  BY <1>1, TablesOf
<1>3. TableSound(d, J2, t, rows) /\ Ids(rows) = Ids(d[t])
  BY <1>2, Imaged DEF TableSound
<1> QED BY <1>1, <1>3, TableChanged

LEMMA LeadCreatedSound ==
  ASSUME NEW d, NEW J, NEW e, Sound(d, J), Present(d, e)
  PROVE  Sound(LeadCreated(d, e), J \cup {e})
<1> DEFINE F == [r \in d["leads"] |-> IF r.id = e.lead THEN CreatedLead(d, e, r) ELSE r]
           rows == LeadCreated(d, e)["leads"]
<1>1. ASSUME NEW r \in d["leads"], RowSound(d, J \cup {e}, "leads", r)
      PROVE  F[r].id = r.id /\ RowSound(d, J \cup {e}, "leads", F[r])
  <2>1. CASE r.id # e.lead \/ r.event # Null
    BY <1>1, <2>1 DEF CreatedLead
  <2>2. CASE r.id = e.lead /\ r.event = Null
    <3>1. /\ F[r].id = r.id /\ DOMAIN F[r] = Columns("leads")
          /\ F[r].visitor \in {r.visitor, e.visitor}
      BY <1>1, <2>2, LeadOf, CreatedLeadRow
    <3> HIDE DEF F
    <3> QED BY <1>1, <3>1, LeadOf, LeadRow DEF Present
  <2> QED BY <2>1, <2>2
<1>2. LeadCreated(d, e) = [d EXCEPT !["leads"] = rows] /\ Takes(F, d["leads"], rows)
  BY DEF LeadCreated, Update, Takes, Sound, Tables
<1>3. "leads" \in Entities
  BY DEF Entities
<1> HIDE DEF F, rows
<1>4. Sound([d EXCEPT !["leads"] = rows], J \cup {e})
  BY <1>1, <1>2, <1>3, RowsChanged
<1> QED BY <1>2, <1>4

LEMMA LeadStatusChangedSound ==
  ASSUME NEW d, NEW J, NEW e, Sound(d, J), Present(d, e), Fresh(J, e), e.lead # Null
  PROVE  Sound(LeadStatusChanged(d, e), J \cup {e})
<1>1. CASE ~Newer(Row(d["leads"], e.lead), e)
  <2>1. LeadStatusChanged(d, e) = d
    BY <1>1 DEF LeadStatusChanged
  <2>2. \A t \in Tables : TableSound(d, J \cup {e}, t, d[t])
    BY TablesOf
  <2> QED BY <2>1, <2>2 DEF Sound
<1>2. CASE Newer(Row(d["leads"], e.lead), e)
  <2> DEFINE F == [r \in d["leads"] |-> IF r.id = e.lead THEN ChangedLead(e, r) ELSE r]
             rows == LeadStatusChanged(d, e)["leads"]
             d1 == [d EXCEPT !["leads"] = rows]
             row == [id |-> e.id, lead |-> e.lead, status |-> e.status, at |-> e.at]
  <2>1. ASSUME NEW r \in d["leads"], RowSound(d, J, "leads", r)
        PROVE  F[r].id = r.id /\ RowSound(d, J, "leads", F[r])
    <3>1. CASE r.id # e.lead
      BY <2>1, <3>1
    <3>2. CASE r.id = e.lead
      <4>1. /\ F[r].id = r.id /\ DOMAIN F[r] = Columns("leads")
            /\ F[r].visitor \in {r.visitor, e.visitor}
        BY <2>1, <3>2, LeadOf, ChangedLeadRow
      <4> HIDE DEF F
      <4> QED BY <2>1, <4>1, LeadOf, LeadRow DEF Present
    <3> QED BY <3>1, <3>2
  <2>2. Takes(F, d["leads"], rows)
    BY <1>2 DEF LeadStatusChanged, Update, Takes, Sound, Tables
  <2>3. LeadStatusChanged(d, e) = [d1 EXCEPT !["history"] = @ \cup {row}]
    BY <1>2 DEF LeadStatusChanged, Sound, Tables
  <2>4. "leads" \in Entities /\ "history" \in Facts \ {"payments"}
    BY DEF Entities, Facts
  <2> HIDE DEF F, rows
  <2>5. Sound(d1, J) /\ Grown(d, d1)
    BY <2>1, <2>2, <2>4, RowsChanged
  <2> HIDE DEF d1
  <2>6. row.id = e.id /\ RowSound(d1, J \cup {e}, "history", row)
    BY <2>5 DEF RowSound, Entities, Facts, OfVisitors, Present, Grown
  <2> HIDE DEF row
  <2>7. Sound([d1 EXCEPT !["history"] = @ \cup {row}], J \cup {e})
    BY <2>4, <2>5, <2>6, FactAdded
  <2> QED BY <2>3, <2>7
<1> QED BY <1>1, <1>2

LEMMA SaleRow ==
  ASSUME NEW d, NEW J, NEW r, DOMAIN r = Columns("sales"),
         r.visitor \in Ids(d["visitors"]) \cup {Null}, r.lead \in Ids(d["leads"]) \cup {Null}
  PROVE  RowSound(d, J, "sales", r)
BY DEF RowSound, Entities, Facts, OfVisitors

LEMMA SaleOf ==
  ASSUME NEW d, NEW J, NEW r, RowSound(d, J, "sales", r)
  PROVE  /\ DOMAIN r = Columns("sales")
         /\ r.visitor \in Ids(d["visitors"]) \cup {Null}
         /\ r.lead \in Ids(d["leads"]) \cup {Null}
BY DEF RowSound, Entities, OfVisitors

\* The handlers of a manual sale change its row, or nothing.
LEMMA SalesSound ==
  ASSUME NEW d, NEW J, NEW e, Sound(d, J), Present(d, e)
  PROVE  /\ Sound(SaleCreated(d, e), J \cup {e})
         /\ Sound(SaleUpdated(d, e), J \cup {e})
         /\ Sound(SaleCancelled(d, e), J \cup {e})
<1>0. "sales" \in Entities /\ "sales" \in Tables
  BY DEF Entities, Tables
<1>s. Sound(d, J \cup {e})
  BY TablesOf DEF Sound
<1>1. ASSUME NEW F, NEW rows, Takes(F, d["sales"], rows),
             \A r \in d["sales"] : DOMAIN r = Columns("sales") =>
               \/ F[r] = r
               \/ /\ F[r].id = r.id /\ DOMAIN F[r] = Columns("sales")
                  /\ F[r].visitor \in {r.visitor, e.visitor} /\ F[r].lead \in {r.lead, e.lead}
      PROVE  Sound([d EXCEPT !["sales"] = rows], J \cup {e})
  <2>1. ASSUME NEW r \in d["sales"], RowSound(d, J \cup {e}, "sales", r)
        PROVE  F[r].id = r.id /\ RowSound(d, J \cup {e}, "sales", F[r])
    BY <1>1, <2>1, SaleOf, SaleRow DEF Present
  <2> QED BY <1>0, <1>1, <2>1, RowsChanged
<1>2. Sound(SaleCreated(d, e), J \cup {e})
  <2> DEFINE F == [r \in d["sales"] |-> IF r.id = e.sale THEN CreatedSale(d, e, r) ELSE r]
             rows == SaleCreated(d, e)["sales"]
  <2>1. ASSUME NEW r \in d["sales"], DOMAIN r = Columns("sales")
        PROVE  \/ F[r] = r
               \/ /\ F[r].id = r.id /\ DOMAIN F[r] = Columns("sales")
                  /\ F[r].visitor \in {r.visitor, e.visitor} /\ F[r].lead \in {r.lead, e.lead}
    <3>1. CASE r.id # e.sale \/ r.event # Null
      BY <3>1 DEF CreatedSale
    <3>2. CASE r.id = e.sale /\ r.event = Null
      BY <2>1, <3>2, CreatedSaleRow
    <3> QED BY <3>1, <3>2
  <2>2. SaleCreated(d, e) = [d EXCEPT !["sales"] = rows] /\ Takes(F, d["sales"], rows)
    BY DEF SaleCreated, Update, Takes, Sound, Tables
  <2> HIDE DEF F, rows
  <2>3. Sound([d EXCEPT !["sales"] = rows], J \cup {e})
    BY <1>1, <2>1, <2>2
  <2> QED BY <2>2, <2>3
<1>3. Sound(SaleUpdated(d, e), J \cup {e})
  <2>1. CASE ~Newer(Row(d["sales"], e.sale), e)
    BY <1>s, <2>1 DEF SaleUpdated
  <2>2. CASE Newer(Row(d["sales"], e.sale), e)
    <3> DEFINE F == [r \in d["sales"] |-> IF r.id = e.sale THEN UpdatedSale(e, r) ELSE r]
               rows == SaleUpdated(d, e)["sales"]
    <3>1. ASSUME NEW r \in d["sales"], DOMAIN r = Columns("sales")
          PROVE  \/ F[r] = r
                 \/ /\ F[r].id = r.id /\ DOMAIN F[r] = Columns("sales")
                    /\ F[r].visitor \in {r.visitor, e.visitor} /\ F[r].lead \in {r.lead, e.lead}
      BY <3>1, UpdatedSaleRow
    <3>2. SaleUpdated(d, e) = [d EXCEPT !["sales"] = rows] /\ Takes(F, d["sales"], rows)
      BY <2>2 DEF SaleUpdated, Update, Takes, Sound, Tables
    <3> HIDE DEF F, rows
    <3>3. Sound([d EXCEPT !["sales"] = rows], J \cup {e})
      BY <1>1, <3>1, <3>2
    <3> QED BY <3>2, <3>3
  <2> QED BY <2>1, <2>2
<1>4. Sound(SaleCancelled(d, e), J \cup {e})
  <2>1. CASE ~Newer(Row(d["sales"], e.sale), e)
    BY <1>s, <2>1 DEF SaleCancelled
  <2>2. CASE Newer(Row(d["sales"], e.sale), e)
    <3> DEFINE F == [r \in d["sales"] |-> IF r.id = e.sale THEN CancelledSale(e, r) ELSE r]
               rows == SaleCancelled(d, e)["sales"]
    <3>1. ASSUME NEW r \in d["sales"], DOMAIN r = Columns("sales")
          PROVE  \/ F[r] = r
                 \/ /\ F[r].id = r.id /\ DOMAIN F[r] = Columns("sales")
                    /\ F[r].visitor \in {r.visitor, e.visitor} /\ F[r].lead \in {r.lead, e.lead}
      <4>1. {"id", "visitor", "lead"} \subseteq DOMAIN r
        BY <3>1 DEF Columns, SaleStub
      <4> QED BY <3>1, <4>1, CancelledSaleRow
    <3>2. SaleCancelled(d, e) = [d EXCEPT !["sales"] = rows] /\ Takes(F, d["sales"], rows)
      BY <2>2 DEF SaleCancelled, Update, Takes, Sound, Tables
    <3> HIDE DEF F, rows
    <3>3. Sound([d EXCEPT !["sales"] = rows], J \cup {e})
      BY <1>1, <3>1, <3>2
    <3> QED BY <3>2, <3>3
  <2> QED BY <2>1, <2>2
<1> QED BY <1>2, <1>3, <1>4

\* What refreshes do to a table: new touches in some of its rows.
Refresh(rows, new) ==
  \E F : Takes(F, rows, new) /\ \A r \in rows : Retouched(r, F[r])

LEMMA RefreshSound ==
  ASSUME NEW d, NEW J, NEW t \in {"leads", "orders", "sales"}, NEW rows, NEW new,
         Refresh(rows, new), TableSound(d, J, t, rows)
  PROVE  TableSound(d, J, t, new) /\ Ids(new) = Ids(rows)
<1>1. PICK F : Takes(F, rows, new) /\ \A r \in rows : Retouched(r, F[r])
  BY DEF Refresh
<1>2. t \in Entities
  BY DEF Entities
<1>3. {"id", "visitor"} \subseteq Columns(t) /\ (t # "leads" => "lead" \in Columns(t))
  BY DEF Columns, LeadStub, OrderStub, SaleStub
<1>4. ASSUME NEW r \in rows
      PROVE  F[r].id = r.id /\ RowSound(d, J, t, F[r])
  <2>1. RowSound(d, J, t, r)
    BY DEF TableSound
  <2>2. /\ DOMAIN F[r] = DOMAIN r /\ DOMAIN r = Columns(t)
        /\ \A c \in DOMAIN r \ {"touch"} : F[r][c] = r[c]
    BY <1>1, <1>2, <2>1 DEF Retouched, RowSound
  <2>3. F[r].id = r.id /\ F[r].visitor = r.visitor /\ (t # "leads" => F[r].lead = r.lead)
    BY <1>3, <2>2
  <2> QED BY <2>1, <2>2, <2>3 DEF RowSound, Facts
<1> QED BY <1>1, <1>2, <1>4, Imaged

\* A session may touch every dependent of its visitor (service.py:43).
LEMMA SessionTables ==
  ASSUME NEW d, NEW e, d = [t \in Tables |-> d[t]]
  PROVE  /\ SessionStarted(d, e) = [t \in Tables |-> SessionStarted(d, e)[t]]
         /\ \A t \in Tables \ {"sessions", "visitors", "leads", "orders", "sales"} :
              SessionStarted(d, e)[t] = d[t]
         /\ Refresh(d["leads"], SessionStarted(d, e)["leads"])
         /\ Refresh(d["orders"], SessionStarted(d, e)["orders"])
         /\ Refresh(d["sales"], SessionStarted(d, e)["sales"])
<1> DEFINE t == [at |-> e.at, source |-> ClassifySource(e, ReferralExclusionHosts),
                 campaign |-> e.campaign]
           touches == ApplyTouch(Row(d["visitors"], e.visitor).touch, t)
           Dated == [r \in d["leads"] |->
              IF r.visitor = e.visitor /\ \E x \in {r.at} \ {Null} : x >= t.at
              THEN [r EXCEPT !.touch = KnownAt(@, touches, t, r.at)] ELSE r]
           Ordered == [r \in d["orders"] |->
              IF r.visitor = e.visitor /\ \E x \in {r.createdAt, r.paidAt} \ {Null} : x >= t.at
              THEN [r EXCEPT !.touch = KnownAt(@, touches, t,
                      IF r.paid # Null THEN r.paidAt ELSE r.createdAt)] ELSE r]
           Sold == [r \in d["sales"] |->
              IF r.visitor = e.visitor /\ \E x \in {r.at} \ {Null} : x >= t.at
              THEN [r EXCEPT !.touch = KnownAt(@, touches, t, r.at)] ELSE r]
<1>1. /\ SessionStarted(d, e) = [u \in Tables |-> SessionStarted(d, e)[u]]
      /\ \A u \in Tables \ {"sessions", "visitors", "leads", "orders", "sales"} :
           SessionStarted(d, e)[u] = d[u]
  BY DEF SessionStarted
<1>2. Takes(Dated, d["leads"], SessionStarted(d, e)["leads"])
  BY DEF SessionStarted, Refreshed, Takes, Tables
<1>3. Takes(Ordered, d["orders"], SessionStarted(d, e)["orders"])
  BY DEF SessionStarted, Refreshed, Takes, Tables
<1>4. Takes(Sold, d["sales"], SessionStarted(d, e)["sales"])
  BY DEF SessionStarted, Refreshed, Takes, Tables
<1> HIDE DEF t, touches
<1>5. /\ \A r \in d["leads"] : Retouched(r, Dated[r])
      /\ \A r \in d["orders"] : Retouched(r, Ordered[r])
      /\ \A r \in d["sales"] : Retouched(r, Sold[r])
  BY DEF Retouched
<1> HIDE DEF Dated, Ordered, Sold
<1> QED BY <1>1, <1>2, <1>3, <1>4, <1>5 DEF Refresh

LEMMA SessionStartedSound ==
  ASSUME NEW d, NEW J, NEW e, Sound(d, J), Present(d, e)
  PROVE  Sound(SessionStarted(d, e), J \cup {e})
<1> DEFINE d2 == SessionStarted(d, e)
           C == {"sessions", "visitors", "leads", "orders", "sales"}
           source == ClassifySource(e, ReferralExclusionHosts)
           t == [at |-> e.at, source |-> source, campaign |-> e.campaign]
           touches == ApplyTouch(Row(d["visitors"], e.visitor).touch, t)
           Held == [s \in d["sessions"] |-> IF s.id = e.session
                      THEN Extend(Extend(s, Place(e)), [event |-> e.id, source |-> source]) ELSE s]
           Seen == [v \in d["visitors"] |-> IF v.id = e.visitor
                      THEN [v EXCEPT !.stub = FALSE,
                              !.firstSeen = IF @ = Null \/ e.at < @ THEN e.at ELSE @,
                              !.touch = touches] ELSE v]
<1>1. \A u \in Tables : TableSound(d, J \cup {e}, u, d[u])
  BY TablesOf
<1>2. C \subseteq Tables /\ "sessions" \in Entities /\ "visitors" \in Entities
  BY DEF Tables, Entities
<1>3. d = [u \in Tables |-> d[u]]
  BY DEF Sound
<1>4. Takes(Held, d["sessions"], d2["sessions"])
  BY <1>3 DEF SessionStarted, Update, Takes, Tables
<1>5. Takes(Seen, d["visitors"], d2["visitors"])
  <2> DEFINE first(v) == IF v.firstSeen = Null \/ e.at < v.firstSeen THEN e.at ELSE v.firstSeen
             seen(v) == [v EXCEPT !.stub = FALSE, !.firstSeen = first(v), !.touch = touches]
  <2>1. d2["visitors"] = {IF v.id = e.visitor THEN seen(v) ELSE v : v \in d["visitors"]}
    BY <1>3 DEF SessionStarted, Update, Tables
  <2>2. Seen = [v \in d["visitors"] |-> IF v.id = e.visitor THEN seen(v) ELSE v]
    OBVIOUS
  <2> HIDE DEF seen, Seen, d2
  <2> QED BY <2>1, <2>2 DEF Takes
<1>6. /\ d2 = [u \in Tables |-> d2[u]] /\ \A u \in Tables \ C : d2[u] = d[u]
      /\ Refresh(d["leads"], d2["leads"]) /\ Refresh(d["orders"], d2["orders"])
      /\ Refresh(d["sales"], d2["sales"])
  BY <1>3, SessionTables
<1>7. ASSUME NEW s \in d["sessions"], RowSound(d, J \cup {e}, "sessions", s)
      PROVE  Held[s].id = s.id /\ RowSound(d, J \cup {e}, "sessions", Held[s])
  <2> DEFINE s2 == Extend(Extend(s, Place(e)), [event |-> e.id, source |-> source])
  <2>1. DOMAIN s = {"id", "visitor", "event", "at", "shop", "market", "source"}
    BY <1>2, <1>7 DEF RowSound, Columns, SessionStub
  <2>2. DOMAIN s2 = DOMAIN s /\ s2.id = s.id /\ s2.visitor = e.visitor
    BY <2>1 DEF Extend, Place
  <2> HIDE DEF s2, source
  <2>3. RowSound(d, J \cup {e}, "sessions", s2)
    BY <1>2, <1>7, <2>2 DEF RowSound, Facts, Present
  <2> QED BY <1>7, <2>2, <2>3 DEF s2, Held
<1>8. ASSUME NEW v \in d["visitors"], RowSound(d, J \cup {e}, "visitors", v)
      PROVE  Seen[v].id = v.id /\ RowSound(d, J \cup {e}, "visitors", Seen[v])
  <2> DEFINE first == IF v.firstSeen = Null \/ e.at < v.firstSeen THEN e.at ELSE v.firstSeen
             v2 == [v EXCEPT !.stub = FALSE, !.firstSeen = first, !.touch = touches]
  <2>1. DOMAIN v = {"id", "stub", "firstSeen", "touch"}
    BY <1>2, <1>8 DEF RowSound, Columns, VisitorStub
  <2>2. Seen[v] = IF v.id = e.visitor THEN v2 ELSE v
    OBVIOUS
  <2> HIDE DEF touches, first, Seen
  <2>3. v2.id = v.id /\ DOMAIN v2 = DOMAIN v
    BY <2>1
  <2> HIDE DEF v2
  <2>4. Seen[v].id = v.id /\ DOMAIN Seen[v] = DOMAIN v
    BY <2>2, <2>3
  <2> QED BY <1>8, <2>4 DEF RowSound, Facts, OfVisitors
<1> HIDE DEF d2, Held, Seen, source, t, touches
<1>9. TableSound(d, J \cup {e}, "sessions", d2["sessions"])
  <2>1. TableSound(d, J \cup {e}, "sessions", d["sessions"])
    BY <1>1, <1>2
  <2>2. \A s \in d["sessions"] : RowSound(d, J \cup {e}, "sessions", s)
    BY <2>1 DEF TableSound
  <2>3. \A s \in d["sessions"] : Held[s].id = s.id /\ RowSound(d, J \cup {e}, "sessions", Held[s])
    BY <2>2, <1>7
  <2> QED BY <1>2, <1>4, <2>1, <2>3, Imaged
<1>10. /\ TableSound(d, J \cup {e}, "visitors", d2["visitors"])
       /\ Ids(d2["visitors"]) = Ids(d["visitors"])
  <2>1. TableSound(d, J \cup {e}, "visitors", d["visitors"])
    BY <1>1, <1>2
  <2>2. \A v \in d["visitors"] : RowSound(d, J \cup {e}, "visitors", v)
    BY <2>1 DEF TableSound
  <2>3. \A v \in d["visitors"] : Seen[v].id = v.id /\ RowSound(d, J \cup {e}, "visitors", Seen[v])
    BY <2>2, <1>8
  <2>4. "visitors" \in Entities
    BY <1>2
  <2> DEFINE rows == d["visitors"]
             new == d2["visitors"]
             K == J \cup {e}
  <2>5. /\ Takes(Seen, rows, new) /\ TableSound(d, K, "visitors", rows)
        /\ \A v \in rows : Seen[v].id = v.id /\ RowSound(d, K, "visitors", Seen[v])
    BY <1>5, <2>1, <2>3
  <2> HIDE DEF rows, new, K
  <2>6. TableSound(d, K, "visitors", new) /\ Ids(new) = Ids(rows)
    BY <2>4, <2>5, Imaged
  <2> QED BY <2>6 DEF rows, new, K
<1>11. /\ TableSound(d, J \cup {e}, "leads", d2["leads"]) /\ Ids(d2["leads"]) = Ids(d["leads"])
       /\ TableSound(d, J \cup {e}, "orders", d2["orders"]) /\ Ids(d2["orders"]) = Ids(d["orders"])
       /\ TableSound(d, J \cup {e}, "sales", d2["sales"])
  <2>1. ASSUME NEW u \in {"leads", "orders", "sales"}
        PROVE  TableSound(d, J \cup {e}, u, d2[u]) /\ Ids(d2[u]) = Ids(d[u])
    BY <1>1, <1>2, <1>6, RefreshSound
  <2> QED BY <2>1
<1>12. \A u \in C : TableSound(d, J \cup {e}, u, d2[u])
  BY <1>9, <1>10, <1>11
<1>13. Grown(d, d2)
  <2>1. d2["refunds"] = d["refunds"]
    BY <1>6 DEF Tables
  <2> QED BY <1>10, <1>11, <2>1 DEF Grown
<1> HIDE DEF C
<1>14. Sound(d2, J \cup {e})
  BY <1>6, <1>12, <1>13, Changed
<1> QED BY <1>14 DEF d2

\* What the handlers of orders do to the tables: n is the order's row, its lines
\* are e's.
LEMMA OrderPlacedSound ==
  ASSUME NEW d, NEW J, NEW e, NEW n, NEW isPaid, Sound(d, J), Present(d, e), e.order # Null,
         n.id = e.order, RowSound(d, J \cup {e}, "orders", n)
  PROVE  Sound([WithOrder(d, n) EXCEPT !.lines = Lines(d, e, isPaid)], J \cup {e})
<1> DEFINE d2 == [WithOrder(d, n) EXCEPT !.lines = Lines(d, e, isPaid)]
           C == {"orders", "refunds", "lines"}
           K == J \cup {e}
           Order == [r \in d["orders"] |-> IF r.id = n.id THEN n ELSE r]
           invalid(r) == r.currency # n.currency
           Valid == [r \in d["refunds"] |->
                       IF n.currency # Null /\ r.order = n.id
                       THEN [r EXCEPT !.invalid = invalid(r)] ELSE r]
<1>1. /\ \A u \in Tables : TableSound(d, K, u, d[u])
      /\ C \subseteq Tables /\ "orders" \in Entities /\ "refunds" \in Entities
      /\ d = [u \in Tables |-> d[u]]
  BY TablesOf DEF Tables, Entities, Sound
<1>2. /\ d2 = [u \in Tables |-> d2[u]] /\ \A u \in Tables \ C : d2[u] = d[u]
      /\ d2["lines"] = Lines(d, e, isPaid)
      /\ d2["refunds"] = Synced(d, n)
      /\ d2["orders"] = Update(d["orders"], n.id, LAMBDA r : n)
  BY <1>1 DEF WithOrder, Tables
<1>3. TableSound(d, K, "orders", d2["orders"]) /\ Ids(d2["orders"]) = Ids(d["orders"])
  <2> DEFINE rows == d["orders"]
             new == d2["orders"]
  <2>1. Takes(Order, rows, new)
    BY <1>2 DEF Takes, Update
  <2>2. TableSound(d, K, "orders", rows)
    BY <1>1
  <2>3. \A r \in rows : Order[r].id = r.id /\ RowSound(d, K, "orders", Order[r])
    BY <2>2 DEF TableSound
  <2> HIDE DEF rows, new, Order, K
  <2>4. TableSound(d, K, "orders", new) /\ Ids(new) = Ids(rows)
    BY <1>1, <2>1, <2>2, <2>3, Imaged
  <2> QED BY <2>4 DEF rows, new
<1>4. TableSound(d, K, "refunds", d2["refunds"]) /\ Ids(d2["refunds"]) = Ids(d["refunds"])
  <2> DEFINE rows == d["refunds"]
             new == d2["refunds"]
  <2>1. Takes(Valid, rows, new)
    <3>1. CASE n.currency = Null
      BY <1>2, <3>1 DEF Takes, Synced
    <3>2. CASE n.currency # Null
      <4>1. new = {IF r.order = n.id THEN [r EXCEPT !.invalid = invalid(r)] ELSE r :
                     r \in d["refunds"]}
        BY <1>2, <3>2, Zenon DEF Synced
      <4> HIDE DEF new, invalid
      <4> QED BY <3>2, <4>1 DEF Takes
    <3> QED BY <3>1, <3>2
  <2>2. TableSound(d, K, "refunds", rows)
    BY <1>1
  <2>3. ASSUME NEW r \in rows PROVE Valid[r].id = r.id /\ RowSound(d, K, "refunds", Valid[r])
    <3>1. RowSound(d, K, "refunds", r)
      BY <2>2, <2>3 DEF TableSound
    <3>2. DOMAIN r = {"id", "order", "at", "amount", "currency", "method", "shop", "invalid"}
      BY <1>1, <3>1 DEF RowSound, Columns
    <3>3. Valid[r].id = r.id /\ Valid[r].order = r.order /\ DOMAIN Valid[r] = DOMAIN r
      <4> HIDE DEF invalid
      <4> QED BY <2>3, <3>2
    <3> HIDE DEF Valid
    <3> QED BY <3>1, <3>3 DEF RowSound, Facts, OfVisitors
  <2> HIDE DEF rows, new, Valid, K
  <2>4. TableSound(d, K, "refunds", new) /\ Ids(new) = Ids(rows)
    BY <1>1, <2>1, <2>2, <2>3, Imaged
  <2> QED BY <2>4 DEF rows, new
<1>5. TableSound(d, K, "lines", d2["lines"])
  <2>1. e.order \in Ids(d["orders"])
    BY DEF Present
  <2>2. \A l \in d["lines"] : l.order \in Ids(d["orders"])
    BY <1>1 DEF TableSound, RowSound
  <2>3. \A l : Extend(l, [order |-> e.order, paid |-> isPaid]).order = e.order
    BY DEF Extend
  <2>4. \A l \in d2["lines"] : l.order \in Ids(d["orders"])
    BY <1>2, <2>1, <2>2, <2>3 DEF Lines
  <2> QED BY <2>4 DEF TableSound, RowSound, Entities, Facts, OfVisitors
<1> HIDE DEF d2, Order, Valid, K
<1>6. \A u \in C : TableSound(d, K, u, d2[u])
  BY <1>3, <1>4, <1>5
<1>7. Grown(d, d2)
  BY <1>2, <1>3, <1>4 DEF Grown, Tables
<1> HIDE DEF C
<1>8. Sound(d2, K)
  BY <1>2, <1>6, <1>7, Changed DEF K
<1> QED BY <1>8 DEF d2, K

LEMMA OrdersSound ==
  ASSUME NEW d, NEW J, NEW e, Sound(d, J), Present(d, e), e.order # Null
  PROVE  /\ Sound(OrderCreated(d, e), J \cup {e})
         /\ Sound(OrderPaid(d, e), J \cup {e})
<1> DEFINE r == Row(d["orders"], e.order)
<1>1. Sound(d, J \cup {e})
  BY TablesOf DEF Sound
<1>2. r \in d["orders"] /\ r.id = e.order
  BY RowThere DEF Present
<1>3. /\ DOMAIN r = Columns("orders")
      /\ r.visitor \in Ids(d["visitors"]) \cup {Null} /\ r.lead \in Ids(d["leads"]) \cup {Null}
  BY <1>2 DEF Sound, TableSound, RowSound, Tables, Entities, OfVisitors
<1> HIDE DEF r
<1>4. ASSUME NEW n, n = CreatedOrder(d, e, r) \/ n = PaidOrder(d, e, r)
      PROVE  n.id = e.order /\ RowSound(d, J \cup {e}, "orders", n)
  <2>1. /\ DOMAIN n = Columns("orders") /\ n.id = e.order
        /\ n.visitor \in {r.visitor, e.visitor} /\ n.lead \in {r.lead, e.lead}
    BY <1>2, <1>3, <1>4, OrderRow
  <2> QED BY <1>3, <2>1 DEF RowSound, Facts, Present
<1>5. Sound(OrderCreated(d, e), J \cup {e})
  <2> DEFINE n == CreatedOrder(d, e, r)
  <2>1. n.id = e.order /\ RowSound(d, J \cup {e}, "orders", n)
    BY <1>4
  <2> HIDE DEF n
  <2>2. Sound([WithOrder(d, n) EXCEPT !.lines = Lines(d, e, FALSE)], J \cup {e})
    <3> DEFINE isPaid == FALSE
    <3> HIDE DEF isPaid
    <3>1. Sound([WithOrder(d, n) EXCEPT !.lines = Lines(d, e, isPaid)], J \cup {e})
      BY <2>1, OrderPlacedSound
    <3> QED BY <3>1 DEF isPaid
  <2> QED BY <1>1, <2>2 DEF OrderCreated, n, r
<1>6. Sound(OrderPaid(d, e), J \cup {e})
  <2> DEFINE n == PaidOrder(d, e, r)
  <2>1. n.id = e.order /\ RowSound(d, J \cup {e}, "orders", n)
    BY <1>4
  <2> HIDE DEF n
  <2>2. Sound([WithOrder(d, n) EXCEPT !.lines = Lines(d, e, TRUE)], J \cup {e})
    <3> DEFINE isPaid == TRUE
    <3> HIDE DEF isPaid
    <3>1. Sound([WithOrder(d, n) EXCEPT !.lines = Lines(d, e, isPaid)], J \cup {e})
      BY <2>1, OrderPlacedSound
    <3> QED BY <3>1 DEF isPaid
  <2> QED BY <1>1, <2>2 DEF OrderPaid, n, r
<1> QED BY <1>5, <1>6

LEMMA RefundSound ==
  ASSUME NEW d, NEW J, NEW e, Sound(d, J), Present(d, e), e.order # Null,
         e.refund \notin Ids(d["refunds"])
  PROVE  Sound(RefundCreated(d, e), J \cup {e})
<1> DEFINE row == [id |-> e.refund, order |-> e.order, at |-> e.refundedAt, amount |-> e.amount,
                   currency |-> e.currency, method |-> e.method, shop |-> e.shop,
                   invalid |-> FALSE]
           refunds == d["refunds"] \cup {row}
           d1 == [d EXCEPT !["refunds"] = refunds]
           lines == d["refundLines"] \cup {Extend(l, [refund |-> e.refund]) : l \in e.items}
           K == J \cup {e}
<1>1. /\ Sound(d, K) /\ \A u \in Tables : TableSound(d, K, u, d[u])
      /\ "refunds" \in Tables /\ "refundLines" \in Tables
  BY TablesOf DEF Tables, Sound
<1>2. RefundCreated(d, e) = [d1 EXCEPT !["refundLines"] = lines]
  BY DEF RefundCreated, Sound, Tables
<1>3. TableSound(d, K, "refunds", refunds) /\ Ids(d["refunds"]) \subseteq Ids(refunds)
      /\ e.refund \in Ids(refunds)
  <2>1. RowSound(d, K, "refunds", row) /\ row.id = e.refund
    BY DEF RowSound, Entities, Facts, OfVisitors, Columns, Present
  <2>2. TableSound(d, K, "refunds", d["refunds"])
    BY <1>1
  <2> HIDE DEF row
  <2> QED BY <2>1, <2>2 DEF TableSound, KeysUnique, Key, Ids
<1>4. /\ d1["refunds"] = refunds /\ d1["refundLines"] = d["refundLines"]
  BY <1>1 DEF Sound
<1> HIDE DEF refunds, d1, K
<1>5. Sound(d1, K)
  <2>1. K \subseteq K
    OBVIOUS
  <2> QED BY <1>1, <1>3, <2>1, TableChanged DEF d1
<1>6. TableSound(d1, K, "refundLines", lines) /\ Ids(d1["refundLines"]) \subseteq Ids(lines)
  <2>1. \A l \in d1["refundLines"] : l.refund \in Ids(d1["refunds"])
    BY <1>5, <1>1 DEF Sound, TableSound, RowSound
  <2>2. \A l : Extend(l, [refund |-> e.refund]).refund = e.refund
    BY DEF Extend
  <2>3. \A l \in lines : l.refund \in Ids(d1["refunds"])
    BY <1>3, <1>4, <2>1, <2>2
  <2>4. Ids(d1["refundLines"]) \subseteq Ids(lines)
    BY <1>4 DEF Ids
  <2> HIDE DEF lines
  <2> QED BY <2>3, <2>4 DEF TableSound, RowSound, Entities, Facts, OfVisitors
<1> HIDE DEF lines
<1>7. Sound([d1 EXCEPT !["refundLines"] = lines], K)
  <2>1. K \subseteq K
    OBVIOUS
  <2> QED BY <1>1, <1>5, <1>6, <2>1, TableChanged
<1> QED BY <1>2, <1>7 DEF K

-----------------------------------------------------------------------------
(* The invariant *)

LEMMA DispatchSound ==
  ASSUME NEW d, NEW J, NEW e, Sound(d, J), Present(d, e), Fresh(J, e), Complete(e),
         e.type = "refund_created" => e.refund \notin Ids(d["refunds"])
  PROVE  Sound(Dispatch(d, e), J \cup {e})
<1>1. CASE e.type = "session_started"
  BY <1>1, SessionStartedSound DEF Dispatch
<1>2. CASE e.type \in {"product_viewed", "add_to_cart", "checkout_started", "contact_intent"}
  BY <1>2, WebFacts DEF Dispatch
<1>3. CASE e.type \in {"contact_received", "customer_linked"}
  BY <1>3, ContactSound, LinkSound DEF Dispatch
<1>4. CASE e.type \in {"payment_methods_shown", "payment_method_selected", "payment_failed"}
  BY <1>4, PaymentsSound DEF Dispatch
<1>5. CASE e.type \in LeadChange
  BY <1>5, LeadCreatedSound, LeadStatusChangedSound DEF Dispatch, LeadChange, Complete
<1>6. CASE e.type \in {"order_created", "order_paid"}
  BY <1>6, OrdersSound DEF Dispatch, Complete, OrderEvents
<1>7. CASE e.type \in SaleChange
  BY <1>7, SalesSound DEF Dispatch, SaleChange
<1>8. CASE e.type = "refund_created"
  BY <1>8, RefundSound DEF Dispatch, Complete, OrderEvents
<1> QED BY <1>1, <1>2, <1>3, <1>4, <1>5, <1>6, <1>7, <1>8 DEF Complete, Handled

\* What is stored and what is yet to come are of one history, and the tables are
\* as the events stored have made them.
Inv ==
  /\ \E H \in Histories : journal \cup pending \subseteq H
  /\ journal \cap pending = {}
  /\ Sound(db, journal)

LEMMA InitInv == Init => Inv
BY DEF Init, DataInit, Inv, Sound, TableSound, KeysUnique

LEMMA IngestInv ==
  ASSUME Inv, NEW e, Ingest(e)
  PROVE  Inv'
<1> DEFINE d == EnsureStubs(db, e)
<1>1. PICK H \in Histories : journal \cup pending \subseteq H
  BY DEF Inv
<1>2. e \in pending /\ e \in H /\ e \notin journal
  BY <1>1 DEF Inv, Ingest
<1>3. Complete(e) /\ Fresh(journal, e)
  BY <1>1, <1>2, HistoriesAssumption DEF Fresh
<1>4. Sound(d, journal) /\ Present(d, e)
  BY StubsSound DEF Inv
<1>5. e.type = "refund_created" => e.refund \notin Ids(d["refunds"])
  <2>1. d["refunds"] = db["refunds"]
    BY StubTables DEF Inv, Sound, Tables
  <2> QED BY <2>1 DEF Ingest, Refused, Ids
<1> HIDE DEF d
<1>6. Sound(Dispatch(d, e), journal \cup {e})
  BY <1>3, <1>4, <1>5, DispatchSound
<1>7. Sound(db', journal')
  BY <1>6 DEF Ingest, d
<1>8. /\ \E G \in Histories : journal' \cup pending' \subseteq G
      /\ journal' \cap pending' = {}
  BY <1>1, <1>2 DEF Ingest, Inv
<1> QED BY <1>7, <1>8 DEF Inv

LEMMA StepInv == Inv /\ [Next]_vars => Inv'
<1> SUFFICES ASSUME Inv, [Next]_vars PROVE Inv'
  OBVIOUS
<1>1. CASE \E e \in pending : Arrive(e)
  BY <1>1, IngestInv DEF Arrive
<1>2. CASE \E e \in pending : Reject(e)
  BY <1>2 DEF Reject, Refuse, Inv
<1>3. CASE UNCHANGED dataVars
  BY <1>3 DEF Inv, dataVars
<1> QED
  BY <1>1, <1>2, <1>3 DEF Next, Request, RunStatement, Answer, vars

LEMMA SoundTyped == Inv => TypeOK
<1> SUFFICES ASSUME Inv PROVE TypeOK
  OBVIOUS
<1>1. DOMAIN db = Tables /\ \A t \in Tables : TableSound(db, journal, t, db[t])
  BY DEF Inv, Sound
<1>2. ASSUME NEW t \in Tables \ {"lines", "refundLines", "payments", "links"}
      PROVE  \A r, s \in db[t] : r.id = s.id => r = s
  BY <1>1 DEF TableSound, KeysUnique, Key
<1>3. \A p, q \in db["payments"] : p.id = q.id /\ p.method = q.method => p = q
  BY <1>1 DEF TableSound, KeysUnique, Key, Tables
<1>4. ASSUME NEW t \in OfVisitors, NEW r \in db[t], r.visitor # Null
      PROVE  \E v \in db["visitors"] : v.id = r.visitor
  BY <1>1, <1>4 DEF TableSound, RowSound, OfVisitors, Tables, Ids
<1>5. ASSUME NEW t \in {"orders", "sales", "contacts"}, NEW r \in db[t], r.lead # Null
      PROVE  \E l \in db["leads"] : l.id = r.lead
  BY <1>1, <1>5 DEF TableSound, RowSound, Tables, Ids
<1>6. \A h \in db["history"] : \E l \in db["leads"] : l.id = h.lead
  BY <1>1 DEF TableSound, RowSound, Tables, Ids
<1>7. ASSUME NEW t \in {"refunds", "lines"}, NEW r \in db[t]
      PROVE  \E o \in db["orders"] : o.id = r.order
  BY <1>1 DEF TableSound, RowSound, Tables, Ids
<1>8. \A l \in db["refundLines"] : \E r \in db["refunds"] : r.id = l.refund
  BY <1>1 DEF TableSound, RowSound, Tables, Ids
<1> QED BY <1>1, <1>2, <1>3, <1>4, <1>5, <1>6, <1>7, <1>8 DEF TypeOK, OfVisitors

\* Whatever events of whatever history arrive, in whatever order, keys stay unique
\* and every row that names a visitor, lead, order or refund finds it
\* (stubs.py:21, models/facts.py, models/entities.py).
THEOREM TypeCorrect == Spec => []TypeOK
<1>1. Spec => []Inv
  BY InitInv, StepInv, PTL DEF Spec
<1> QED BY <1>1, SoundTyped, PTL

-----------------------------------------------------------------------------
(* The last change of a lead and of a sale *)

\* m is the last of E.
LastOf(m, E) == m \in E /\ \A o \in E \ {m} : Later(m, o)

\* What CHOOSE finds is the last, where changes have one order.
LEMMA LatestIsLast ==
  ASSUME NEW E, OneOrder(E), NEW m, LastOf(m, E)
  PROVE  Latest(E) = m
<1>1. ASSUME NEW e \in E, \A o \in E \ {e} : Later(e, o)
      PROVE  e = m
  <2> SUFFICES ASSUME e # m PROVE FALSE
    OBVIOUS
  <2>1. Later(e, m) /\ Later(m, e)
    BY <1>1 DEF LastOf
  <2> QED BY <2>1, HistoriesAssumption DEF Later, OneOrder, LastOf
<1> QED BY <1>1 DEF Latest, LastOf

\* One more change: it is the last now, or the last stays.
LEMMA LastAdded ==
  ASSUME NEW E, NEW e, e \notin E, OneOrder(E \cup {e}), NEW m, LastOf(m, E)
  PROVE  IF Later(e, m) THEN LastOf(e, E \cup {e})
                        ELSE LastOf(m, E \cup {e})
<1>1. m \in E /\ m # e /\ (Later(e, m) \/ Later(m, e))
  BY DEF LastOf, OneOrder
<1>2. CASE Later(e, m)
  <2>1. ASSUME NEW o \in E, o # m PROVE Later(e, o)
    <3>1. Later(m, o) /\ e.at \in Nat /\ m.at \in Nat /\ o.at \in Nat
      BY <1>1, <2>1 DEF LastOf, OneOrder
    <3>2. {e.version, m.version, o.version} \subseteq Nat \cup {Null}
      BY <1>1, <2>1 DEF OneOrder
    <3> QED BY <1>2, <3>1, <3>2, HistoriesAssumption DEF Later
  <2> QED BY <1>2, <2>1 DEF LastOf
<1>3. CASE ~Later(e, m)
  BY <1>1, <1>3 DEF LastOf
<1> QED BY <1>2, <1>3

\* r was changed by m last.
Stamped(r, m) == r.version = m.version /\ r.lastAt = m.at

\* Of a row that no change has reached, and of one that m has changed.
LEMMA NewerThanLast ==
  ASSUME NEW r, NEW e
  PROVE  /\ r.version = Null /\ r.lastAt = Null => Newer(r, e)
         /\ \A E, m : /\ OneOrder(E) /\ m \in E /\ e \in E /\ m # e
                      /\ Stamped(r, m)
                      => (Newer(r, e) <=> Later(e, m))
<1>1. r.version = Null /\ r.lastAt = Null => Newer(r, e)
  BY DEF Newer, Rule!ShouldApply
<1>2. ASSUME NEW E, NEW m, OneOrder(E), m \in E, e \in E, m # e, Stamped(r, m)
      PROVE  Newer(r, e) <=> Later(e, m)
  <2>1. /\ e.at \in Nat /\ m.at \in Nat /\ {e.version, m.version} \subseteq Nat \cup {Null}
        /\ Later(e, m) \/ Later(m, e)
    BY <1>2 DEF OneOrder
  <2>2. Newer(r, e) <=> Rule!ShouldApply(m.version, e.version, m.at, e.at, TRUE, FALSE)
    BY <1>2 DEF Newer, Stamped
  <2>3. CASE e.version = Null
    BY <2>1, <2>2, <2>3, HistoriesAssumption DEF Rule!ShouldApply, Later
  <2>4. CASE e.version # Null
    BY <2>1, <2>2, <2>4, HistoriesAssumption DEF Rule!ShouldApply, Later
  <2> QED BY <2>3, <2>4
<1> QED BY <1>1, <1>2

LeadsInOrder(E) ==
  /\ OneOrder(E)
  /\ \A e, f \in E : e.type = "lead_created" =>
       e.status = "new" /\ (f.type = "lead_created" => f = e)

SalesInOrder(E) ==
  /\ OneOrder(E) /\ \A e \in E : e.type \in SaleChange
  /\ \A e \in E : e.type = "manual_sale_created" =>
       /\ e.status = "confirmed" /\ e.amount # Null /\ e.currency # Null
       /\ \A f \in E : f.type = "manual_sale_created" => f = e
  /\ \A e \in E : e.type = "manual_sale_updated" => e.amount # Null /\ e.currency # Null
  /\ \A e, f \in E : e.type = "manual_sale_cancelled" => f = e \/ Later(e, f)

\* What has arrived of a history has one order, as the history has.
LEMMA ChangesInOrder ==
  ASSUME Coherent, NEW H \in Histories, NEW i, NEW J, J \subseteq H
  PROVE  LeadsInOrder(LeadChanges(J, i)) /\ SalesInOrder(SaleChanges(J, i))
<1>1. LeadsInOrder(LeadChanges(J, i))
  <2>1. CASE LeadChanges(J, i) = {}
    BY <2>1 DEF LeadsInOrder, OneOrder
  <2>2. CASE LeadChanges(J, i) # {}
    <3>1. i \in {e.lead : e \in H} /\ LeadChanges(J, i) \subseteq LeadChanges(H, i)
      BY <2>2 DEF LeadChanges
    <3> QED BY <3>1 DEF Coherent, LeadsInOrder, OneOrder
  <2> QED BY <2>1, <2>2
<1>2. SalesInOrder(SaleChanges(J, i))
  <2>1. CASE SaleChanges(J, i) = {}
    BY <2>1 DEF SalesInOrder, OneOrder
  <2>2. CASE SaleChanges(J, i) # {}
    <3>1. i \in {e.sale : e \in H} /\ SaleChanges(J, i) \subseteq SaleChanges(H, i)
      BY <2>2 DEF SaleChanges
    <3>2. OneOrder(SaleChanges(H, i)) /\
          \A e, f \in SaleChanges(H, i) :
            CASE e.type = "manual_sale_created" ->
                   /\ e.status = "confirmed" /\ e.amount # Null /\ e.currency # Null
                   /\ f.type = "manual_sale_created" => f = e
              [] e.type = "manual_sale_updated" -> e.amount # Null /\ e.currency # Null
              [] OTHER -> f = e \/ Later(e, f)
      BY <3>1 DEF Coherent
    <3>3. \A e \in SaleChanges(J, i) : e.type \in SaleChange
      BY DEF SaleChanges
    <3> QED BY <3>1, <3>2, <3>3 DEF SalesInOrder, OneOrder
  <2> QED BY <2>1, <2>2
<1> QED BY <1>1, <1>2

\* A lead's row r is as the last of its changes E left it.
LeadStood(r, E, history) ==
  /\ r.event # Null => \E e \in E : e.type = "lead_created"
  /\ E = {} => r.version = Null /\ r.lastAt = Null
  /\ E # {} => \E m \in E :
       /\ LastOf(m, E) /\ Stamped(r, m)
       /\ r.status = m.status
       /\ m.status = "won" => r.wonAt = m.at
       /\ m.status = "lost" => r.lostAt = m.at
       /\ m.type = "lead_status_changed" => \E h \in history : h.id = m.id

SaleStood(r, E) ==
  /\ r.event # Null => \E e \in E : e.type = "manual_sale_created"
  /\ E = {} => r.version = Null /\ r.lastAt = Null /\ ~r.cancelled
  /\ E # {} => \E m \in E :
       /\ LastOf(m, E) /\ Stamped(r, m)
       /\ IF m.type = "manual_sale_cancelled"
          THEN r.cancelled /\ r.status = "cancelled"
          ELSE /\ ~r.cancelled /\ r.status = m.status
               /\ r.amount = m.amount /\ r.currency = m.currency

\* A creation or a change that arrives now leaves the lead as the last of all
\* changes that have arrived says, itself included.
LEMMA CreatedLeadStands ==
  ASSUME NEW d, NEW e, NEW r, NEW E, NEW history,
         DOMAIN r = Columns("leads"), LeadStood(r, E, history),
         LeadsInOrder(E \cup {e}), e \notin E, e.type = "lead_created"
  PROVE  LeadStood(CreatedLead(d, e, r), E \cup {e}, history)
<1> DEFINE n == CreatedLead(d, e, r)
<1>1. r.event = Null
  BY DEF LeadStood, LeadsInOrder
<1>2. /\ n.wonAt = r.wonAt /\ n.lostAt = r.lostAt
      /\ IF Newer(r, e) THEN n.status = e.status /\ Stamped(n, e)
         ELSE n.status = r.status /\ n.version = r.version /\ n.lastAt = r.lastAt
  BY <1>1, CreatedLeadRow DEF Stamped
<1> HIDE DEF n
<1>3. e.status = "new" /\ OneOrder(E \cup {e})
  BY DEF LeadsInOrder
<1>4. CASE E = {}
  <2>1. n.status = e.status /\ Stamped(n, e)
    BY <1>2, <1>4, NewerThanLast DEF LeadStood
  <2>2. LastOf(e, E \cup {e})
    BY <1>4 DEF LastOf
  <2> QED BY <1>3, <2>1, <2>2 DEF LeadStood, n
<1>5. CASE E # {}
  <2>1. PICK m \in E :
          /\ LastOf(m, E) /\ Stamped(r, m)
          /\ r.status = m.status
          /\ m.status = "won" => r.wonAt = m.at
          /\ m.status = "lost" => r.lostAt = m.at
          /\ m.type = "lead_status_changed" => \E h \in history : h.id = m.id
    BY <1>5 DEF LeadStood
  <2>2. Newer(r, e) <=> Later(e, m)
    BY <1>3, <2>1, NewerThanLast
  <2>3. IF Later(e, m) THEN LastOf(e, E \cup {e}) ELSE LastOf(m, E \cup {e})
    BY <1>3, <2>1, LastAdded
  <2>4. CASE Later(e, m)
    BY <1>2, <1>3, <2>2, <2>3, <2>4 DEF LeadStood, n
  <2>5. CASE ~Later(e, m)
    <3>1. Stamped(n, m) /\ n.status = m.status
      BY <1>2, <2>1, <2>2, <2>5 DEF Stamped
    <3> QED BY <1>2, <2>1, <2>3, <2>5, <3>1 DEF LeadStood, n
  <2> QED BY <2>4, <2>5
<1> QED BY <1>4, <1>5

LEMMA ChangedLeadStands ==
  ASSUME NEW e, NEW r, NEW E, NEW history, NEW longer,
         DOMAIN r = Columns("leads"), LeadStood(r, E, history),
         LeadsInOrder(E \cup {e}), e \notin E, e.type = "lead_status_changed",
         history \subseteq longer, \E h \in longer : h.id = e.id
  PROVE  /\ Newer(r, e) => LeadStood(ChangedLead(e, r), E \cup {e}, longer)
         /\ ~Newer(r, e) => LeadStood(r, E \cup {e}, history)
<1> DEFINE n == ChangedLead(e, r)
<1>1. /\ n.event = r.event /\ n.status = e.status /\ Stamped(n, e)
      /\ e.status = "won" => n.wonAt = e.at
      /\ e.status = "lost" => n.lostAt = e.at
  BY ChangedLeadRow DEF Stamped
<1> HIDE DEF n
<1>2. OneOrder(E \cup {e})
  BY DEF LeadsInOrder
<1>3. r.event # Null => \E f \in E \cup {e} : f.type = "lead_created"
  BY DEF LeadStood
<1>4. LastOf(e, E \cup {e}) => LeadStood(n, E \cup {e}, longer)
  BY <1>1, <1>3 DEF LeadStood
<1>5. CASE E = {}
  <2>1. LastOf(e, E \cup {e})
    BY <1>5 DEF LastOf
  <2>2. Newer(r, e)
    BY <1>5, NewerThanLast DEF LeadStood
  <2> QED BY <1>4, <2>1, <2>2 DEF n
<1>6. CASE E # {}
  <2>1. PICK m \in E :
          /\ LastOf(m, E) /\ Stamped(r, m)
          /\ r.status = m.status
          /\ m.status = "won" => r.wonAt = m.at
          /\ m.status = "lost" => r.lostAt = m.at
          /\ m.type = "lead_status_changed" => \E h \in history : h.id = m.id
    BY <1>6 DEF LeadStood
  <2>2. Newer(r, e) <=> Later(e, m)
    BY <1>2, <2>1, NewerThanLast
  <2>3. IF Later(e, m) THEN LastOf(e, E \cup {e}) ELSE LastOf(m, E \cup {e})
    BY <1>2, <2>1, LastAdded
  <2>4. ~Newer(r, e) => LeadStood(r, E \cup {e}, history)
    BY <1>3, <2>1, <2>2, <2>3 DEF LeadStood
  <2> QED BY <1>4, <2>2, <2>3, <2>4 DEF n
<1> QED BY <1>5, <1>6

\* e is after every change of E: the row becomes n.
LEMMA LaterSaleStands ==
  ASSUME NEW r, NEW n, NEW e, NEW E, SaleStood(r, E), LastOf(e, E \cup {e}), Stamped(n, e),
         n.event = r.event \/ e.type = "manual_sale_created",
         IF e.type = "manual_sale_cancelled"
         THEN n.cancelled /\ n.status = "cancelled"
         ELSE /\ ~n.cancelled /\ n.status = e.status
              /\ n.amount = e.amount /\ n.currency = e.currency
  PROVE  SaleStood(n, E \cup {e})
<1>1. n.event # Null => \E f \in E \cup {e} : f.type = "manual_sale_created"
  BY DEF SaleStood
<1> QED BY <1>1 DEF SaleStood

\* The creation of a sale, before or after the changes that have arrived.
LEMMA CreatedSaleStands ==
  ASSUME NEW d, NEW e, NEW r, NEW E,
         DOMAIN r = Columns("sales"), SaleStood(r, E),
         SalesInOrder(E \cup {e}), e \notin E, e.type = "manual_sale_created"
  PROVE  SaleStood(CreatedSale(d, e, r), E \cup {e})
<1> DEFINE n == CreatedSale(d, e, r)
<1>1. r.event = Null
  BY DEF SaleStood, SalesInOrder
<1>2. /\ n.cancelled = r.cancelled
      /\ IF ~r.cancelled /\ Newer(r, e)
         THEN /\ n.status = "confirmed" /\ Stamped(n, e)
              /\ e.amount # Null => n.amount = e.amount
              /\ e.currency # Null => n.currency = e.currency
         ELSE /\ n.status = r.status /\ n.version = r.version /\ n.lastAt = r.lastAt
              /\ r.amount # Null => n.amount = r.amount
              /\ r.currency # Null => n.currency = r.currency
  BY <1>1, CreatedSaleRow DEF Stamped
<1> HIDE DEF n
<1>3. /\ e.status = "confirmed" /\ e.amount # Null /\ e.currency # Null
      /\ OneOrder(E \cup {e})
  BY DEF SalesInOrder
<1>4. ~r.cancelled /\ Newer(r, e) /\ LastOf(e, E \cup {e}) => SaleStood(n, E \cup {e})
  BY <1>2, <1>3, LaterSaleStands
<1>5. CASE E = {}
  <2>1. LastOf(e, E \cup {e})
    BY <1>5 DEF LastOf
  <2>2. ~r.cancelled /\ Newer(r, e)
    BY <1>5, NewerThanLast DEF SaleStood
  <2> QED BY <1>4, <2>1, <2>2 DEF n
<1>6. CASE E # {}
  <2>1. PICK m \in E :
          /\ LastOf(m, E) /\ Stamped(r, m)
          /\ IF m.type = "manual_sale_cancelled"
             THEN r.cancelled /\ r.status = "cancelled"
             ELSE /\ ~r.cancelled /\ r.status = m.status
                  /\ r.amount = m.amount /\ r.currency = m.currency
    BY <1>6 DEF SaleStood
  <2>2. Newer(r, e) <=> Later(e, m)
    BY <1>3, <2>1, NewerThanLast
  <2>3. IF Later(e, m) THEN LastOf(e, E \cup {e}) ELSE LastOf(m, E \cup {e})
    BY <1>3, <2>1, LastAdded
  <2>4. CASE m.type = "manual_sale_cancelled"
    <3>1. Later(m, e)
      BY <2>4 DEF SalesInOrder
    <3>2. ~Later(e, m)
      BY <1>3, <2>1, <3>1, HistoriesAssumption DEF Later, OneOrder
    <3>3. Stamped(n, m) /\ n.cancelled /\ n.status = "cancelled"
      BY <1>2, <2>1, <2>4 DEF Stamped
    <3> QED BY <2>3, <2>4, <3>2, <3>3 DEF SaleStood, n
  <2>5. CASE m.type # "manual_sale_cancelled" /\ Later(e, m)
    BY <1>4, <2>1, <2>2, <2>3, <2>5 DEF n
  <2>6. CASE m.type # "manual_sale_cancelled" /\ ~Later(e, m)
    <3>1. m.amount # Null /\ m.currency # Null
      BY <2>6 DEF SalesInOrder, SaleChange
    <3>2. Stamped(n, m) /\ n.status = m.status /\ ~n.cancelled
      BY <1>2, <2>1, <2>2, <2>6 DEF Stamped
    <3> QED BY <1>2, <2>1, <2>2, <2>3, <2>6, <3>1, <3>2 DEF SaleStood, n
  <2> QED BY <2>4, <2>5, <2>6
<1> QED BY <1>5, <1>6

\* The two that may follow: an update, or the cancellation.
LEMMA ChangedSaleStands ==
  ASSUME NEW e, NEW r, NEW E, NEW n, DOMAIN r = Columns("sales"), SaleStood(r, E),
         SalesInOrder(E \cup {e}), e \notin E,
         \/ e.type = "manual_sale_updated" /\ n = UpdatedSale(e, r)
         \/ e.type = "manual_sale_cancelled" /\ n = CancelledSale(e, r)
  PROVE  /\ Newer(r, e) => SaleStood(n, E \cup {e})
         /\ ~Newer(r, e) => SaleStood(r, E \cup {e})
<1>1. OneOrder(E \cup {e})
  BY DEF SalesInOrder
<1>2. /\ n.event = r.event /\ Stamped(n, e)
      /\ IF e.type = "manual_sale_cancelled"
         THEN n.cancelled /\ n.status = "cancelled"
         ELSE /\ n.cancelled = r.cancelled /\ n.status = e.status
              /\ n.amount = e.amount /\ n.currency = e.currency
  <2>1. CASE e.type = "manual_sale_updated"
    BY <2>1, UpdatedSaleRow DEF Stamped
  <2>2. CASE e.type = "manual_sale_cancelled"
    <3>1. "event" \in DOMAIN r
      BY DEF Columns, SaleStub
    <3> QED BY <2>2, <3>1, CancelledSaleRow DEF Stamped
  <2> QED BY <2>1, <2>2
<1>3. LastOf(e, E \cup {e}) /\ ~r.cancelled => SaleStood(n, E \cup {e})
  BY <1>2, LaterSaleStands
<1>4. CASE E = {}
  <2>1. LastOf(e, E \cup {e})
    BY <1>4 DEF LastOf
  <2>2. Newer(r, e) /\ ~r.cancelled
    BY <1>4, NewerThanLast DEF SaleStood
  <2> QED BY <1>3, <2>1, <2>2
<1>5. CASE E # {}
  <2>1. PICK m \in E :
          /\ LastOf(m, E) /\ Stamped(r, m)
          /\ IF m.type = "manual_sale_cancelled"
             THEN r.cancelled /\ r.status = "cancelled"
             ELSE /\ ~r.cancelled /\ r.status = m.status
                  /\ r.amount = m.amount /\ r.currency = m.currency
    BY <1>5 DEF SaleStood
  <2>2. Newer(r, e) <=> Later(e, m)
    BY <1>1, <2>1, NewerThanLast
  <2>3. IF Later(e, m) THEN LastOf(e, E \cup {e}) ELSE LastOf(m, E \cup {e})
    BY <1>1, <2>1, LastAdded
  <2>4. m.type = "manual_sale_cancelled" => ~Later(e, m)
    <3>1. m.type = "manual_sale_cancelled" => Later(m, e)
      BY DEF SalesInOrder
    <3> QED BY <1>1, <3>1, HistoriesAssumption DEF Later, OneOrder
  <2>5. Newer(r, e) => SaleStood(n, E \cup {e})
    BY <1>3, <2>1, <2>2, <2>3, <2>4
  <2>6. r.event # Null => \E f \in E \cup {e} : f.type = "manual_sale_created"
    BY DEF SaleStood
  <2>7. ~Newer(r, e) => SaleStood(r, E \cup {e})
    BY <2>1, <2>2, <2>3, <2>6 DEF SaleStood
  <2> QED BY <2>5, <2>7
<1> QED BY <1>4, <1>5

\* The rows that changes name are there, as the last change left them.
LeadsStand(d, J) ==
  /\ \A e \in J : e.type \in LeadChange => e.lead \in Ids(d["leads"])
  /\ \A l \in d["leads"] : LeadStood(l, LeadChanges(J, l.id), d["history"])

SalesStand(d, J) ==
  /\ \A e \in J : e.type \in SaleChange => e.sale \in Ids(d["sales"])
  /\ \A s \in d["sales"] : SaleStood(s, SaleChanges(J, s.id))

\* A stub is a row that no change has reached.
LEMMA StubsStand ==
  ASSUME NEW d, NEW J, NEW e, Sound(d, J), LeadsStand(d, J), SalesStand(d, J)
  PROVE  LeadsStand(EnsureStubs(d, e), J) /\ SalesStand(EnsureStubs(d, e), J)
<1> DEFINE d2 == EnsureStubs(d, e)
<1>1. /\ d2["leads"] = InsertStub(d["leads"], e.lead, LeadStub(e.lead))
      /\ d2["sales"] = InsertStub(d["sales"], e.sale, SaleStub(e.sale))
      /\ d2["history"] = d["history"]
  BY StubTables DEF Sound, Tables
<1> HIDE DEF d2
<1>2. LeadStub(e.lead).id = e.lead /\ LeadStood(LeadStub(e.lead), {}, d["history"])
  BY DEF LeadStub, LeadStood
<1>3. SaleStub(e.sale).id = e.sale /\ SaleStood(SaleStub(e.sale), {})
  BY DEF SaleStub, SaleStood
<1>4. e.lead \notin Ids(d["leads"]) => LeadChanges(J, e.lead) = {}
  BY DEF LeadsStand, LeadChanges
<1>5. e.sale \notin Ids(d["sales"]) => SaleChanges(J, e.sale) = {}
  BY DEF SalesStand, SaleChanges
<1>6. LeadsStand(d2, J)
  <2>1. /\ Ids(d["leads"]) \subseteq Ids(d2["leads"])
        /\ \A l \in d2["leads"] : l \notin d["leads"] =>
             e.lead \notin Ids(d["leads"]) /\ l = LeadStub(e.lead)
    BY <1>1, <1>2 DEF InsertStub, InsertNew, Ids
  <2> QED BY <1>1, <1>2, <1>4, <2>1 DEF LeadsStand
<1>7. SalesStand(d2, J)
  <2>1. /\ Ids(d["sales"]) \subseteq Ids(d2["sales"])
        /\ \A s \in d2["sales"] : s \notin d["sales"] =>
             e.sale \notin Ids(d["sales"]) /\ s = SaleStub(e.sale)
    BY <1>1, <1>3 DEF InsertStub, InsertNew, Ids
  <2> QED BY <1>1, <1>3, <1>5, <2>1 DEF SalesStand
<1> QED BY <1>6, <1>7 DEF d2

LEMMA RefreshSame == ASSUME NEW rows PROVE Refresh(rows, rows)
<1> DEFINE F == [r \in rows |-> r]
<1>1. Takes(F, rows, rows) /\ \A r \in rows : Retouched(r, F[r])
  BY DEF Takes, Retouched
<1> HIDE DEF F
<1> QED BY <1>1 DEF Refresh

\* Only a session touches leads and sales of which it is no change.
LEMMA OthersKeepLeads ==
  ASSUME NEW d, NEW e, d = [t \in Tables |-> d[t]], Complete(e), e.type \notin LeadChange
  PROVE  /\ Refresh(d["leads"], Dispatch(d, e)["leads"])
         /\ Dispatch(d, e)["history"] = d["history"]
<1>1. CASE e.type = "session_started"
  BY <1>1, SessionTables DEF Dispatch, Tables
<1>2. CASE e.type # "session_started"
  <2>0. SUFFICES Dispatch(d, e)["leads"] = d["leads"] /\ Dispatch(d, e)["history"] = d["history"]
    BY RefreshSame
  <2>1. CASE e.type \in {"product_viewed", "add_to_cart", "checkout_started", "contact_intent"}
    BY <2>1 DEF Dispatch, Tables, ProductViewed, AddToCart, CheckoutStarted, ContactIntent
  <2>2. CASE e.type \in {"contact_received", "customer_linked"}
    BY <2>2 DEF Dispatch, Tables, ContactReceived, CustomerLinked
  <2>3. CASE e.type \in {"payment_methods_shown", "payment_method_selected", "payment_failed"}
    BY <2>3 DEF Dispatch, Tables, PaymentMethodsShown, PaymentMethodSelected, PaymentFailed
  <2>4. CASE e.type \in {"order_created", "order_paid"}
    BY <2>4 DEF Dispatch, Tables, OrderCreated, OrderPaid, WithOrder
  <2>5. CASE e.type \in SaleChange
    BY <2>5 DEF SaleChange, Dispatch, Tables, SaleCreated, SaleUpdated, SaleCancelled
  <2>6. CASE e.type = "refund_created"
    BY <2>6 DEF Dispatch, Tables, RefundCreated
  <2> QED BY <1>2, <2>1, <2>2, <2>3, <2>4, <2>5, <2>6 DEF Complete, Handled
<1> QED BY <1>1, <1>2

LEMMA OthersKeepSales ==
  ASSUME NEW d, NEW e, d = [t \in Tables |-> d[t]], Complete(e), e.type \notin SaleChange
  PROVE  Refresh(d["sales"], Dispatch(d, e)["sales"])
<1>1. CASE e.type = "session_started"
  BY <1>1, SessionTables DEF Dispatch, Tables
<1>2. CASE e.type # "session_started"
  <2>0. SUFFICES Dispatch(d, e)["sales"] = d["sales"]
    BY RefreshSame
  <2>1. CASE e.type \in {"product_viewed", "add_to_cart", "checkout_started", "contact_intent"}
    BY <2>1 DEF Dispatch, Tables, ProductViewed, AddToCart, CheckoutStarted, ContactIntent
  <2>2. CASE e.type \in {"contact_received", "customer_linked"}
    BY <2>2 DEF Dispatch, Tables, ContactReceived, CustomerLinked
  <2>3. CASE e.type \in {"payment_methods_shown", "payment_method_selected", "payment_failed"}
    BY <2>3 DEF Dispatch, Tables, PaymentMethodsShown, PaymentMethodSelected, PaymentFailed
  <2>4. CASE e.type \in {"order_created", "order_paid"}
    BY <2>4 DEF Dispatch, Tables, OrderCreated, OrderPaid, WithOrder
  <2>5. CASE e.type \in LeadChange
    BY <2>5 DEF LeadChange, Dispatch, Tables, LeadCreated, LeadStatusChanged
  <2>6. CASE e.type = "refund_created"
    BY <2>6 DEF Dispatch, Tables, RefundCreated
  <2> QED BY <1>2, <2>1, <2>2, <2>3, <2>4, <2>5, <2>6 DEF Complete, Handled
<1> QED BY <1>1, <1>2

\* A row that is as before but for its touches stands as before.
LEMMA RetouchedStands ==
  ASSUME NEW r, NEW n, Retouched(r, n), NEW E, NEW history
  PROVE  /\ DOMAIN r = Columns("leads") /\ LeadStood(r, E, history) => LeadStood(n, E, history)
         /\ DOMAIN r = Columns("sales") /\ SaleStood(r, E) => SaleStood(n, E)
<1>1. ASSUME DOMAIN r = Columns("leads"), LeadStood(r, E, history)
      PROVE  LeadStood(n, E, history)
  <2>1. {"event", "version", "lastAt", "status", "wonAt", "lostAt"} \subseteq DOMAIN r \ {"touch"}
    BY <1>1 DEF Columns, LeadStub
  <2>2. /\ n.event = r.event /\ n.version = r.version /\ n.lastAt = r.lastAt
        /\ n.status = r.status /\ n.wonAt = r.wonAt /\ n.lostAt = r.lostAt
    BY <2>1 DEF Retouched
  <2> QED BY <1>1, <2>2 DEF LeadStood, Stamped
<1>2. ASSUME DOMAIN r = Columns("sales"), SaleStood(r, E)
      PROVE  SaleStood(n, E)
  <2>1. {"event", "version", "lastAt", "status", "cancelled", "amount", "currency"}
          \subseteq DOMAIN r \ {"touch"}
    BY <1>2 DEF Columns, SaleStub
  <2>2. /\ n.event = r.event /\ n.version = r.version /\ n.lastAt = r.lastAt
        /\ n.status = r.status /\ n.cancelled = r.cancelled
        /\ n.amount = r.amount /\ n.currency = r.currency
    BY <2>1 DEF Retouched
  <2> QED BY <1>2, <2>2 DEF SaleStood, Stamped
<1> QED BY <1>1, <1>2

\* What holds of the tables when e is dispatched.
Arrival(d, J, e) ==
  /\ Sound(d, J) /\ Present(d, e) /\ Complete(e) /\ e \notin J
  /\ LeadsStand(d, J) /\ SalesStand(d, J)
  /\ LeadsInOrder(LeadChanges(J \cup {e}, e.lead))
  /\ SalesInOrder(SaleChanges(J \cup {e}, e.sale))

\* What the lemmas on single rows need of the tables.
LEMMA ColumnsOf ==
  ASSUME NEW d, NEW J, Sound(d, J)
  PROVE  /\ d = [t \in Tables |-> d[t]]
         /\ \A l \in d["leads"] : DOMAIN l = Columns("leads")
         /\ \A s \in d["sales"] : DOMAIN s = Columns("sales")
         /\ \A k, l \in d["leads"] : k.id = l.id => k = l
         /\ \A r, s \in d["sales"] : r.id = s.id => r = s
BY DEF Sound, TableSound, KeysUnique, Key, RowSound, Entities, Tables

\* The rows of a table that n takes the place of, one for one.
LEMMA LeadsTaken ==
  ASSUME NEW d, NEW J, NEW e, Arrival(d, J, e), NEW d2, NEW F, Takes(F, d["leads"], d2["leads"]),
         \A l \in d["leads"] : F[l].id = l.id /\
           LeadStood(F[l], LeadChanges(J \cup {e}, l.id), d2["history"])
  PROVE  LeadsStand(d2, J \cup {e})
<1>1. Ids(d2["leads"]) = Ids(d["leads"])
  BY DEF Ids, Takes
<1>2. e.type \in LeadChange => e.lead \in Ids(d["leads"])
  BY DEF Arrival, Complete, Present
<1>3. \A f \in J \cup {e} : f.type \in LeadChange => f.lead \in Ids(d2["leads"])
  BY <1>1, <1>2 DEF Arrival, LeadsStand
<1>4. \A n \in d2["leads"] : LeadStood(n, LeadChanges(J \cup {e}, n.id), d2["history"])
  BY DEF Takes
<1> QED BY <1>3, <1>4 DEF LeadsStand

LEMMA SalesTaken ==
  ASSUME NEW d, NEW J, NEW e, Arrival(d, J, e), NEW d2, NEW F, Takes(F, d["sales"], d2["sales"]),
         \A s \in d["sales"] : F[s].id = s.id /\
           SaleStood(F[s], SaleChanges(J \cup {e}, s.id))
  PROVE  SalesStand(d2, J \cup {e})
<1>1. Ids(d2["sales"]) = Ids(d["sales"])
  BY DEF Ids, Takes
<1>2. e.type \in SaleChange => e.sale \in Ids(d["sales"])
  BY DEF Arrival, Complete, Present
<1>3. \A f \in J \cup {e} : f.type \in SaleChange => f.sale \in Ids(d2["sales"])
  BY <1>1, <1>2 DEF Arrival, SalesStand
<1>4. \A n \in d2["sales"] : SaleStood(n, SaleChanges(J \cup {e}, n.id))
  BY DEF Takes
<1> QED BY <1>3, <1>4 DEF SalesStand

\* An event that changes no lead, or no sale, lets them stand.
LEMMA OthersStand ==
  ASSUME NEW d, NEW J, NEW e, Arrival(d, J, e)
  PROVE  /\ e.type \notin LeadChange => LeadsStand(Dispatch(d, e), J \cup {e})
         /\ e.type \notin SaleChange => SalesStand(Dispatch(d, e), J \cup {e})
<1> DEFINE d2 == Dispatch(d, e)
<1>0. /\ d = [t \in Tables |-> d[t]] /\ Complete(e)
      /\ \A l \in d["leads"] : DOMAIN l = Columns("leads")
      /\ \A s \in d["sales"] : DOMAIN s = Columns("sales")
  BY ColumnsOf DEF Arrival
<1>1. ASSUME e.type \notin LeadChange PROVE LeadsStand(d2, J \cup {e})
  <2>1. Refresh(d["leads"], d2["leads"]) /\ d2["history"] = d["history"]
    BY <1>0, <1>1, OthersKeepLeads
  <2>2. PICK F : Takes(F, d["leads"], d2["leads"]) /\ \A r \in d["leads"] : Retouched(r, F[r])
    BY <2>1 DEF Refresh
  <2> HIDE DEF d2
  <2>3. ASSUME NEW l \in d["leads"]
        PROVE  F[l].id = l.id /\ LeadStood(F[l], LeadChanges(J \cup {e}, l.id), d2["history"])
    <3>1. LeadChanges(J \cup {e}, l.id) = LeadChanges(J, l.id)
      BY <1>1 DEF LeadChanges
    <3>2. LeadStood(l, LeadChanges(J \cup {e}, l.id), d2["history"])
      BY <2>1, <3>1 DEF Arrival, LeadsStand
    <3>3. F[l].id = l.id
      BY <1>0, <2>2 DEF Retouched, Columns, LeadStub
    <3> QED BY <1>0, <2>2, <3>2, <3>3, RetouchedStands
  <2> QED BY <2>2, <2>3, LeadsTaken
<1>2. ASSUME e.type \notin SaleChange PROVE SalesStand(d2, J \cup {e})
  <2>1. Refresh(d["sales"], d2["sales"])
    BY <1>0, <1>2, OthersKeepSales
  <2>2. PICK F : Takes(F, d["sales"], d2["sales"]) /\ \A r \in d["sales"] : Retouched(r, F[r])
    BY <2>1 DEF Refresh
  <2> HIDE DEF d2
  <2>3. ASSUME NEW s \in d["sales"]
        PROVE  F[s].id = s.id /\ SaleStood(F[s], SaleChanges(J \cup {e}, s.id))
    <3>1. SaleChanges(J \cup {e}, s.id) = SaleChanges(J, s.id)
      BY <1>2 DEF SaleChanges
    <3>2. SaleStood(s, SaleChanges(J \cup {e}, s.id))
      BY <3>1 DEF Arrival, SalesStand
    <3>3. F[s].id = s.id
      BY <1>0, <2>2 DEF Retouched, Columns, SaleStub
    <3> QED BY <1>0, <2>2, <3>2, <3>3, RetouchedStands
  <2> QED BY <2>2, <2>3, SalesTaken
<1> QED BY <1>1, <1>2

\* An event that changes a lead lets every lead stand.
LEMMA LeadChangesStand ==
  ASSUME NEW d, NEW J, NEW e, Arrival(d, J, e), e.type \in LeadChange
  PROVE  LeadsStand(Dispatch(d, e), J \cup {e})
<1> DEFINE d2 == Dispatch(d, e)
<1>0. /\ d = [t \in Tables |-> d[t]] /\ "leads" \in Tables /\ "history" \in Tables
      /\ \A l \in d["leads"] : DOMAIN l = Columns("leads")
      /\ \A k, l \in d["leads"] : k.id = l.id => k = l
  BY ColumnsOf DEF Arrival, Tables
<1>1. \A l \in d["leads"] :
        LeadChanges(J \cup {e}, l.id) = IF l.id = e.lead THEN LeadChanges(J, l.id) \cup {e}
                                        ELSE LeadChanges(J, l.id)
  BY DEF LeadChanges
<1>2. \A l \in d["leads"] :
        /\ LeadStood(l, LeadChanges(J, l.id), d["history"]) /\ e \notin LeadChanges(J, l.id)
        /\ l.id = e.lead => LeadsInOrder(LeadChanges(J, l.id) \cup {e})
  BY <1>1 DEF Arrival, LeadsStand, LeadChanges
<1>3. CASE e.type = "lead_created"
  <2> DEFINE F == [r \in d["leads"] |-> IF r.id = e.lead THEN CreatedLead(d, e, r) ELSE r]
  <2>1. Takes(F, d["leads"], d2["leads"]) /\ d2["history"] = d["history"]
    BY <1>0, <1>3 DEF Dispatch, LeadCreated, Update, Takes
  <2>2. ASSUME NEW l \in d["leads"]
        PROVE  F[l].id = l.id /\ LeadStood(F[l], LeadChanges(J \cup {e}, l.id), d2["history"])
    <3>1. CASE l.id # e.lead
      BY <1>1, <1>2, <2>1, <3>1
    <3>2. CASE l.id = e.lead
      <4>1. /\ F[l] = CreatedLead(d, e, l)
            /\ LeadChanges(J \cup {e}, l.id) = LeadChanges(J, l.id) \cup {e}
        BY <1>1, <3>2
      <4>2. LeadStood(F[l], LeadChanges(J, l.id) \cup {e}, d["history"])
        BY <1>0, <1>2, <1>3, <3>2, <4>1, CreatedLeadStands
      <4>3. CreatedLead(d, e, l).id = l.id
        <5>1. CASE l.event = Null
          BY <1>0, <5>1, CreatedLeadRow
        <5>2. CASE l.event # Null
          BY <5>2 DEF CreatedLead
        <5> QED BY <5>1, <5>2
      <4> HIDE DEF F
      <4> QED BY <2>1, <4>1, <4>2, <4>3
    <3> QED BY <3>1, <3>2
  <2> HIDE DEF F, d2
  <2>3. LeadsStand(d2, J \cup {e})
    BY <2>1, <2>2, LeadsTaken
  <2> QED BY <2>3 DEF d2
<1>4. CASE e.type = "lead_status_changed"
  <2>1. CASE ~Newer(Row(d["leads"], e.lead), e)
    <3> DEFINE F == [r \in d["leads"] |-> r]
    <3>1. d2 = d
      BY <1>4, <2>1 DEF Dispatch, LeadStatusChanged
    <3>2. Takes(F, d["leads"], d2["leads"])
      BY <3>1 DEF Takes
    <3>3. ASSUME NEW l \in d["leads"]
          PROVE  F[l].id = l.id /\ LeadStood(F[l], LeadChanges(J \cup {e}, l.id), d2["history"])
      <4>1. CASE l.id # e.lead
        BY <1>1, <1>2, <3>1, <4>1
      <4>2. CASE l.id = e.lead
        <5>1. l = Row(d["leads"], e.lead)
          BY <1>0, <4>2 DEF Row
        <5>2. \E h \in d["history"] \cup {e} : h.id = e.id
          OBVIOUS
        <5>3. LeadStood(l, LeadChanges(J, l.id) \cup {e}, d["history"])
          BY <1>0, <1>2, <1>4, <2>1, <4>2, <5>1, <5>2, ChangedLeadStands
        <5> QED BY <1>1, <3>1, <4>2, <5>3
      <4> QED BY <4>1, <4>2
    <3> HIDE DEF F, d2
    <3>4. LeadsStand(d2, J \cup {e})
      BY <3>2, <3>3, LeadsTaken
    <3> QED BY <3>4 DEF d2
  <2>2. CASE Newer(Row(d["leads"], e.lead), e)
    <3> DEFINE F == [r \in d["leads"] |-> IF r.id = e.lead THEN ChangedLead(e, r) ELSE r]
               line == [id |-> e.id, lead |-> e.lead, status |-> e.status, at |-> e.at]
    <3>1. Takes(F, d["leads"], d2["leads"]) /\ d2["history"] = d["history"] \cup {line}
      BY <1>0, <1>4, <2>2 DEF Dispatch, LeadStatusChanged, Update, Takes
    <3>a. line.id = e.id
      OBVIOUS
    <3> HIDE DEF d2, line
    <3>2. d["history"] \subseteq d2["history"] /\ \E h \in d2["history"] : h.id = e.id
      BY <3>1, <3>a
    <3>3. ASSUME NEW l \in d["leads"]
          PROVE  F[l].id = l.id /\ LeadStood(F[l], LeadChanges(J \cup {e}, l.id), d2["history"])
      <4>1. CASE l.id # e.lead
        <5>1. LeadStood(l, LeadChanges(J, l.id), d2["history"])
          BY <1>2, <3>2 DEF LeadStood
        <5> QED BY <1>1, <4>1, <5>1
      <4>2. CASE l.id = e.lead
        <5>1. l = Row(d["leads"], e.lead)
          BY <1>0, <4>2 DEF Row
        <5>2. F[l] = ChangedLead(e, l) /\ ChangedLead(e, l).id = l.id
          BY <1>0, <4>2, ChangedLeadRow
        <5>3. LeadStood(ChangedLead(e, l), LeadChanges(J, l.id) \cup {e}, d2["history"])
          BY <1>0, <1>2, <1>4, <2>2, <3>2, <4>2, <5>1, ChangedLeadStands
        <5> HIDE DEF F
        <5> QED BY <1>1, <4>2, <5>2, <5>3
      <4> QED BY <4>1, <4>2
    <3> HIDE DEF F
    <3>4. LeadsStand(d2, J \cup {e})
      BY <3>1, <3>3, LeadsTaken
    <3> QED BY <3>4 DEF d2
  <2> QED BY <2>1, <2>2
<1> QED BY <1>3, <1>4 DEF LeadChange

\* An event that changes a sale lets every sale stand.
LEMMA SaleChangesStand ==
  ASSUME NEW d, NEW J, NEW e, Arrival(d, J, e), e.type \in SaleChange
  PROVE  SalesStand(Dispatch(d, e), J \cup {e})
<1> DEFINE d2 == Dispatch(d, e)
<1>0. /\ d = [t \in Tables |-> d[t]] /\ "sales" \in Tables
      /\ \A s \in d["sales"] : DOMAIN s = Columns("sales")
      /\ \A r, s \in d["sales"] : r.id = s.id => r = s
  BY ColumnsOf DEF Arrival, Tables
<1>1. \A s \in d["sales"] :
        SaleChanges(J \cup {e}, s.id) = IF s.id = e.sale THEN SaleChanges(J, s.id) \cup {e}
                                        ELSE SaleChanges(J, s.id)
  BY DEF SaleChanges
<1>2. \A s \in d["sales"] :
        /\ SaleStood(s, SaleChanges(J, s.id)) /\ e \notin SaleChanges(J, s.id)
        /\ s.id = e.sale => SalesInOrder(SaleChanges(J, s.id) \cup {e})
  BY <1>1 DEF Arrival, SalesStand, SaleChanges
<1>3. CASE e.type = "manual_sale_created"
  <2> DEFINE F == [r \in d["sales"] |-> IF r.id = e.sale THEN CreatedSale(d, e, r) ELSE r]
  <2>1. Takes(F, d["sales"], d2["sales"])
    BY <1>0, <1>3 DEF Dispatch, SaleCreated, Update, Takes
  <2>2. ASSUME NEW s \in d["sales"]
        PROVE  F[s].id = s.id /\ SaleStood(F[s], SaleChanges(J \cup {e}, s.id))
    <3>1. CASE s.id # e.sale
      BY <1>1, <1>2, <3>1
    <3>2. CASE s.id = e.sale
      <4>1. /\ F[s] = CreatedSale(d, e, s)
            /\ SaleChanges(J \cup {e}, s.id) = SaleChanges(J, s.id) \cup {e}
        BY <1>1, <3>2
      <4>2. SaleStood(F[s], SaleChanges(J, s.id) \cup {e})
        BY <1>0, <1>2, <1>3, <3>2, <4>1, CreatedSaleStands
      <4>3. CreatedSale(d, e, s).id = s.id
        <5>1. CASE s.event = Null
          BY <1>0, <5>1, CreatedSaleRow
        <5>2. CASE s.event # Null
          BY <5>2 DEF CreatedSale
        <5> QED BY <5>1, <5>2
      <4> HIDE DEF F
      <4> QED BY <4>1, <4>2, <4>3
    <3> QED BY <3>1, <3>2
  <2> HIDE DEF F, d2
  <2>3. SalesStand(d2, J \cup {e})
    BY <2>1, <2>2, SalesTaken
  <2> QED BY <2>3 DEF d2
<1>4. CASE e.type \in {"manual_sale_updated", "manual_sale_cancelled"}
  <2> DEFINE After(r) == IF e.type = "manual_sale_updated" THEN UpdatedSale(e, r)
                                                           ELSE CancelledSale(e, r)
  <2>0. \A s \in d["sales"] : s.id = e.sale => s = Row(d["sales"], e.sale)
    BY <1>0 DEF Row
  <2>1. CASE ~Newer(Row(d["sales"], e.sale), e)
    <3> DEFINE F == [r \in d["sales"] |-> r]
    <3>1. d2 = d
      BY <1>4, <2>1 DEF Dispatch, SaleUpdated, SaleCancelled
    <3>2. Takes(F, d["sales"], d2["sales"])
      BY <3>1 DEF Takes
    <3>3. ASSUME NEW s \in d["sales"]
          PROVE  F[s].id = s.id /\ SaleStood(F[s], SaleChanges(J \cup {e}, s.id))
      <4>1. CASE s.id # e.sale
        BY <1>1, <1>2, <3>1, <4>1
      <4>2. CASE s.id = e.sale
        <5>1. s = Row(d["sales"], e.sale)
          BY <2>0, <4>2
        <5>2. SaleStood(s, SaleChanges(J, s.id) \cup {e})
          BY <1>0, <1>2, <1>4, <2>1, <4>2, <5>1, ChangedSaleStands
        <5> QED BY <1>1, <4>2, <5>2
      <4> QED BY <4>1, <4>2
    <3> HIDE DEF F, d2
    <3>4. SalesStand(d2, J \cup {e})
      BY <3>2, <3>3, SalesTaken
    <3> QED BY <3>4 DEF d2
  <2>2. CASE Newer(Row(d["sales"], e.sale), e)
    <3> DEFINE F == [r \in d["sales"] |-> IF r.id = e.sale THEN After(r) ELSE r]
    <3>1. Takes(F, d["sales"], d2["sales"])
      <4>1. CASE e.type = "manual_sale_updated"
        BY <1>0, <2>2, <4>1 DEF Dispatch, SaleUpdated, Update, Takes
      <4>2. CASE e.type = "manual_sale_cancelled"
        BY <1>0, <2>2, <4>2 DEF Dispatch, SaleCancelled, Update, Takes
      <4> QED BY <1>4, <4>1, <4>2
    <3> HIDE DEF d2
    <3>2. ASSUME NEW s \in d["sales"]
          PROVE  F[s].id = s.id /\ SaleStood(F[s], SaleChanges(J \cup {e}, s.id))
      <4>1. CASE s.id # e.sale
        BY <1>1, <1>2, <4>1
      <4>2. CASE s.id = e.sale
        <5>1. s = Row(d["sales"], e.sale)
          BY <2>0, <4>2
        <5>2. \/ e.type = "manual_sale_updated" /\ After(s) = UpdatedSale(e, s)
              \/ e.type = "manual_sale_cancelled" /\ After(s) = CancelledSale(e, s)
          BY <1>4
        <5>3. After(s).id = s.id
          <6>1. "id" \in DOMAIN s
            BY <1>0 DEF Columns, SaleStub
          <6> QED BY <1>0, <6>1, UpdatedSaleRow, CancelledSaleRow
        <5>4. F[s] = After(s)
          BY <4>2
        <5> HIDE DEF F, After
        <5>5. SaleStood(After(s), SaleChanges(J, s.id) \cup {e})
          BY <1>0, <1>2, <1>4, <2>2, <4>2, <5>1, <5>2, ChangedSaleStands
        <5> QED BY <1>1, <4>2, <5>3, <5>4, <5>5
      <4> QED BY <4>1, <4>2
    <3> HIDE DEF F
    <3>3. SalesStand(d2, J \cup {e})
      BY <3>1, <3>2, SalesTaken
    <3> QED BY <3>3 DEF d2
  <2> QED BY <2>1, <2>2
<1> QED BY <1>3, <1>4 DEF SaleChange

Standing == LeadsStand(db, journal) /\ SalesStand(db, journal)

LEMMA InitStanding == Init => Standing
BY DEF Init, DataInit, Standing, LeadsStand, SalesStand, Tables

LEMMA IngestStanding ==
  ASSUME Coherent, Inv, Standing, NEW e, Ingest(e)
  PROVE  Standing'
<1> DEFINE d == EnsureStubs(db, e)
           J == journal \cup {e}
<1>1. PICK H \in Histories : journal \cup pending \subseteq H
  BY DEF Inv
<1>2. J \subseteq H /\ e \in H /\ e \notin journal
  BY <1>1 DEF Inv, Ingest
<1>3. Complete(e)
  BY <1>1, <1>2, HistoriesAssumption
<1>4. Sound(d, journal) /\ Present(d, e)
  BY StubsSound DEF Inv
<1>5. LeadsStand(d, journal) /\ SalesStand(d, journal)
  BY StubsStand DEF Inv, Standing
<1> HIDE DEF d, J
<1>6. LeadsInOrder(LeadChanges(J, e.lead)) /\ SalesInOrder(SaleChanges(J, e.sale))
  BY <1>1, <1>2, ChangesInOrder
<1>7. Arrival(d, journal, e)
  BY <1>2, <1>3, <1>4, <1>5, <1>6 DEF Arrival, J
<1>8. LeadsStand(Dispatch(d, e), J) /\ SalesStand(Dispatch(d, e), J)
  BY <1>7, OthersStand, LeadChangesStand, SaleChangesStand DEF J
<1> QED BY <1>8 DEF Ingest, Standing, d, J

LEMMA StepStanding == Coherent /\ Inv /\ Standing /\ [Next]_vars => Standing'
<1> SUFFICES ASSUME Coherent, Inv, Standing, [Next]_vars PROVE Standing'
  OBVIOUS
<1>1. CASE \E e \in pending : Arrive(e)
  BY <1>1, IngestStanding DEF Arrive
<1>2. CASE UNCHANGED <<db, journal>>
  BY <1>2 DEF Standing
<1> QED
  BY <1>1, <1>2 DEF Next, Request, RunStatement, Answer, Reject, Refuse, vars, dataVars

LEMMA StandingStands == Coherent /\ Inv /\ Standing => LastChangeStands
<1> SUFFICES ASSUME Coherent, Inv, Standing PROVE LastChangeStands
  OBVIOUS
<1>1. PICK H \in Histories : journal \subseteq H
  BY DEF Inv
<1>2. ASSUME NEW l \in db["leads"], LeadChanges(journal, l.id) # {}
      PROVE  LET last == Latest(LeadChanges(journal, l.id))
             IN /\ l.status = last.status
                /\ last.status = "won" => l.wonAt = last.at
                /\ last.status = "lost" => l.lostAt = last.at
                /\ last.type = "lead_status_changed" =>
                     \E h \in db["history"] : h.id = last.id
  <2> DEFINE E == LeadChanges(journal, l.id)
  <2>1. OneOrder(E)
    BY <1>1, ChangesInOrder DEF LeadsInOrder
  <2>2. LeadStood(l, E, db["history"])
    BY DEF Standing, LeadsStand
  <2>3. E # {}
    BY <1>2
  <2> HIDE DEF E
  <2>4. PICK m \in E :
          /\ LastOf(m, E)
          /\ l.status = m.status
          /\ m.status = "won" => l.wonAt = m.at
          /\ m.status = "lost" => l.lostAt = m.at
          /\ m.type = "lead_status_changed" => \E h \in db["history"] : h.id = m.id
    BY <2>2, <2>3 DEF LeadStood
  <2>5. Latest(E) = m
    BY <2>1, <2>4, LatestIsLast
  <2> QED BY <2>4, <2>5 DEF E
<1>3. ASSUME NEW s \in db["sales"], SaleChanges(journal, s.id) # {}
      PROVE  LET last == Latest(SaleChanges(journal, s.id))
             IN IF last.type = "manual_sale_cancelled"
                THEN s.cancelled /\ s.status = "cancelled"
                ELSE /\ ~s.cancelled /\ s.status = last.status
                     /\ s.amount = last.amount /\ s.currency = last.currency
  <2> DEFINE E == SaleChanges(journal, s.id)
  <2>1. OneOrder(E)
    BY <1>1, ChangesInOrder DEF SalesInOrder
  <2>2. SaleStood(s, E)
    BY DEF Standing, SalesStand
  <2>3. E # {}
    BY <1>3
  <2> HIDE DEF E
  <2>4. PICK m \in E :
          /\ LastOf(m, E)
          /\ IF m.type = "manual_sale_cancelled"
             THEN s.cancelled /\ s.status = "cancelled"
             ELSE /\ ~s.cancelled /\ s.status = m.status
                  /\ s.amount = m.amount /\ s.currency = m.currency
    BY <2>2, <2>3 DEF SaleStood
  <2>5. Latest(E) = m
    BY <2>1, <2>4, LatestIsLast
  <2> QED BY <2>4, <2>5 DEF E
<1> QED BY <1>2, <1>3 DEF LastChangeStands

\* Where the changes of a lead and of a sale have one order, a single creation and
\* no change after a cancellation, the last of those that have arrived stands,
\* though the creation, or an earlier change, arrives after it (versioning.py:21-51,
\* lead_created.py:33-57, manual_sale_created.py:33-63).
THEOREM LastChangeStandsAlways ==
  ASSUME Coherent
  PROVE  Spec => []LastChangeStands
<1>1. Init => Inv /\ Standing
  BY InitInv, InitStanding
<1>2. Inv /\ Standing /\ [Next]_vars => (Inv /\ Standing)'
  BY StepInv, StepStanding
<1>3. Inv /\ Standing => LastChangeStands
  BY StandingStands
<1> QED BY <1>1, <1>2, <1>3, PTL DEF Spec

-----------------------------------------------------------------------------
(* Lists in an order *)

\* before gives each element of S those before it, in a total order of S.
Ordered(S, before) ==
  /\ IsFiniteSet(S) /\ before \in [S -> SUBSET S]
  /\ \A x \in S : x \notin before[x]
  /\ \A x, y \in S : /\ x = y \/ x \in before[y] \/ y \in before[x]
                     /\ x \in before[y] => before[x] \subseteq before[y]

\* How many are before each element.
Places(S, before) == [x \in S |-> Cardinality(before[x])]

\* No two elements share a place.
LEMMA PlacesDiffer ==
  ASSUME NEW S, NEW before, Ordered(S, before)
  PROVE  /\ Places(S, before) \in [S -> 0 .. Cardinality(S) - 1]
         /\ \A x, y \in S : Places(S, before)[x] = Places(S, before)[y] => x = y
         /\ \A x, y \in S : x \in before[y] => Places(S, before)[x] < Places(S, before)[y]
<1>1. ASSUME NEW x \in S
      PROVE  IsFiniteSet(before[x]) /\ Cardinality(before[x]) \in 0 .. Cardinality(S) - 1
  <2>1. before[x] \in SUBSET S /\ x \notin before[x] /\ IsFiniteSet(S)
    BY DEF Ordered
  <2>2. /\ IsFiniteSet(before[x]) /\ Cardinality(before[x]) <= Cardinality(S)
        /\ Cardinality(before[x]) # Cardinality(S)
    BY <2>1, FS_Subset
  <2>3. Cardinality(before[x]) \in Nat /\ Cardinality(S) \in Nat
    BY <2>1, <2>2, FS_CardinalityType
  <2> QED BY <2>2, <2>3
<1>2. ASSUME NEW x \in S, NEW y \in S, x \in before[y]
      PROVE  Cardinality(before[x]) < Cardinality(before[y])
  <2>1. before[x] \in SUBSET before[y] /\ x \notin before[x]
    BY <1>2 DEF Ordered
  <2>2. /\ Cardinality(before[x]) <= Cardinality(before[y])
        /\ Cardinality(before[x]) # Cardinality(before[y])
    BY <1>1, <1>2, <2>1, FS_Subset
  <2>3. Cardinality(before[x]) \in Nat /\ Cardinality(before[y]) \in Nat
    BY <1>1, FS_CardinalityType
  <2> QED BY <2>2, <2>3
<1>3. Places(S, before) \in [S -> 0 .. Cardinality(S) - 1]
  BY <1>1 DEF Places
<1>4. ASSUME NEW x \in S, NEW y \in S, Places(S, before)[x] = Places(S, before)[y]
      PROVE  x = y
  <2>1. Cardinality(before[x]) \in Nat /\ Cardinality(before[y]) \in Nat
    BY <1>1, FS_CardinalityType
  <2>2. x = y \/ x \in before[y] \/ y \in before[x]
    BY DEF Ordered
  <2> QED BY <1>2, <1>4, <2>1, <2>2 DEF Places
<1> QED BY <1>2, <1>3, <1>4 DEF Places

\* And no place is left empty: there are as many as elements.
LEMMA PlacesFilled ==
  ASSUME NEW S, NEW before, Ordered(S, before), NEW i \in 1 .. Cardinality(S)
  PROVE  \E x \in S : Places(S, before)[x] = i - 1
<1> DEFINE n == Cardinality(S)
           T == (0 .. n - 1) \ {i - 1}
           P == Places(S, before)
<1> SUFFICES ASSUME \A x \in S : P[x] # i - 1 PROVE FALSE
  OBVIOUS
<1>1. IsFiniteSet(S) /\ n \in Nat
  BY FS_CardinalityType DEF Ordered
<1> HIDE DEF n
<1>2. i \in 1 .. n
  BY DEF n
<1>3. IsFiniteSet(0 .. n - 1) /\ Cardinality(0 .. n - 1) = n
  <2>1. 0 \in Int /\ n - 1 \in Int
    BY <1>1
  <2>2. /\ IsFiniteSet(0 .. n - 1)
        /\ Cardinality(0 .. n - 1) = IF 0 > n - 1 THEN 0 ELSE (n - 1) - 0 + 1
    BY <2>1, FS_Interval
  <2> QED BY <1>1, <2>2
<1>4. IsFiniteSet(T) /\ Cardinality(T) = n - 1
  <2> DEFINE W == 0 .. n - 1
  <2>1. IsFiniteSet(W) /\ Cardinality(W) = n /\ i - 1 \in W
    BY <1>1, <1>2, <1>3
  <2> HIDE DEF W
  <2>2. IsFiniteSet(W \ {i - 1}) /\ Cardinality(W \ {i - 1}) = n - 1
    BY <2>1, FS_RemoveElement
  <2> QED BY <2>2 DEF W
<1>5. P \in [S -> 0 .. n - 1] /\ \A x, y \in S : P[x] = P[y] => x = y
  BY PlacesDiffer DEF n
<1> HIDE DEF P
<1>6. P \in [S -> T]
  BY <1>5
<1>7. Cardinality(T) < Cardinality(S)
  BY <1>1, <1>4 DEF n
<1> HIDE DEF T
<1>8. \E x, y \in S : x # y /\ P[x] = P[y]
  BY <1>1, <1>4, <1>6, <1>7, FS_PigeonHole
<1> QED BY <1>5, <1>8

\* A set is listed whole and in its order, whatever CHOOSE makes of the places.
LEMMA SortedWhole ==
  ASSUME NEW S, NEW before, Ordered(S, before)
  PROVE  /\ Cardinality(S) \in Nat
         /\ Sorted(S, before) \in [1 .. Cardinality(S) -> S]
         /\ \A x \in S : \E i \in 1 .. Cardinality(S) : Sorted(S, before)[i] = x
         /\ \A i, j \in 1 .. Cardinality(S) :
              i < j => Sorted(S, before)[i] \in before[Sorted(S, before)[j]]
<1> DEFINE n == Cardinality(S)
           P == Places(S, before)
           s == Sorted(S, before)
<1>0. n \in Nat
  BY FS_CardinalityType DEF Ordered
<1>1. /\ P \in [S -> 0 .. n - 1] /\ \A x, y \in S : P[x] = P[y] => x = y
      /\ \A x, y \in S : x \in before[y] => P[x] < P[y]
      /\ \A i \in 1 .. n : \E x \in S : P[x] = i - 1
  BY PlacesDiffer, PlacesFilled
<1>2. s = [i \in 1 .. n |-> CHOOSE x \in S : P[x] = i - 1]
  <2>1. \A i : (CHOOSE x \in S : Cardinality(before[x]) = i - 1) = (CHOOSE x \in S : P[x] = i - 1)
    BY Zenon DEF Places
  <2> QED BY <2>1 DEF Sorted
<1> HIDE DEF n, P, s
<1>3. \A i \in 1 .. n : s[i] \in S /\ P[s[i]] = i - 1
  BY <1>1, <1>2
<1>4. ASSUME NEW x \in S PROVE \E i \in 1 .. n : s[i] = x
  <2>1. P[x] + 1 \in 1 .. n /\ P[x] = (P[x] + 1) - 1
    BY <1>0, <1>1
  <2> QED BY <1>1, <1>3, <2>1
<1>5. ASSUME NEW i \in 1 .. n, NEW j \in 1 .. n, i < j
      PROVE  s[i] \in before[s[j]]
  <2>1. s[i] = s[j] \/ s[i] \in before[s[j]] \/ s[j] \in before[s[i]]
    BY <1>3 DEF Ordered
  <2>2. i \in Int /\ j \in Int /\ P[s[i]] = i - 1 /\ P[s[j]] = j - 1
    BY <1>0, <1>3
  <2> QED BY <1>1, <1>3, <1>5, <2>1, <2>2
<1>6. s \in [1 .. n -> S]
  BY <1>2, <1>3
<1> QED BY <1>0, <1>4, <1>5, <1>6 DEF n, s

\* Events are listed by time and id.
Timed(S) ==
  /\ IsFiniteSet(S)
  /\ \A e \in S : e.id \in Nat /\ e.at \in Nat
  /\ \A e, f \in S : e.id = f.id => e = f

\* list_events lists each event of S, and no other, by time.
LEMMA ListedWhole ==
  ASSUME NEW S, Timed(S)
  PROVE  /\ Cardinality(S) \in Nat
         /\ Listed(S) \in [1 .. Cardinality(S) -> S]
         /\ \A x \in S : \E i \in 1 .. Cardinality(S) : Listed(S)[i] = x
         /\ \A i, j \in 1 .. Cardinality(S) : i < j => Before(Listed(S)[i], Listed(S)[j])
<1> DEFINE before == [e \in S |-> {f \in S : Before(f, e)}]
<1>1. Ordered(S, before)
  <2>1. \A e \in S : ~Before(e, e)
    BY DEF Before, Timed
  <2>2. \A e, f \in S : e = f \/ Before(e, f) \/ Before(f, e)
    BY DEF Before, Timed
  <2>3. \A e, f, g \in S : Before(e, f) /\ Before(f, g) => Before(e, g)
    BY DEF Before, Timed
  <2> QED BY <2>1, <2>2, <2>3 DEF Ordered, Timed
<1>2. \A e, f : e \in S /\ f \in before[e] => Before(f, e)
  OBVIOUS
<1>3. Listed(S) = Sorted(S, before)
  BY DEF Listed
<1> HIDE DEF before
<1> QED BY <1>1, <1>2, <1>3, SortedWhole

-----------------------------------------------------------------------------
(* Refunds and the currencies of their orders *)

RefundEvent(r, e) == r.id = e.refund /\ r.order = e.order /\ r.currency = e.currency

\* Orders have ids, refunds stored have their rows, and a row is invalid exactly
\* if its order has another currency.
RefundsStand(d, J) ==
  /\ Null \notin Ids(d["orders"])
  /\ \A e \in J : e.type = "refund_created" => \E r \in d["refunds"] : RefundEvent(r, e)
  /\ \A r \in d["refunds"], o \in d["orders"] : o.id = r.order =>
       (r.invalid <=> o.currency # Null /\ r.currency # o.currency)

\* A refund that is refused is of an order with another currency, or there already.
LEMMA StubsKeepRefunds ==
  ASSUME NEW d, NEW J, NEW e, Sound(d, J), RefundsStand(d, J)
  PROVE  /\ RefundsStand(EnsureStubs(d, e), J)
         /\ Refused(EnsureStubs(d, e), e) => Refused(d, e)
<1> DEFINE d2 == EnsureStubs(d, e)
<1>1. /\ d2["orders"] = InsertStub(d["orders"], e.order, OrderStub(e.order))
      /\ d2["refunds"] = d["refunds"]
  BY StubTables DEF Sound, Tables
<1>2. OrderStub(e.order).id = e.order /\ OrderStub(e.order).currency = Null
  BY DEF OrderStub
<1>3. \A r \in d["refunds"] : r.order \in Ids(d["orders"])
  BY DEF Sound, TableSound, RowSound, Tables
<1> HIDE DEF d2
<1>4. \A o \in d2["orders"] : o \notin d["orders"] =>
        o = OrderStub(e.order) /\ e.order \notin Ids(d["orders"]) /\ e.order # Null
  BY <1>1, <1>2 DEF InsertStub, InsertNew, Ids
<1>5. Null \notin Ids(d2["orders"])
  BY <1>2, <1>4 DEF RefundsStand, Ids
<1>6. ASSUME NEW r \in d["refunds"], NEW o \in d2["orders"], o.id = r.order
      PROVE  o \in d["orders"]
  BY <1>2, <1>3, <1>4, <1>6
<1>7. RefundsStand(d2, J)
  BY <1>1, <1>5, <1>6 DEF RefundsStand
<1>8. Refused(d2, e) => Refused(d, e)
  BY <1>1, <1>2, <1>4 DEF Refused
<1> QED BY <1>7, <1>8 DEF d2

\* Only orders and refunds write currencies; the others give orders new touches.
LEMMA OthersKeepOrders ==
  ASSUME NEW d, NEW e, d = [t \in Tables |-> d[t]], Complete(e),
         e.type \notin {"order_created", "order_paid", "refund_created"}
  PROVE  /\ Refresh(d["orders"], Dispatch(d, e)["orders"])
         /\ Dispatch(d, e)["refunds"] = d["refunds"]
<1>1. CASE e.type = "session_started"
  BY <1>1, SessionTables DEF Dispatch, Tables
<1>2. CASE e.type # "session_started"
  <2>0. SUFFICES Dispatch(d, e)["orders"] = d["orders"] /\ Dispatch(d, e)["refunds"] = d["refunds"]
    BY RefreshSame
  <2>1. CASE e.type \in {"product_viewed", "add_to_cart", "checkout_started", "contact_intent"}
    BY <2>1 DEF Dispatch, Tables, ProductViewed, AddToCart, CheckoutStarted, ContactIntent
  <2>2. CASE e.type \in {"contact_received", "customer_linked"}
    BY <2>2 DEF Dispatch, Tables, ContactReceived, CustomerLinked
  <2>3. CASE e.type \in {"payment_methods_shown", "payment_method_selected", "payment_failed"}
    BY <2>3 DEF Dispatch, Tables, PaymentMethodsShown, PaymentMethodSelected, PaymentFailed
  <2>4. CASE e.type \in LeadChange
    BY <2>4 DEF LeadChange, Dispatch, Tables, LeadCreated, LeadStatusChanged
  <2>5. CASE e.type \in SaleChange
    BY <2>5 DEF SaleChange, Dispatch, Tables, SaleCreated, SaleUpdated, SaleCancelled
  <2> QED BY <1>2, <2>1, <2>2, <2>3, <2>4, <2>5 DEF Complete, Handled
<1> QED BY <1>1, <1>2

LEMMA OthersKeepRefunds ==
  ASSUME NEW d, NEW J, NEW e, Sound(d, J), RefundsStand(d, J), Complete(e),
         e.type \notin {"order_created", "order_paid", "refund_created"}
  PROVE  RefundsStand(Dispatch(d, e), J \cup {e})
<1> DEFINE d2 == Dispatch(d, e)
<1>1. /\ d = [t \in Tables |-> d[t]]
      /\ \A o \in d["orders"] : DOMAIN o = Columns("orders")
  BY DEF Sound, TableSound, RowSound, Entities, Tables
<1>2. Refresh(d["orders"], d2["orders"]) /\ d2["refunds"] = d["refunds"]
  BY <1>1, OthersKeepOrders
<1> HIDE DEF d2
<1>3. PICK F : Takes(F, d["orders"], d2["orders"]) /\ \A o \in d["orders"] : Retouched(o, F[o])
  BY <1>2 DEF Refresh
<1>4. ASSUME NEW n \in d2["orders"]
      PROVE  \E o \in d["orders"] : n.id = o.id /\ n.currency = o.currency
  <2>1. PICK o \in d["orders"] : n = F[o]
    BY <1>3 DEF Takes
  <2>2. {"id", "currency"} \subseteq DOMAIN o \ {"touch"}
    BY <1>1 DEF Columns, OrderStub
  <2> QED BY <1>3, <2>1, <2>2 DEF Retouched
<1>5. ASSUME NEW r \in d2["refunds"], NEW n \in d2["orders"], n.id = r.order
      PROVE  r.invalid <=> n.currency # Null /\ r.currency # n.currency
  <2>1. PICK o \in d["orders"] : n.id = o.id /\ n.currency = o.currency
    BY <1>4
  <2>2. r.invalid <=> o.currency # Null /\ r.currency # o.currency
    BY <1>2, <1>5, <2>1 DEF RefundsStand
  <2> QED BY <2>1, <2>2
<1>6. Null \notin Ids(d2["orders"])
  <2>1. Null \notin Ids(d["orders"])
    BY DEF RefundsStand
  <2> QED BY <1>4, <2>1 DEF Ids
<1>7. \A f \in J \cup {e} : f.type = "refund_created" => \E r \in d2["refunds"] : RefundEvent(r, f)
  BY <1>2 DEF RefundsStand
<1> QED BY <1>5, <1>6, <1>7 DEF RefundsStand, d2

\* Whatever an event says of an order, a currency that is known stays known.
LEMMA OrderCurrency ==
  ASSUME NEW d, NEW e, NEW r, DOMAIN r = Columns("orders"), NEW n,
         n = CreatedOrder(d, e, r) \/ n = PaidOrder(d, e, r)
  PROVE  n.id = r.id /\ (n.currency = Null => r.currency = Null)
<1>1. {"id", "currency"} \subseteq DOMAIN r \ {"touch"}
  BY DEF Columns, OrderStub
<1>2. ASSUME NEW columns, "currency" \in DOMAIN columns, Retouched(OverlayRow(r, columns, FALSE), n)
      PROVE  n.currency = Null => r.currency = Null
  <2>1. /\ DOMAIN OverlayRow(r, columns, FALSE) = DOMAIN r
        /\ OverlayRow(r, columns, FALSE)["currency"]
             = IF columns["currency"] = Null THEN r["currency"] ELSE columns["currency"]
    BY <1>1, <1>2 DEF OverlayRow, Rule!Overlay
  <2>2. n["currency"] = OverlayRow(r, columns, FALSE)["currency"]
    BY <1>1, <1>2, <2>1 DEF Retouched
  <2> QED BY <2>1, <2>2
<1>3. CASE n = CreatedOrder(d, e, r)
  <2> DEFINE columns == Extend(Entity(e), [created |-> e.id, createdAt |-> e.at])
  <2>1. "currency" \in DOMAIN columns
    BY DEF Extend, Entity
  <2>2. Retouched(OverlayRow(r, columns, FALSE), n)
    BY <1>3, SnapshotRow DEF CreatedOrder
  <2> HIDE DEF columns
  <2>3. n.currency = Null => r.currency = Null
    BY <1>2, <2>1, <2>2
  <2>4. n.id = r.id
    BY <1>3, OrderRow
  <2> QED BY <2>3, <2>4
<1>4. CASE n = PaidOrder(d, e, r)
  <2> DEFINE columns == Extend(Entity(e),
        [paid |-> e.id, paidAt |-> e.at, amount |-> e.amount,
         createdAt |-> IF r.createdAt = Null THEN e.at ELSE r.createdAt])
  <2>1. "currency" \in DOMAIN columns
    BY DEF Extend, Entity
  <2>2. Retouched(OverlayRow(r, columns, FALSE), n)
    BY <1>4, SnapshotRow DEF PaidOrder
  <2> HIDE DEF columns
  <2>3. n.currency = Null => r.currency = Null
    BY <1>2, <2>1, <2>2
  <2>4. n.id = r.id
    BY <1>4, OrderRow
  <2> QED BY <2>3, <2>4
<1> QED BY <1>3, <1>4

\* n takes the place of the order's row, and its refunds are marked anew.
LEMMA PlacedKeepsRefunds ==
  ASSUME NEW d, NEW J, NEW e, NEW n, NEW isPaid, Sound(d, J), RefundsStand(d, J),
         n.id \in Ids(d["orders"]),
         n.currency = Null => \A o \in d["orders"] : o.id = n.id => o.currency = Null,
         e.type # "refund_created"
  PROVE  RefundsStand([WithOrder(d, n) EXCEPT !.lines = Lines(d, e, isPaid)], J \cup {e})
<1> DEFINE d2 == [WithOrder(d, n) EXCEPT !.lines = Lines(d, e, isPaid)]
           differs(r) == r.currency # n.currency
<1>1. /\ d2["refunds"] = Synced(d, n)
      /\ d2["orders"] = {IF o.id = n.id THEN n ELSE o : o \in d["orders"]}
  BY DEF WithOrder, Update, Sound, Tables
<1>2. \A r \in d["refunds"] :
        DOMAIN r = {"id", "order", "at", "amount", "currency", "method", "shop", "invalid"}
  BY DEF Sound, TableSound, RowSound, Entities, Columns, Tables
<1> HIDE DEF d2
<1>3. Null \notin Ids(d2["orders"])
  <2>1. Null \notin Ids(d["orders"])
    BY DEF RefundsStand
  <2> QED BY <1>1, <2>1 DEF Ids
\* A marked row is as it was, but for its mark.
<1>4. ASSUME NEW r \in d["refunds"]
      PROVE  LET s == [r EXCEPT !.invalid = differs(r)]
             IN /\ s.id = r.id /\ s.order = r.order /\ s.currency = r.currency
                /\ s.invalid = differs(r)
  <2> HIDE DEF differs
  <2> QED BY <1>2
<1>5. n.currency # Null =>
        d2["refunds"] = {IF r.order = n.id THEN [r EXCEPT !.invalid = differs(r)] ELSE r :
                           r \in d["refunds"]}
  BY <1>1, Zenon DEF Synced
<1>6. n.currency = Null => d2["refunds"] = d["refunds"]
  BY <1>1 DEF Synced
<1>7. ASSUME NEW s \in d2["refunds"]
      PROVE  \E r \in d["refunds"] :
               /\ s.order = r.order /\ s.currency = r.currency
               /\ IF n.currency # Null /\ r.order = n.id THEN s.invalid = differs(r)
                  ELSE s.invalid = r.invalid
  <2>1. CASE n.currency = Null
    BY <1>6, <2>1
  <2>2. CASE n.currency # Null
    <3>1. PICK r \in d["refunds"] :
            s = IF r.order = n.id THEN [r EXCEPT !.invalid = differs(r)] ELSE r
      BY <1>5, <2>2
    <3>2. CASE r.order = n.id
      BY <1>4, <2>2, <3>1, <3>2
    <3>3. CASE r.order # n.id
      BY <3>1, <3>3
    <3> QED BY <3>2, <3>3
  <2> QED BY <2>1, <2>2
<1>8. ASSUME NEW r \in d["refunds"]
      PROVE  \E s \in d2["refunds"] : s.id = r.id /\ s.order = r.order /\ s.currency = r.currency
  <2>1. CASE n.currency = Null
    BY <1>6, <2>1
  <2>2. CASE n.currency # Null
    <3> DEFINE s == IF r.order = n.id THEN [r EXCEPT !.invalid = differs(r)] ELSE r
    <3>1. s \in d2["refunds"]
      BY <1>5, <2>2
    <3>2. s.id = r.id /\ s.order = r.order /\ s.currency = r.currency
      BY <1>4
    <3> HIDE DEF s
    <3> QED BY <3>1, <3>2
  <2> QED BY <2>1, <2>2
<1>9. ASSUME NEW s \in d2["refunds"], NEW o \in d2["orders"], o.id = s.order
      PROVE  s.invalid <=> o.currency # Null /\ s.currency # o.currency
  <2>1. PICK r \in d["refunds"] :
          /\ s.order = r.order /\ s.currency = r.currency
          /\ IF n.currency # Null /\ r.order = n.id THEN s.invalid = differs(r)
             ELSE s.invalid = r.invalid
    BY <1>7
  <2>2. \A p \in d["orders"] : p.id = r.order =>
          (r.invalid <=> p.currency # Null /\ r.currency # p.currency)
    BY DEF RefundsStand
  <2>3. CASE o.id # n.id
    <3>1. o \in d["orders"]
      BY <1>1, <2>3
    <3> QED BY <1>9, <2>1, <2>2, <2>3, <3>1
  <2>4. CASE o.id = n.id /\ n.currency # Null
    <3>1. o = n
      BY <1>1, <2>4
    <3> QED BY <1>9, <2>1, <2>4, <3>1
  <2>5. CASE o.id = n.id /\ n.currency = Null
    <3>1. o = n
      BY <1>1, <2>5
    <3>2. PICK p \in d["orders"] : p.id = n.id
      BY DEF Ids
    <3>3. p.currency = Null
      BY <2>5, <3>2
    <3> QED BY <1>9, <2>1, <2>2, <2>5, <3>1, <3>2, <3>3
  <2> QED BY <2>3, <2>4, <2>5
<1>10. \A f \in J \cup {e} : f.type = "refund_created" => \E s \in d2["refunds"] : RefundEvent(s, f)
  <2>1. \A f \in J : f.type = "refund_created" => \E r \in d["refunds"] : RefundEvent(r, f)
    BY DEF RefundsStand
  <2> QED BY <1>8, <2>1 DEF RefundEvent
<1> QED BY <1>3, <1>9, <1>10 DEF RefundsStand, d2

LEMMA OrdersKeepRefunds ==
  ASSUME NEW d, NEW J, NEW e, Sound(d, J), Present(d, e), RefundsStand(d, J), Complete(e),
         e.type \in {"order_created", "order_paid"}
  PROVE  RefundsStand(Dispatch(d, e), J \cup {e})
<1> DEFINE r == Row(d["orders"], e.order)
<1>1. r \in d["orders"] /\ r.id = e.order
  BY RowThere DEF Present, Complete, OrderEvents
<1>2. DOMAIN r = Columns("orders") /\ \A o \in d["orders"] : o.id = r.id => o = r
  BY <1>1, Zenon DEF Sound, TableSound, KeysUnique, Key, RowSound, Entities, Tables
<1> HIDE DEF r
<1>3. RefundsStand(d, J \cup {e})
  <2>1. e.type # "refund_created"
    OBVIOUS
  <2> QED BY <2>1 DEF RefundsStand
<1>4. ASSUME NEW n, n = CreatedOrder(d, e, r) \/ n = PaidOrder(d, e, r), NEW isPaid
      PROVE  RefundsStand([WithOrder(d, n) EXCEPT !.lines = Lines(d, e, isPaid)], J \cup {e})
  <2>1. n.id = r.id /\ (n.currency = Null => r.currency = Null)
    BY <1>2, <1>4, OrderCurrency
  <2>2. n.id \in Ids(d["orders"])
    BY <1>1, <2>1 DEF Ids
  <2>3. n.currency = Null => \A o \in d["orders"] : o.id = n.id => o.currency = Null
    BY <1>2, <2>1
  <2> QED BY <2>2, <2>3, PlacedKeepsRefunds
<1>5. CASE e.type = "order_created"
  <2> DEFINE n == CreatedOrder(d, e, r)
             isPaid == FALSE
  <2> HIDE DEF n, isPaid
  <2>1. RefundsStand([WithOrder(d, n) EXCEPT !.lines = Lines(d, e, isPaid)], J \cup {e})
    BY <1>4 DEF n
  <2>2. Dispatch(d, e) = IF r.created # Null THEN d
                         ELSE [WithOrder(d, n) EXCEPT !.lines = Lines(d, e, isPaid)]
    BY <1>5 DEF Dispatch, OrderCreated, n, r, isPaid
  <2> QED BY <1>3, <2>1, <2>2
<1>6. CASE e.type = "order_paid"
  <2> DEFINE n == PaidOrder(d, e, r)
             isPaid == TRUE
  <2> HIDE DEF n, isPaid
  <2>1. RefundsStand([WithOrder(d, n) EXCEPT !.lines = Lines(d, e, isPaid)], J \cup {e})
    BY <1>4 DEF n
  <2>2. Dispatch(d, e) = IF r.paid # Null THEN d
                         ELSE [WithOrder(d, n) EXCEPT !.lines = Lines(d, e, isPaid)]
    BY <1>6 DEF Dispatch, OrderPaid, n, r, isPaid
  <2> QED BY <1>3, <2>1, <2>2
<1> QED BY <1>5, <1>6

\* A refund is marked by the order it finds (refund_created.py:25-48).
LEMMA RefundKeepsRefunds ==
  ASSUME NEW d, NEW J, NEW e, Sound(d, J), RefundsStand(d, J),
         e.type = "refund_created", ~Refused(d, e)
  PROVE  RefundsStand(Dispatch(d, e), J \cup {e})
<1> DEFINE d2 == Dispatch(d, e)
           row == [id |-> e.refund, order |-> e.order, at |-> e.refundedAt, amount |-> e.amount,
                   currency |-> e.currency, method |-> e.method, shop |-> e.shop,
                   invalid |-> FALSE]
<1>1. d2["refunds"] = d["refunds"] \cup {row} /\ d2["orders"] = d["orders"]
  BY DEF Dispatch, RefundCreated, Sound, Tables
<1>2. RefundEvent(row, e) /\ ~row.invalid
  BY DEF RefundEvent
<1> HIDE DEF d2, row
<1>3. ASSUME NEW o \in d["orders"], o.id = row.order
      PROVE  row.invalid <=> o.currency # Null /\ row.currency # o.currency
  BY <1>2, <1>3 DEF Refused, RefundEvent
<1>4. ASSUME NEW r \in d2["refunds"], NEW o \in d2["orders"], o.id = r.order
      PROVE  r.invalid <=> o.currency # Null /\ r.currency # o.currency
  <2>1. CASE r \in d["refunds"]
    BY <1>1, <1>4, <2>1 DEF RefundsStand
  <2>2. CASE r = row
    BY <1>1, <1>3, <1>4, <2>2
  <2> QED BY <1>1, <2>1, <2>2
<1>5. \A f \in J \cup {e} : f.type = "refund_created" => \E r \in d2["refunds"] : RefundEvent(r, f)
  <2>1. \A f \in J : f.type = "refund_created" => \E r \in d["refunds"] : RefundEvent(r, f)
    BY DEF RefundsStand
  <2> QED BY <1>1, <1>2, <2>1
<1>6. Null \notin Ids(d2["orders"])
  BY <1>1 DEF RefundsStand
<1> QED BY <1>4, <1>5, <1>6 DEF RefundsStand, d2

LEMMA InitRefunds == Init => RefundsStand(db, journal)
BY DEF Init, DataInit, RefundsStand, Ids, Tables

LEMMA IngestRefunds ==
  ASSUME Inv, RefundsStand(db, journal), NEW e, Ingest(e)
  PROVE  RefundsStand(db, journal)'
<1> DEFINE d == EnsureStubs(db, e)
           J == journal \cup {e}
<1>1. Complete(e)
  <2>1. PICK H \in Histories : journal \cup pending \subseteq H
    BY DEF Inv
  <2> QED BY <2>1, HistoriesAssumption DEF Ingest
<1>2. Sound(d, journal) /\ Present(d, e)
  BY StubsSound DEF Inv
<1>3. RefundsStand(d, journal) /\ ~Refused(d, e)
  BY StubsKeepRefunds DEF Inv, Ingest
<1> HIDE DEF d
<1>4. RefundsStand(Dispatch(d, e), J)
  <2>1. CASE e.type \in {"order_created", "order_paid"}
    BY <1>1, <1>2, <1>3, <2>1, OrdersKeepRefunds
  <2>2. CASE e.type = "refund_created"
    BY <1>2, <1>3, <2>2, RefundKeepsRefunds
  <2>3. CASE e.type \notin {"order_created", "order_paid", "refund_created"}
    BY <1>1, <1>2, <1>3, <2>3, OthersKeepRefunds
  <2> QED BY <2>1, <2>2, <2>3
<1> QED BY <1>4 DEF Ingest, d, J

LEMMA StepRefunds == Inv /\ RefundsStand(db, journal) /\ [Next]_vars => RefundsStand(db, journal)'
<1> SUFFICES ASSUME Inv, RefundsStand(db, journal), [Next]_vars PROVE RefundsStand(db, journal)'
  OBVIOUS
<1>1. CASE \E e \in pending : Arrive(e)
  BY <1>1, IngestRefunds DEF Arrive
<1>2. CASE UNCHANGED <<db, journal>>
  BY <1>2 DEF RefundsStand
<1> QED
  BY <1>1, <1>2 DEF Next, Request, RunStatement, Answer, Reject, Refuse, vars, dataVars

-----------------------------------------------------------------------------
(* Journeys *)

JourneyOf(S) == [i \in DOMAIN Listed(S) |-> Shown(Listed(S)[i])]

\* A journey shows every event of its scope, and nothing else.
LEMMA JourneyWhole ==
  ASSUME NEW S, Timed(S)
  PROVE  /\ \A e \in S : e.id \in EventsOf(JourneyOf(S))
         /\ \A i \in DOMAIN JourneyOf(S) : \E e \in S : JourneyOf(S)[i] = Shown(e)
<1>1. /\ DOMAIN JourneyOf(S) = DOMAIN Listed(S)
      /\ \A i \in DOMAIN Listed(S) : JourneyOf(S)[i] = Shown(Listed(S)[i])
  BY DEF JourneyOf
<1>2. \A e : Shown(e).event = e.id
  BY DEF Shown
<1>3. /\ DOMAIN Listed(S) = 1 .. Cardinality(S)
      /\ \A i \in DOMAIN Listed(S) : Listed(S)[i] \in S
      /\ \A x \in S : \E i \in DOMAIN Listed(S) : Listed(S)[i] = x
  BY ListedWhole
<1>4. ASSUME NEW e \in S PROVE e.id \in EventsOf(JourneyOf(S))
  <2>1. PICK i \in DOMAIN Listed(S) : Listed(S)[i] = e
    BY <1>3
  <2>2. JourneyOf(S)[i].event = e.id
    BY <1>1, <1>2, <2>1
  <2> QED BY <1>1, <2>2 DEF EventsOf
<1> QED BY <1>1, <1>4, <1>3

LEMMA JournalTimed == Inv => \A S \in SUBSET journal : Timed(S)
<1> SUFFICES ASSUME Inv, NEW S \in SUBSET journal PROVE Timed(S)
  OBVIOUS
<1>1. PICK H \in Histories : journal \cup pending \subseteq H
  BY DEF Inv
<1>2. IsFiniteSet(S)
  BY <1>1, HistoriesAssumption, FS_Subset
<1> QED BY <1>1, <1>2, HistoriesAssumption DEF Timed, Complete

\* What a journey shows of a refund is what its row says.
LEMMA RefundShown ==
  ASSUME Inv, RefundsStand(db, journal), NEW o \in db["orders"], NEW e \in journal,
         e.type = "refund_created", e.order = o.id
  PROVE  Shown(e).invalid <=> o.currency # Null /\ e.currency # o.currency
<1>1. PICK r \in db["refunds"] : RefundEvent(r, e)
  BY DEF RefundsStand
<1>2. r.invalid <=> o.currency # Null /\ r.currency # o.currency
  BY <1>1 DEF RefundsStand, RefundEvent
<1>3. \A s \in db["refunds"] : s.id = r.id => s = r
  BY DEF Inv, Sound, TableSound, KeysUnique, Key, Tables
<1>4. e.refund # Null
  <2>1. PICK H \in Histories : journal \cup pending \subseteq H
    BY DEF Inv
  <2> QED BY <2>1, HistoriesAssumption DEF Complete
<1>5. (\E s \in db["refunds"] : s.id = e.refund /\ s.invalid) <=> r.invalid
  BY <1>1, <1>3 DEF RefundEvent
<1>6. Shown(e).invalid = (e.type = "refund_created" /\ e.refund # Null
                          /\ \E s \in db["refunds"] : s.id = e.refund /\ s.invalid)
  <2> DEFINE marked == e.type = "refund_created" /\ e.refund # Null
                       /\ \E s \in db["refunds"] : s.id = e.refund /\ s.invalid
             source == IF e.type # "session_started" \/ e.session = Null THEN Null
                       ELSE Row(db.sessions, e.session).source
  <2>1. Shown(e) = [event |-> e.id, traffic |-> source, invalid |-> marked]
    BY Zenon DEF Shown
  <2> HIDE DEF marked, source
  <2>2. Shown(e).invalid = marked
    BY <2>1
  <2> QED BY <2>2 DEF marked
<1> QED BY <1>1, <1>2, <1>4, <1>5, <1>6 DEF RefundEvent

\* What is in the scope of a journey is told in it.
LEMMA ScopeTold ==
  ASSUME Inv, NEW S \in SUBSET journal
  PROVE  {x.id : x \in S} \subseteq EventsOf(JourneyOf(S))
BY JournalTimed, JourneyWhole

JourneysOfScopes ==
  \A i : /\ OrderJourney(i) = JourneyOf({x \in journal : OrderScope(x, i)})
         /\ LeadJourney(i) = JourneyOf({x \in journal : LeadScope(x, i)})
         /\ CustomerJourney(i) = JourneyOf({x \in journal : CustomerScope(x, i)})

LEMMA JourneysAreScopes == JourneysOfScopes
BY Zenon DEF JourneysOfScopes, OrderJourney, LeadJourney, CustomerJourney, Journey, JourneyOf

-----------------------------------------------------------------------------
(* Links *)

LinkColumns == {"lead", "visitor", "customer", "cart"}

\* The row of an order has what e says of its links.
Carries(o, e) == \A c \in LinkColumns : e[c] # Null => o[c] = e[c]

\* What orders that were created or paid, and customers that were linked, were said to
\* belong to stands in the tables; a row is created, or paid, by an event.
LinksStand(d, J) ==
  /\ \A e \in J : e.type \in OrderFacts =>
       \E o \in d["orders"] : o.id = e.order /\ Carries(o, e)
  /\ \A o \in d["orders"] :
       /\ o.created # Null => \E f \in J : f.type = "order_created" /\ f.order = o.id
       /\ o.paid # Null => \E f \in J : f.type = "order_paid" /\ f.order = o.id
  /\ \A e \in J : e.type = "customer_linked" =>
       \E k \in d["links"] : k.visitor = e.visitor /\ k.customer = e.customer

\* Those of J that create or pay e's order agree with it, and are not of its type.
AgreesWith(J, e) ==
  \A f \in J : f.type \in OrderFacts /\ f.order = e.order =>
    /\ f.type # e.type
    /\ \A c \in LinkColumns : f[c] # Null /\ e[c] # Null => f[c] = e[c]

LEMMA StubsKeepLinks ==
  ASSUME NEW d, NEW J, NEW e, Sound(d, J), LinksStand(d, J)
  PROVE  LinksStand(EnsureStubs(d, e), J)
<1> DEFINE d2 == EnsureStubs(d, e)
<1>1. /\ d2["orders"] = InsertStub(d["orders"], e.order, OrderStub(e.order))
      /\ d2["links"] = d["links"]
  BY StubTables DEF Sound, Tables
<1>2. OrderStub(e.order).created = Null /\ OrderStub(e.order).paid = Null
  BY DEF OrderStub
<1> HIDE DEF d2
<1>3. /\ d["orders"] \subseteq d2["orders"]
      /\ \A o \in d2["orders"] : o \in d["orders"] \/ o = OrderStub(e.order)
  BY <1>1 DEF InsertStub, InsertNew
<1>4. /\ \A f \in J : f.type \in OrderFacts =>
           \E o \in d2["orders"] : o.id = f.order /\ Carries(o, f)
      /\ \A f \in J : f.type = "customer_linked" =>
           \E k \in d2["links"] : k.visitor = f.visitor /\ k.customer = f.customer
  BY <1>1, <1>3 DEF LinksStand
<1>5. ASSUME NEW o \in d2["orders"]
      PROVE  /\ o.created # Null => \E f \in J : f.type = "order_created" /\ f.order = o.id
             /\ o.paid # Null => \E f \in J : f.type = "order_paid" /\ f.order = o.id
  BY <1>2, <1>3, <1>5 DEF LinksStand
<1> QED BY <1>4, <1>5 DEF LinksStand, d2

\* Only customer_linked writes links.
LEMMA LinksAdded ==
  ASSUME NEW d, NEW e, d = [t \in Tables |-> d[t]], Complete(e), e.type \notin OrderFacts
  PROVE  Dispatch(d, e)["links"]
           = IF e.type = "customer_linked"
             THEN d["links"] \cup {[visitor |-> e.visitor, customer |-> e.customer]}
             ELSE d["links"]
<1>1. CASE e.type = "session_started"
  BY <1>1, SessionTables DEF Dispatch, Tables
<1>2. CASE e.type \in {"product_viewed", "add_to_cart", "checkout_started", "contact_intent"}
  BY <1>2 DEF Dispatch, Tables, ProductViewed, AddToCart, CheckoutStarted, ContactIntent
<1>3. CASE e.type \in {"contact_received", "customer_linked"}
  BY <1>3 DEF Dispatch, Tables, ContactReceived, CustomerLinked
<1>4. CASE e.type \in {"payment_methods_shown", "payment_method_selected", "payment_failed"}
  BY <1>4 DEF Dispatch, Tables, PaymentMethodsShown, PaymentMethodSelected, PaymentFailed
<1>5. CASE e.type \in LeadChange
  BY <1>5 DEF LeadChange, Dispatch, Tables, LeadCreated, LeadStatusChanged
<1>6. CASE e.type \in SaleChange
  BY <1>6 DEF SaleChange, Dispatch, Tables, SaleCreated, SaleUpdated, SaleCancelled
<1>7. CASE e.type = "refund_created"
  BY <1>7 DEF Dispatch, Tables, RefundCreated
<1> QED BY <1>1, <1>2, <1>3, <1>4, <1>5, <1>6, <1>7 DEF Complete, Handled, OrderFacts

\* An event of another kind gives orders new touches at most, and adds links at most.
LEMMA OthersKeepLinks ==
  ASSUME NEW d, NEW J, NEW e, Sound(d, J), LinksStand(d, J), Complete(e),
         e.type \notin OrderFacts
  PROVE  LinksStand(Dispatch(d, e), J \cup {e})
<1> DEFINE d2 == Dispatch(d, e)
<1>1. /\ d = [t \in Tables |-> d[t]]
      /\ \A o \in d["orders"] : DOMAIN o = Columns("orders")
  BY DEF Sound, TableSound, RowSound, Entities, Tables
<1>2. Refresh(d["orders"], d2["orders"])
  <2>1. CASE e.type = "refund_created"
    <3>1. d2["orders"] = d["orders"]
      BY <1>1, <2>1 DEF Dispatch, RefundCreated, Tables
    <3> QED BY <3>1, RefreshSame
  <2>2. CASE e.type # "refund_created"
    BY <1>1, <2>2, OthersKeepOrders DEF OrderFacts
  <2> QED BY <2>1, <2>2
<1>3. d2["links"] = IF e.type = "customer_linked"
                    THEN d["links"] \cup {[visitor |-> e.visitor, customer |-> e.customer]}
                    ELSE d["links"]
  BY <1>1, LinksAdded DEF OrderFacts
<1> HIDE DEF d2
<1>4. PICK F : Takes(F, d["orders"], d2["orders"]) /\ \A o \in d["orders"] : Retouched(o, F[o])
  BY <1>2 DEF Refresh
<1>5. ASSUME NEW o \in d["orders"]
      PROVE  \A c \in LinkColumns \cup {"id", "created", "paid"} : F[o][c] = o[c]
  <2>1. LinkColumns \cup {"id", "created", "paid"} \subseteq DOMAIN o \ {"touch"}
    BY <1>1 DEF Columns, OrderStub, LinkColumns
  <2> QED BY <1>4, <2>1 DEF Retouched
<1>6. ASSUME NEW f \in J \cup {e}, f.type \in OrderFacts
      PROVE  \E n \in d2["orders"] : n.id = f.order /\ Carries(n, f)
  <2>1. PICK o \in d["orders"] : o.id = f.order /\ Carries(o, f)
    BY <1>6 DEF LinksStand
  <2>2. F[o] \in d2["orders"] /\ F[o].id = f.order
    BY <1>4, <1>5, <2>1 DEF Takes
  <2>3. Carries(F[o], f)
    BY <1>5, <2>1 DEF Carries
  <2> QED BY <2>2, <2>3
<1>7. ASSUME NEW n \in d2["orders"]
      PROVE  /\ n.created # Null =>
                  \E f \in J \cup {e} : f.type = "order_created" /\ f.order = n.id
             /\ n.paid # Null =>
                  \E f \in J \cup {e} : f.type = "order_paid" /\ f.order = n.id
  <2>1. PICK o \in d["orders"] : n = F[o]
    BY <1>4 DEF Takes
  <2>2. n.id = o.id /\ n.created = o.created /\ n.paid = o.paid
    BY <1>5, <2>1
  <2> QED BY <2>2 DEF LinksStand
<1>8. ASSUME NEW f \in J \cup {e}, f.type = "customer_linked"
      PROVE  \E k \in d2["links"] : k.visitor = f.visitor /\ k.customer = f.customer
  <2>1. CASE f \in J
    BY <1>3, <1>8, <2>1 DEF LinksStand
  <2>2. CASE f = e
    <3> DEFINE k == [visitor |-> e.visitor, customer |-> e.customer]
    <3>1. k.visitor = e.visitor /\ k.customer = e.customer
      OBVIOUS
    <3>2. k \in d2["links"]
      BY <1>3, <1>8, <2>2
    <3> HIDE DEF k
    <3> QED BY <2>2, <3>1, <3>2
  <2> QED BY <2>1, <2>2
<1> QED BY <1>6, <1>7, <1>8 DEF LinksStand, d2

\* The row n has the links of columns where there are some, and otherwise those of r.
Linked(r, columns, n) ==
  \A c \in LinkColumns : n[c] = IF columns[c] = Null THEN r[c] ELSE columns[c]

\* An overlay takes the links it has and leaves the columns it does not write.
LEMMA OverlayLinks ==
  ASSUME NEW r, DOMAIN r = Columns("orders"), NEW columns, NEW row,
         row = OverlayRow(r, columns, FALSE), LinkColumns \subseteq DOMAIN columns,
         NEW n, Retouched(row, n)
  PROVE  /\ Linked(r, columns, n)
         /\ "paid" \notin DOMAIN columns => n.paid = r.paid
         /\ "created" \notin DOMAIN columns => n.created = r.created
<1>1. /\ DOMAIN row = DOMAIN r
      /\ \A c \in DOMAIN r \ DOMAIN columns : row[c] = r[c]
      /\ \A c \in DOMAIN r \cap DOMAIN columns :
           row[c] = IF columns[c] = Null THEN r[c] ELSE columns[c]
  BY DEF OverlayRow, Rule!Overlay
<1>2. \A c \in DOMAIN row \ {"touch"} : n[c] = row[c]
  BY DEF Retouched
<1>3. LinkColumns \cup {"paid", "created"} \subseteq DOMAIN r \ {"touch"}
  BY DEF Columns, OrderStub, LinkColumns
<1> QED BY <1>1, <1>2, <1>3 DEF Linked

\* The columns of an order's row, after it was created or paid by e.
LEMMA LinkedRow ==
  ASSUME NEW d, NEW e, NEW r, DOMAIN r = Columns("orders"), NEW n,
         n = CreatedOrder(d, e, r) \/ n = PaidOrder(d, e, r)
  PROVE  /\ \A c \in LinkColumns : n[c] = IF e[c] = Null THEN r[c] ELSE e[c]
         /\ n = CreatedOrder(d, e, r) => n.paid = r.paid
         /\ n = PaidOrder(d, e, r) => n.created = r.created
<1>1. ASSUME n = CreatedOrder(d, e, r)
      PROVE  /\ \A c \in LinkColumns : n[c] = IF e[c] = Null THEN r[c] ELSE e[c]
             /\ n.paid = r.paid
  <2> DEFINE columns == Extend(Entity(e), [created |-> e.id, createdAt |-> e.at])
  <2>1. /\ LinkColumns \subseteq DOMAIN columns /\ "paid" \notin DOMAIN columns
        /\ \A c \in LinkColumns : columns[c] = e[c]
    BY DEF Extend, Entity, LinkColumns
  <2> DEFINE row == OverlayRow(r, columns, FALSE)
  <2>2. Retouched(row, n)
    BY <1>1, SnapshotRow DEF CreatedOrder
  <2>3. row = OverlayRow(r, columns, FALSE)
    OBVIOUS
  <2> HIDE DEF columns, row
  <2>4. Linked(r, columns, n) /\ ("paid" \notin DOMAIN columns => n.paid = r.paid)
    BY <2>1, <2>2, <2>3, OverlayLinks
  <2> QED BY <2>1, <2>4 DEF Linked
<1>2. ASSUME n = PaidOrder(d, e, r)
      PROVE  /\ \A c \in LinkColumns : n[c] = IF e[c] = Null THEN r[c] ELSE e[c]
             /\ n.created = r.created
  <2> DEFINE columns == Extend(Entity(e),
               [paid |-> e.id, paidAt |-> e.at, amount |-> e.amount,
                createdAt |-> IF r.createdAt = Null THEN e.at ELSE r.createdAt])
  <2>1. /\ LinkColumns \subseteq DOMAIN columns /\ "created" \notin DOMAIN columns
        /\ \A c \in LinkColumns : columns[c] = e[c]
    BY DEF Extend, Entity, LinkColumns
  <2> DEFINE row == OverlayRow(r, columns, FALSE)
  <2>2. Retouched(row, n)
    BY <1>2, SnapshotRow DEF PaidOrder
  <2>3. row = OverlayRow(r, columns, FALSE)
    OBVIOUS
  <2> HIDE DEF columns, row
  <2>4. Linked(r, columns, n) /\ ("created" \notin DOMAIN columns => n.created = r.created)
    BY <2>1, <2>2, <2>3, OverlayLinks
  <2> QED BY <2>1, <2>4 DEF Linked
<1> QED BY <1>1, <1>2

\* An order is written by each of the events that create or pay it, and what the one
\* said of its links the other does not erase (versioning.py:54).
LEMMA OrdersKeepLinks ==
  ASSUME NEW d, NEW J, NEW e, Sound(d, J), Present(d, e), LinksStand(d, J), Complete(e),
         e.type \in OrderFacts, AgreesWith(J, e)
  PROVE  LinksStand(Dispatch(d, e), J \cup {e})
<1> DEFINE r == Row(d["orders"], e.order)
           n == IF e.type = "order_created" THEN CreatedOrder(d, e, r) ELSE PaidOrder(d, e, r)
           d2 == Dispatch(d, e)
<1>1. r \in d["orders"] /\ r.id = e.order
  BY RowThere DEF Present, Complete, OrderEvents, OrderFacts
<1>2. DOMAIN r = Columns("orders") /\ \A o \in d["orders"] : o.id = e.order => o = r
  <2>1. TableSound(d, J, "orders", d["orders"])
    BY DEF Sound, Tables
  <2> HIDE DEF r
  <2>2. \A o \in d["orders"] : o.id = r.id => o = r
    BY <1>1, <2>1, Zenon DEF TableSound, KeysUnique, Key
  <2>3. DOMAIN r = Columns("orders")
    BY <1>1, <2>1 DEF TableSound, RowSound, Entities
  <2> QED BY <1>1, <2>2, <2>3
<1>3. /\ e.type = "order_created" => r.created = Null
      /\ e.type = "order_paid" => r.paid = Null
  BY <1>1 DEF LinksStand, AgreesWith, OrderFacts
<1> HIDE DEF r
<1>4. /\ d2["orders"] = {IF o.id = n.id THEN n ELSE o : o \in d["orders"]}
      /\ d2["links"] = d["links"]
  <2>1. CASE e.type = "order_created"
    <3>1. d2 = [WithOrder(d, CreatedOrder(d, e, r)) EXCEPT !.lines = Lines(d, e, FALSE)]
      BY <1>3, <2>1 DEF Dispatch, OrderCreated, r
    <3>2. n = CreatedOrder(d, e, r)
      BY <2>1
    <3> HIDE DEF n, d2
    <3> QED BY <3>1, <3>2 DEF WithOrder, Update, Sound, Tables
  <2>2. CASE e.type = "order_paid"
    <3>1. d2 = [WithOrder(d, PaidOrder(d, e, r)) EXCEPT !.lines = Lines(d, e, TRUE)]
      BY <1>3, <2>2 DEF Dispatch, OrderPaid, r
    <3>2. n = PaidOrder(d, e, r)
      BY <2>2
    <3> HIDE DEF n, d2
    <3> QED BY <3>1, <3>2 DEF WithOrder, Update, Sound, Tables
  <2> QED BY <2>1, <2>2 DEF OrderFacts
<1>5. /\ n.id = e.order
      /\ \A c \in LinkColumns : n[c] = IF e[c] = Null THEN r[c] ELSE e[c]
      /\ e.type = "order_created" => n.paid = r.paid
      /\ e.type = "order_paid" => n.created = r.created
  <2>1. n = CreatedOrder(d, e, r) \/ n = PaidOrder(d, e, r)
    OBVIOUS
  <2>2. /\ e.type = "order_created" => n = CreatedOrder(d, e, r)
        /\ e.type = "order_paid" => n = PaidOrder(d, e, r)
    OBVIOUS
  <2> HIDE DEF n
  <2> QED BY <1>1, <1>2, <2>1, <2>2, OrderRow, LinkedRow
<1> HIDE DEF n, d2
<1>6. n \in d2["orders"]
  BY <1>1, <1>4, <1>5
<1>7. ASSUME NEW f \in J \cup {e}, f.type \in OrderFacts
      PROVE  \E o \in d2["orders"] : o.id = f.order /\ Carries(o, f)
  <2>1. CASE f = e
    BY <1>5, <1>6, <2>1 DEF Carries
  <2>2. CASE f \in J /\ f.order # e.order
    <3>1. PICK o \in d["orders"] : o.id = f.order /\ Carries(o, f)
      BY <1>7, <2>2 DEF LinksStand
    <3>2. o \in d2["orders"]
      BY <1>4, <1>5, <2>2, <3>1
    <3> QED BY <3>1, <3>2
  <2>3. CASE f \in J /\ f.order = e.order
    <3>1. Carries(r, f)
      BY <1>2, <1>7, <2>3 DEF LinksStand
    <3>2. ASSUME NEW c \in LinkColumns, f[c] # Null PROVE n[c] = f[c]
      BY <1>5, <1>7, <2>3, <3>1, <3>2 DEF Carries, AgreesWith
    <3> QED BY <1>5, <1>6, <2>3, <3>2 DEF Carries
  <2> QED BY <2>1, <2>2, <2>3
<1>8. ASSUME NEW o \in d2["orders"]
      PROVE  /\ o.created # Null =>
                  \E f \in J \cup {e} : f.type = "order_created" /\ f.order = o.id
             /\ o.paid # Null =>
                  \E f \in J \cup {e} : f.type = "order_paid" /\ f.order = o.id
  <2>1. CASE o \in d["orders"]
    BY <2>1 DEF LinksStand
  <2>2. CASE o = n
    <3>1. /\ r.created # Null => \E f \in J : f.type = "order_created" /\ f.order = e.order
          /\ r.paid # Null => \E f \in J : f.type = "order_paid" /\ f.order = e.order
      BY <1>1 DEF LinksStand
    <3> QED BY <1>5, <2>2, <3>1 DEF OrderFacts
  <2> QED BY <1>4, <2>1, <2>2
<1>9. \A f \in J \cup {e} : f.type = "customer_linked" =>
        \E k \in d2["links"] : k.visitor = f.visitor /\ k.customer = f.customer
  BY <1>4 DEF LinksStand, OrderFacts
<1> QED BY <1>7, <1>8, <1>9 DEF LinksStand, d2

LEMMA InitLinks == Init => LinksStand(db, journal)
BY DEF Init, DataInit, LinksStand, Tables

LEMMA IngestLinks ==
  ASSUME OrdersAgree, Inv, LinksStand(db, journal), NEW e, Ingest(e)
  PROVE  LinksStand(db, journal)'
<1> DEFINE d == EnsureStubs(db, e)
           J == journal \cup {e}
<1>1. PICK H \in Histories : journal \cup pending \subseteq H
  BY DEF Inv
<1>2. e \in H /\ journal \subseteq H /\ e \notin journal
  BY <1>1 DEF Inv, Ingest
<1>3. Complete(e)
  BY <1>2, HistoriesAssumption
<1>4. e.type \in OrderFacts => AgreesWith(journal, e)
  BY <1>2 DEF OrdersAgree, AgreesWith, LinkColumns
<1>5. Sound(d, journal) /\ Present(d, e)
  BY StubsSound DEF Inv
<1>6. LinksStand(d, journal)
  BY StubsKeepLinks DEF Inv
<1> HIDE DEF d
<1>7. LinksStand(Dispatch(d, e), J)
  BY <1>3, <1>4, <1>5, <1>6, OrdersKeepLinks, OthersKeepLinks
<1> QED BY <1>7 DEF Ingest, d, J

LEMMA StepLinks ==
  OrdersAgree /\ Inv /\ LinksStand(db, journal) /\ [Next]_vars => LinksStand(db, journal)'
<1> SUFFICES ASSUME OrdersAgree, Inv, LinksStand(db, journal), [Next]_vars
             PROVE  LinksStand(db, journal)'
  OBVIOUS
<1>1. CASE \E e \in pending : Arrive(e)
  BY <1>1, IngestLinks DEF Arrive
<1>2. CASE UNCHANGED <<db, journal>>
  BY <1>2 DEF LinksStand
<1> QED
  BY <1>1, <1>2 DEF Next, Request, RunStatement, Answer, Reject, Refuse, vars, dataVars

Linking == Inv /\ RefundsStand(db, journal) /\ LinksStand(db, journal)

\* The links that an event of the journal names lead to the events of all it names
\* (scope.py:8-60).
LEMMA OrderTold ==
  ASSUME Linking, NEW e \in journal, e.type \in OrderFacts
  PROVE  LET own == Naming("order", e.order)
             journey == EventsOf(OrderJourney(e.order))
         IN /\ \A c \in {"order", "lead", "visitor", "cart"} :
                 e[c] # Null => Naming(c, e[c]) \subseteq journey
            /\ e.lead # Null => own \subseteq EventsOf(LeadJourney(e.lead))
            /\ e.customer # Null => own \subseteq EventsOf(CustomerJourney(e.customer))
<1> DEFINE ofOrder == {x \in journal : OrderScope(x, e.order)}
           ofLead == {x \in journal : LeadScope(x, e.lead)}
           ofCustomer == {x \in journal : CustomerScope(x, e.customer)}
<1>1. PICK o \in db["orders"] : o.id = e.order /\ Carries(o, e)
  BY DEF Linking, LinksStand
<1>2. e.order # Null
  BY <1>1 DEF Linking, RefundsStand, Ids
<1>3. /\ e.lead # Null => o.lead = e.lead
      /\ e.visitor # Null => o.visitor = e.visitor
      /\ e.cart # Null => o.cart = e.cart
      /\ e.customer # Null => o.customer = e.customer
  BY <1>1 DEF Carries, LinkColumns
<1>4. \A x : /\ x.order = e.order => OrderScope(x, e.order)
             /\ e.lead # Null /\ x.lead = e.lead => OrderScope(x, e.order)
             /\ e.visitor # Null /\ x.visitor = e.visitor => OrderScope(x, e.order)
             /\ e.cart # Null /\ x.cart = e.cart => OrderScope(x, e.order)
  BY <1>1, <1>3 DEF OrderScope, In
<1>5. \A x : e.lead # Null /\ x.order = e.order => LeadScope(x, e.lead)
  BY <1>1, <1>2, <1>3 DEF LeadScope, In
<1>6. \A x : e.customer # Null /\ x.order = e.order => CustomerScope(x, e.customer)
  BY <1>1, <1>2, <1>3 DEF CustomerScope, In
<1>7. /\ \A c \in {"order", "lead", "visitor", "cart"} :
           e[c] # Null => Naming(c, e[c]) \subseteq {x.id : x \in ofOrder}
      /\ e.lead # Null => Naming("order", e.order) \subseteq {x.id : x \in ofLead}
      /\ e.customer # Null => Naming("order", e.order) \subseteq {x.id : x \in ofCustomer}
  BY <1>4, <1>5, <1>6 DEF Naming
<1>8. /\ {x.id : x \in ofOrder} \subseteq EventsOf(JourneyOf(ofOrder))
      /\ {x.id : x \in ofLead} \subseteq EventsOf(JourneyOf(ofLead))
      /\ {x.id : x \in ofCustomer} \subseteq EventsOf(JourneyOf(ofCustomer))
  <2>1. Inv /\ {ofOrder, ofLead, ofCustomer} \subseteq SUBSET journal
    BY DEF Linking
  <2> HIDE DEF ofOrder, ofLead, ofCustomer
  <2> QED BY <2>1, ScopeTold
<1>9. /\ OrderJourney(e.order) = JourneyOf(ofOrder)
      /\ LeadJourney(e.lead) = JourneyOf(ofLead)
      /\ CustomerJourney(e.customer) = JourneyOf(ofCustomer)
  BY JourneysAreScopes DEF JourneysOfScopes
<1> HIDE DEF ofOrder, ofLead, ofCustomer
<1> QED BY <1>7, <1>8, <1>9

LEMMA CustomerTold ==
  ASSUME Linking, NEW e \in journal, e.type = "customer_linked", e.visitor # Null
  PROVE  Naming("visitor", e.visitor) \subseteq EventsOf(CustomerJourney(e.customer))
<1> DEFINE ofCustomer == {x \in journal : CustomerScope(x, e.customer)}
<1>1. \E k \in db["links"] : k.visitor = e.visitor /\ k.customer = e.customer
  BY DEF Linking, LinksStand
<1>2. \A x : x.visitor = e.visitor => CustomerScope(x, e.customer)
  BY <1>1 DEF CustomerScope, In
<1>3. Naming("visitor", e.visitor) \subseteq {x.id : x \in ofCustomer}
  BY <1>2 DEF Naming
<1>4. {x.id : x \in ofCustomer} \subseteq EventsOf(JourneyOf(ofCustomer))
  <2>1. Inv /\ ofCustomer \in SUBSET journal
    BY DEF Linking
  <2> HIDE DEF ofCustomer
  <2> QED BY <2>1, ScopeTold
<1>5. CustomerJourney(e.customer) = JourneyOf(ofCustomer)
  BY JourneysAreScopes DEF JourneysOfScopes
<1> HIDE DEF ofCustomer
<1> QED BY <1>3, <1>4, <1>5

\* A refund shown as invalid has an order with another currency (repository.py:80).
LEMMA RefundTold ==
  ASSUME Linking, NEW e \in journal, e.type = "refund_created",
         NEW i \in DOMAIN OrderJourney(e.order),
         OrderJourney(e.order)[i].event = e.id, OrderJourney(e.order)[i].invalid
  PROVE  \E o \in db["orders"] : o.id = e.order /\ o.currency \notin {Null, e.currency}
<1> DEFINE ofOrder == {x \in journal : OrderScope(x, e.order)}
<1>1. OrderJourney(e.order) = JourneyOf(ofOrder)
  BY JourneysAreScopes DEF JourneysOfScopes
<1>2. Timed(journal) /\ Timed(ofOrder)
  BY JournalTimed DEF Linking
<1>3. PICK f \in ofOrder : JourneyOf(ofOrder)[i] = Shown(f)
  <2> HIDE DEF ofOrder
  <2> QED BY <1>1, <1>2, JourneyWhole
<1>4. f.id = e.id /\ f \in journal
  BY <1>1, <1>3 DEF Shown
<1>5. f = e
  BY <1>2, <1>4 DEF Timed
<1>6. Shown(e).invalid
  BY <1>1, <1>3, <1>5
<1>7. PICK r \in db["refunds"] : RefundEvent(r, e)
  BY DEF Linking, RefundsStand
<1>8. PICK o \in db["orders"] : o.id = e.order
  BY <1>7 DEF Linking, Inv, Sound, TableSound, RowSound, Tables, Ids, RefundEvent
<1>9. o.currency # Null /\ e.currency # o.currency
  BY <1>6, <1>8, RefundShown DEF Linking
<1> QED BY <1>8, <1>9

LEMMA LinkedJourneys == Linking => JourneysLinked
BY OrderTold, CustomerTold, RefundTold DEF JourneysLinked

\* Where OrdersAgree: whatever history arrives, in whatever order, once an event that
\* creates or pays an order has named its lead, visitor, cart or customer, the journeys
\* tell the events of both together, though events before or after it do not name them;
\* the customer's journey has the events of every visitor linked to him, and a refund
\* is shown as invalid only while its order has another currency
\* (order_created.py:65-71, order_paid.py:48-53, scope.py:8-60, repository.py:80).
THEOREM JourneysLinkedAlways ==
  ASSUME OrdersAgree
  PROVE  Spec => []JourneysLinked
<1>1. Init => Linking
  BY InitInv, InitRefunds, InitLinks DEF Linking
<1>2. Linking /\ [Next]_vars => Linking'
  BY StepInv, StepRefunds, StepLinks DEF Linking
<1>3. Linking => JourneysLinked
  BY LinkedJourneys
<1> QED BY <1>1, <1>2, <1>3, PTL DEF Spec

-----------------------------------------------------------------------------
(* Search *)

HitTypes == {"visitor", "session", "lead", "order", "customer", "contact", "manual_sale"}
IdsOf(e) == {e.visitor, e.session, e.lead, e.order, e.customer, e.contact, e.sale}
HitsOf(e) == {Hit(e, type, i) : type \in HitTypes, i \in IdsOf(e)}

\* One hit or none.
AtMostOne(S, t) == t = <<>> \/ \E h \in S : t = <<h>>

LEMMA Joined ==
  ASSUME NEW S, NEW s \in Seq(S), NEW n \in Nat, Len(s) <= n, NEW t, AtMostOne(S, t)
  PROVE  /\ s \o t \in Seq(S) /\ Len(s \o t) <= n + 1
         /\ s \o t = <<>> <=> s = <<>> /\ t = <<>>
<1>1. CASE t = <<>>
  <2>1. s \o <<>> = s /\ Len(s) \in Nat
    BY ConcatEmptySeq
  <2> QED BY <1>1, <2>1
<1>2. ASSUME NEW h \in S, t = <<h>>
      PROVE  /\ s \o t \in Seq(S) /\ Len(s \o t) <= n + 1
             /\ s \o t = <<>> <=> s = <<>> /\ t = <<>>
  <2>1. t \in Seq(S) /\ Len(t) = 1 /\ Len(s) \in Nat
    BY <1>2
  <2>2. s \o t \in Seq(S) /\ Len(s \o t) = Len(s) + Len(t)
    BY <2>1, ConcatProperties
  <2>3. s \o t # <<>> /\ t # <<>>
    BY <2>1, <2>2
  <2> QED BY <2>1, <2>2, <2>3
<1> QED BY <1>1, <1>2 DEF AtMostOne

LEMMA Single ==
  ASSUME NEW S, NEW t, AtMostOne(S, t)
  PROVE  t \in Seq(S) /\ Len(t) <= 1
<1>1. CASE t = <<>>
  BY <1>1
<1>2. CASE \E h \in S : t = <<h>>
  BY <1>2
<1> QED BY <1>1, <1>2 DEF AtMostOne

\* The hits of an event are at its time; there are seven at most, and none exactly
\* if the event is not selected.
LEMMA HitsTyped ==
  ASSUME NEW e, Identified(e), NEW q, q # Null
  PROVE  /\ Hits(e, q) \in Seq(HitsOf(e)) /\ Len(Hits(e, q)) <= 7
         /\ Hits(e, q) # <<>> <=> SearchClause(e, q)
<1> DEFINE S == HitsOf(e)
<1>0. \A type \in HitTypes, i \in IdsOf(e) : Hit(e, type, i) \in S
  BY DEF HitsOf
<1> HIDE DEF S
<1>1. CASE Mode(q) = "uuid"
  <2> DEFINE t1 == HitIf(e.visitor = q, e, "visitor", q)
             t2 == HitIf(e.session = q, e, "session", q)
  <2>1. Hits(e, q) = t1 \o t2
    BY <1>1, Zenon DEF Hits
  <2>2. /\ AtMostOne(S, t1) /\ (t1 = <<>> <=> e.visitor # q)
        /\ AtMostOne(S, t2) /\ (t2 = <<>> <=> e.session # q)
    BY <1>0 DEF HitIf, AtMostOne, HitTypes, IdsOf
  <2> HIDE DEF t1, t2
  <2>3. t1 \in Seq(S) /\ Len(t1) <= 1
    BY <2>2, Single
  <2>4. t1 \o t2 \in Seq(S) /\ Len(t1 \o t2) <= 2 /\ (t1 \o t2 = <<>> <=> t1 = <<>> /\ t2 = <<>>)
    BY <2>2, <2>3, Joined
  <2>5. Len(t1 \o t2) <= 7
    <3>1. Len(t1 \o t2) \in Nat
      BY <2>4
    <3> QED BY <2>4, <3>1
  <2>6. SearchClause(e, q) <=> e.visitor = q \/ e.session = q
    BY <1>1 DEF SearchClause
  <2> QED BY <2>1, <2>2, <2>4, <2>5, <2>6 DEF S
<1>2. CASE Mode(q) = "hex"
  <2> DEFINE t1 == HitIf(e.lead = q, e, "lead", q)
             t2 == HitIf(e.order = q, e, "order", q)
             t3 == HitIf(e.customer = q, e, "customer", q)
             t4 == HitIf(e.contact = q, e, "contact", q)
             t5 == HitIf(e.sale = q, e, "manual_sale", q)
             s2 == t1 \o t2
             s3 == s2 \o t3
             s4 == s3 \o t4
             s5 == s4 \o t5
  <2>1. Hits(e, q) = s5
    BY <1>2 DEF Hits
  <2>2. /\ AtMostOne(S, t1) /\ (t1 = <<>> <=> e.lead # q)
        /\ AtMostOne(S, t2) /\ (t2 = <<>> <=> e.order # q)
        /\ AtMostOne(S, t3) /\ (t3 = <<>> <=> e.customer # q)
        /\ AtMostOne(S, t4) /\ (t4 = <<>> <=> e.contact # q)
        /\ AtMostOne(S, t5) /\ (t5 = <<>> <=> e.sale # q)
    BY <1>0 DEF HitIf, AtMostOne, HitTypes, IdsOf
  <2> HIDE DEF t1, t2, t3, t4, t5
  <2>3. t1 \in Seq(S) /\ Len(t1) <= 1
    BY <2>2, Single
  <2>4. s2 \in Seq(S) /\ Len(s2) <= 2 /\ (s2 = <<>> <=> t1 = <<>> /\ t2 = <<>>)
    BY <2>2, <2>3, Joined
  <2> HIDE DEF s2
  <2>5. s3 \in Seq(S) /\ Len(s3) <= 3 /\ (s3 = <<>> <=> s2 = <<>> /\ t3 = <<>>)
    BY <2>2, <2>4, Joined
  <2> HIDE DEF s3
  <2>6. s4 \in Seq(S) /\ Len(s4) <= 4 /\ (s4 = <<>> <=> s3 = <<>> /\ t4 = <<>>)
    BY <2>2, <2>5, Joined
  <2> HIDE DEF s4
  <2>7. s5 \in Seq(S) /\ Len(s5) <= 5 /\ (s5 = <<>> <=> s4 = <<>> /\ t5 = <<>>)
    BY <2>2, <2>6, Joined
  <2> HIDE DEF s5
  <2>8. Len(s5) <= 7
    <3>1. Len(s5) \in Nat
      BY <2>7
    <3> QED BY <2>7, <3>1
  <2>9. SearchClause(e, q) <=> q \in {e.lead, e.order, e.customer, e.contact, e.sale}
    BY <1>2 DEF SearchClause
  <2> QED BY <2>1, <2>2, <2>4, <2>5, <2>6, <2>7, <2>8, <2>9 DEF S
<1>3. CASE Mode(q) = "text"
  <2> DEFINE via == q \in SearchChannels /\ q \in {e.contactChannel, e.channel}
             t1 == HitIf(e.number = q /\ e.order # Null, e, "order", e.order)
             t2 == HitIf(q \in {e.gclid, e.gbraid, e.wbraid} /\ e.visitor # Null,
                         e, "visitor", e.visitor)
             t3 == HitIf(e.tracking = q /\ e.contact # Null, e, "contact", e.contact)
             t4 == HitIf(e.campaign = q /\ e.visitor # Null, e, "visitor", e.visitor)
             t5 == HitIf(via /\ e.contact # Null, e, "contact", e.contact)
             t6 == HitIf(via /\ e.lead # Null, e, "lead", e.lead)
             t7 == HitIf(via /\ e.visitor # Null /\ e.contact = Null /\ e.lead = Null,
                         e, "visitor", e.visitor)
             s2 == t1 \o t2
             s3 == s2 \o t3
             s4 == s3 \o t4
             s5 == s4 \o t5
             s6 == s5 \o t6
             s7 == s6 \o t7
  <2>1. Hits(e, q) = s7
    BY <1>3 DEF Hits
  <2>2. /\ AtMostOne(S, t1) /\ (t1 = <<>> <=> ~(e.number = q /\ e.order # Null))
        /\ AtMostOne(S, t2)
        /\ (t2 = <<>> <=> ~(q \in {e.gclid, e.gbraid, e.wbraid} /\ e.visitor # Null))
        /\ AtMostOne(S, t3) /\ (t3 = <<>> <=> ~(e.tracking = q /\ e.contact # Null))
        /\ AtMostOne(S, t4) /\ (t4 = <<>> <=> ~(e.campaign = q /\ e.visitor # Null))
    BY <1>0 DEF HitIf, AtMostOne, HitTypes, IdsOf
  <2>3. /\ AtMostOne(S, t5) /\ (t5 = <<>> <=> ~(via /\ e.contact # Null))
        /\ AtMostOne(S, t6) /\ (t6 = <<>> <=> ~(via /\ e.lead # Null))
        /\ AtMostOne(S, t7)
        /\ (t7 = <<>> <=> ~(via /\ e.visitor # Null /\ e.contact = Null /\ e.lead = Null))
    BY <1>0 DEF HitIf, AtMostOne, HitTypes, IdsOf
  <2> HIDE DEF t1, t2, t3, t4, t5, t6, t7
  <2>4. t1 \in Seq(S) /\ Len(t1) <= 1
    BY <2>2, Single
  <2>5. s2 \in Seq(S) /\ Len(s2) <= 2 /\ (s2 = <<>> <=> t1 = <<>> /\ t2 = <<>>)
    BY <2>2, <2>4, Joined
  <2> HIDE DEF s2
  <2>6. s3 \in Seq(S) /\ Len(s3) <= 3 /\ (s3 = <<>> <=> s2 = <<>> /\ t3 = <<>>)
    BY <2>2, <2>5, Joined
  <2> HIDE DEF s3
  <2>7. s4 \in Seq(S) /\ Len(s4) <= 4 /\ (s4 = <<>> <=> s3 = <<>> /\ t4 = <<>>)
    BY <2>2, <2>6, Joined
  <2> HIDE DEF s4
  <2>8. s5 \in Seq(S) /\ Len(s5) <= 5 /\ (s5 = <<>> <=> s4 = <<>> /\ t5 = <<>>)
    BY <2>3, <2>7, Joined
  <2> HIDE DEF s5
  <2>9. s6 \in Seq(S) /\ Len(s6) <= 6 /\ (s6 = <<>> <=> s5 = <<>> /\ t6 = <<>>)
    BY <2>3, <2>8, Joined
  <2> HIDE DEF s6
  <2>10. s7 \in Seq(S) /\ Len(s7) <= 7 /\ (s7 = <<>> <=> s6 = <<>> /\ t7 = <<>>)
    BY <2>3, <2>9, Joined
  <2> HIDE DEF s7
  <2>11. SearchClause(e, q) <=>
           q \in {e.number, e.gclid, e.gbraid, e.wbraid, e.tracking, e.campaign} \/ via
    BY <1>3 DEF SearchClause
  <2>12. /\ e.number = q => e.order # Null
         /\ q \in {e.gclid, e.gbraid, e.wbraid, e.campaign} => e.visitor # Null
         /\ e.tracking = q => e.contact # Null
         /\ via => e.contact # Null \/ e.lead # Null \/ e.visitor # Null
    BY DEF Identified
  <2> HIDE DEF via
  <2>13. s7 # <<>> <=> SearchClause(e, q)
    BY <2>2, <2>3, <2>5, <2>6, <2>7, <2>8, <2>9, <2>10, <2>11, <2>12
  <2> QED BY <2>1, <2>10, <2>13 DEF S
<1> QED BY <1>1, <1>2, <1>3 DEF Mode

\* The first n.
LEMMA FirstPart ==
  ASSUME NEW S, NEW s \in Seq(S), NEW n \in Nat
  PROVE  \E k \in Nat :
           /\ k <= n /\ k <= Len(s) /\ (Len(s) <= n => k = Len(s))
           /\ DOMAIN First(n, s) = 1 .. k /\ Len(First(n, s)) = k
           /\ \A i \in 1 .. k : First(n, s)[i] = s[i]
<1> DEFINE m == Len(s)
           k == IF m < n THEN m ELSE n
           r == SubSeq(s, 1, k)
<1>1. m \in Nat /\ \A i \in 1 .. m : s[i] \in S
  OBVIOUS
<1>2. First(n, s) = r
  BY DEF First
<1> HIDE DEF m
<1>3. k \in Nat /\ k <= n /\ k <= m /\ (m <= n => k = m)
  BY <1>1
<1> HIDE DEF k
<1>4. \A i \in 1 .. k : s[i] \in S
  BY <1>1, <1>3
<1>5. /\ r \in Seq(S) /\ Len(r) = IF 1 <= k THEN k - 1 + 1 ELSE 0
      /\ \A i \in 1 .. k - 1 + 1 : r[i] = s[1 + i - 1]
  BY <1>3, <1>4, SubSeqProperties
<1>6. Len(r) = k /\ DOMAIN r = 1 .. k /\ \A i \in 1 .. k : r[i] = s[i]
  BY <1>3, <1>5
<1> QED BY <1>2, <1>3, <1>6 DEF m

EntityOf(h) == [type |-> h.type, id |-> h.id]

LEMMA EntityIsSame == \A h, g : EntityOf(h) = EntityOf(g) <=> SameEntity(h, g)
BY DEF EntityOf, SameEntity

\* Places of hits.
Scanned(hit) == IsFiniteSet(DOMAIN hit) /\ DOMAIN hit \subseteq Nat \X Nat

LEMMA EarlierOrders ==
  /\ \A p \in Nat \X Nat : ~Earlier(p, p)
  /\ \A p, r \in Nat \X Nat : p = r \/ Earlier(p, r) \/ Earlier(r, p)
  /\ \A p, r, s \in Nat \X Nat : Earlier(p, r) /\ Earlier(r, s) => Earlier(p, s)
BY DEF Earlier

LEMMA PlacesOrdered ==
  ASSUME NEW at, IsFiniteSet(at), at \subseteq Nat \X Nat
  PROVE  Ordered(at, [p \in at |-> {r \in at : Earlier(r, p)}])
<1> DEFINE before == [p \in at |-> {r \in at : Earlier(r, p)}]
<1>1. before \in [at -> SUBSET at]
  OBVIOUS
<1>2. \A x \in at : x \notin before[x]
  BY EarlierOrders
<1>3. \A x, y \in at : x = y \/ x \in before[y] \/ y \in before[x]
  BY EarlierOrders
<1>4. \A x, y \in at : x \in before[y] => before[x] \subseteq before[y]
  BY EarlierOrders
<1> QED BY <1>1, <1>2, <1>3, <1>4 DEF Ordered

\* Every entity that is hit is hit first somewhere, and there before any other hit of it.
LEMMA FirstHitOf ==
  ASSUME NEW hit, Scanned(hit), NEW p \in DOMAIN hit
  PROVE  \E r \in FirstHits(hit) : SameEntity(hit[r], hit[p])
<1> DEFINE T == {r \in DOMAIN hit : SameEntity(hit[r], hit[p])}
           before == [x \in T |-> {r \in T : Earlier(r, x)}]
           s == Sorted(T, before)
<1>1. T \in SUBSET DOMAIN hit /\ p \in T
  BY DEF SameEntity
<1>2. IsFiniteSet(T) /\ T \subseteq Nat \X Nat
  BY <1>1, FS_Subset DEF Scanned
<1>3. \A x \in T, r \in DOMAIN hit : SameEntity(hit[r], hit[x]) => r \in T
  BY DEF SameEntity
<1>4. \A x, r \in T : Earlier(r, x) => r \in before[x]
  OBVIOUS
<1>5. \A x \in T : SameEntity(hit[x], hit[p])
  OBVIOUS
<1> HIDE DEF T
<1>6. Ordered(T, before)
  BY <1>2, PlacesOrdered
<1> HIDE DEF before, s
<1>7. /\ Cardinality(T) \in Nat /\ s \in [1 .. Cardinality(T) -> T]
      /\ \A x \in T : \E i \in 1 .. Cardinality(T) : s[i] = x
      /\ \A i, j \in 1 .. Cardinality(T) : i < j => s[i] \in before[s[j]]
  BY <1>6, SortedWhole DEF s
<1>8. 1 \in 1 .. Cardinality(T)
  BY <1>1, <1>7
<1>9. \A r \in T : ~Earlier(r, s[1])
  <2> SUFFICES ASSUME NEW r \in T, Earlier(r, s[1]) PROVE FALSE
    OBVIOUS
  <2>1. PICK j \in 1 .. Cardinality(T) : s[j] = r
    BY <1>7
  <2>2. r # s[1]
    BY <1>2, EarlierOrders
  <2>3. s[1] \in before[r] /\ r \in before[s[1]]
    BY <1>4, <1>7, <1>8, <2>1, <2>2
  <2>4. before[r] \subseteq before[s[1]] /\ s[1] \notin before[s[1]]
    BY <1>6, <1>7, <1>8, <2>3 DEF Ordered
  <2> QED BY <2>3, <2>4
<1>10. s[1] \in T
  BY <1>7, <1>8
<1>11. s[1] \in FirstHits(hit)
  BY <1>1, <1>3, <1>9, <1>10 DEF FirstHits
<1> QED BY <1>5, <1>10, <1>11

\* Distinct tells each entity once, by its first hit.
LEMMA DistinctWhole ==
  ASSUME NEW hit, Scanned(hit)
  PROVE  \E m \in Nat : \E at \in [1 .. m -> FirstHits(hit)] :
           /\ Distinct(hit) = [k \in 1 .. m |-> hit[at[k]]]
           /\ \A p \in FirstHits(hit) : \E k \in 1 .. m : at[k] = p
           /\ \A k, l \in 1 .. m : SameEntity(hit[at[k]], hit[at[l]]) => k = l
<1> DEFINE new == FirstHits(hit)
           before == [p \in new |-> {r \in new : Earlier(r, p)}]
           at == Sorted(new, before)
           m == Cardinality(new)
<1>1. new \in SUBSET DOMAIN hit
  BY DEF FirstHits
<1>2. IsFiniteSet(new) /\ new \subseteq Nat \X Nat
  BY <1>1, FS_Subset DEF Scanned
<1>3. \A x, r \in new : r \in before[x] => Earlier(r, x)
  OBVIOUS
<1>4. Distinct(hit) = [k \in DOMAIN at |-> hit[at[k]]]
  BY DEF Distinct
<1>5. \A p, r \in new : Earlier(r, p) => ~SameEntity(hit[r], hit[p])
  BY <1>1 DEF FirstHits
<1> HIDE DEF new
<1>6. Ordered(new, before)
  BY <1>2, PlacesOrdered
<1> HIDE DEF before, at, m
<1>7. /\ m \in Nat /\ at \in [1 .. m -> new]
      /\ \A p \in new : \E k \in 1 .. m : at[k] = p
      /\ \A k, l \in 1 .. m : k < l => at[k] \in before[at[l]]
  BY <1>6, SortedWhole DEF at, m
<1>8. ASSUME NEW k \in 1 .. m, NEW l \in 1 .. m, SameEntity(hit[at[k]], hit[at[l]])
      PROVE  k = l
  <2>1. SameEntity(hit[at[l]], hit[at[k]])
    BY <1>8 DEF SameEntity
  <2>2. ~(k < l) /\ ~(l < k)
    BY <1>3, <1>5, <1>7, <1>8, <2>1
  <2> QED BY <1>7, <2>2
<1>9. DOMAIN at = 1 .. m
  BY <1>7
<1> QED BY <1>4, <1>7, <1>8, <1>9 DEF new

\* The events that a search scans, and their hits.
Matched(q) == {e \in journal : SearchClause(e, q)}
Events(q) == First(ScanLimit, Listed(Matched(q)))

\* What a search finds, by the events it scans: each entity that they hit, once, by
\* its first hit; up to the limit.
LEMMA SearchFinds ==
  ASSUME NEW q \in Queries, Timed(journal), \A e \in journal : Identified(e)
  PROVE  /\ \A h \in ToSet(Search(q)) : \E e \in Matched(q) :
              /\ h \in ToSet(Hits(e, q))
              /\ \A g \in Matched(q) : \A k \in ToSet(Hits(g, q)) :
                   SameEntity(h, k) => h.at <= k.at
         /\ Len(Search(q)) = Cardinality({EntityOf(h) : h \in ToSet(Search(q))})
         /\ /\ Cardinality(Matched(q)) <= ScanLimit
            /\ Cardinality(UNION {{EntityOf(h) : h \in ToSet(Hits(e, q))} : e \in Matched(q)})
                 <= HitLimit
            => \A e \in Matched(q) : \A k \in ToSet(Hits(e, q)) :
                 \E h \in ToSet(Search(q)) : SameEntity(h, k)
<1> DEFINE M == Matched(q)
           L == Listed(M)
           E == Events(q)
           hit == HitsAt(E, q)
           R == Search(q)
<1>0. q # Null /\ ScanLimit \in Nat /\ HitLimit \in Nat
  BY SearchAssumption
<1>1. M \in SUBSET journal
  BY DEF Matched
<1>2. Timed(M)
  BY <1>1, FS_Subset DEF Timed
<1>3. ASSUME NEW e \in M
      PROVE  /\ Hits(e, q) \in Seq(HitsOf(e)) /\ Len(Hits(e, q)) \in Nat
             /\ DOMAIN Hits(e, q) = 1 .. Len(Hits(e, q)) /\ DOMAIN Hits(e, q) \subseteq 1 .. 7
             /\ \A j \in DOMAIN Hits(e, q) : Hits(e, q)[j].at = e.at
  <2>1. Hits(e, q) \in Seq(HitsOf(e)) /\ Len(Hits(e, q)) <= 7
    BY <1>0, <1>1, HitsTyped
  <2>2. \A h \in HitsOf(e) : h.at = e.at
    BY DEF HitsOf, Hit
  <2>3. \A j \in DOMAIN Hits(e, q) : Hits(e, q)[j] \in HitsOf(e)
    BY <2>1
  <2>4. /\ Len(Hits(e, q)) \in Nat /\ DOMAIN Hits(e, q) = 1 .. Len(Hits(e, q))
        /\ DOMAIN Hits(e, q) \subseteq 1 .. 7
    BY <2>1
  <2> QED BY <2>1, <2>2, <2>3, <2>4
<1>4. R = First(HitLimit, Distinct(hit))
  BY DEF Search, Events, Matched
<1>5. E = First(ScanLimit, L)
  BY DEF Events
<1> DEFINE n == Cardinality(M)
<1> HIDE DEF M, L, E, R, n
<1>6. /\ n \in Nat /\ L \in [1 .. n -> M]
      /\ \A x \in M : \E i \in 1 .. n : L[i] = x
      /\ \A i, j \in 1 .. n : i < j => Before(L[i], L[j])
  BY <1>2, ListedWhole DEF L, n
<1>7. PICK m \in Nat : /\ m <= ScanLimit /\ m <= n /\ (n <= ScanLimit => m = n)
                       /\ DOMAIN E = 1 .. m /\ \A i \in 1 .. m : E[i] = L[i]
  <2>1. ScanLimit \in Nat /\ L \in Seq(M) /\ Len(L) = n
    BY <1>0, <1>6
  <2>2. \E k \in Nat :
          /\ k <= ScanLimit /\ k <= n /\ (n <= ScanLimit => k = n)
          /\ DOMAIN First(ScanLimit, L) = 1 .. k /\ Len(First(ScanLimit, L)) = k
          /\ \A i \in 1 .. k : First(ScanLimit, L)[i] = L[i]
    BY <2>1, FirstPart
  <2> QED BY <1>5, <2>2
<1>8. \A i \in 1 .. m : i \in 1 .. n /\ E[i] \in M
  BY <1>6, <1>7
<1>9. /\ \A i \in 1 .. m : \A j \in DOMAIN Hits(E[i], q) :
           <<i, j>> \in DOMAIN hit /\ hit[<<i, j>>] = Hits(E[i], q)[j]
      /\ \A p \in DOMAIN hit : /\ p[1] \in 1 .. m /\ p[2] \in DOMAIN Hits(E[p[1]], q)
                               /\ p = <<p[1], p[2]>> /\ hit[p] = Hits(E[p[1]], q)[p[2]]
  <2> DEFINE at == UNION {{<<i, j>> : j \in DOMAIN Hits(E[i], q)} : i \in DOMAIN E}
  <2>1. hit = [p \in at |-> Hits(E[p[1]], q)[p[2]]]
    BY DEF HitsAt
  <2>2. \A p : p \in at <=> \E i \in 1 .. m : \E j \in DOMAIN Hits(E[i], q) : p = <<i, j>>
    BY <1>7
  <2> HIDE DEF at, hit
  <2>3. DOMAIN hit = at /\ \A p \in at : hit[p] = Hits(E[p[1]], q)[p[2]]
    BY <2>1
  <2> QED BY <2>2, <2>3
<1> HIDE DEF hit
<1>10. Scanned(hit)
  <2>1. DOMAIN hit \in SUBSET ((1 .. m) \X (1 .. 7))
    BY <1>3, <1>8, <1>9
  <2>2. IsFiniteSet(1 .. m) /\ IsFiniteSet(1 .. 7)
    <3>1. 1 \in Int /\ m \in Int /\ 7 \in Int
      OBVIOUS
    <3> QED BY <3>1, FS_Interval
  <2>3. IsFiniteSet((1 .. m) \X (1 .. 7))
    BY <2>2, FS_Product
  <2>4. IsFiniteSet(DOMAIN hit)
    BY <2>1, <2>3, FS_Subset
  <2>5. DOMAIN hit \subseteq Nat \X Nat
    BY <2>1
  <2> QED BY <2>4, <2>5 DEF Scanned
<1>11. PICK w \in Nat : \E f \in [1 .. w -> FirstHits(hit)] :
         /\ Distinct(hit) = [k \in 1 .. w |-> hit[f[k]]]
         /\ \A p \in FirstHits(hit) : \E k \in 1 .. w : f[k] = p
         /\ \A k, l \in 1 .. w : SameEntity(hit[f[k]], hit[f[l]]) => k = l
  BY <1>10, DistinctWhole
<1>12. PICK at \in [1 .. w -> FirstHits(hit)] :
         /\ Distinct(hit) = [k \in 1 .. w |-> hit[at[k]]]
         /\ \A p \in FirstHits(hit) : \E k \in 1 .. w : at[k] = p
         /\ \A k, l \in 1 .. w : SameEntity(hit[at[k]], hit[at[l]]) => k = l
  BY <1>11
<1>13. PICK r \in Nat : /\ r <= HitLimit /\ r <= w /\ (w <= HitLimit => r = w)
                        /\ DOMAIN R = 1 .. r /\ Len(R) = r
                        /\ \A k \in 1 .. r : R[k] = hit[at[k]]
  <2> DEFINE S == {hit[at[k]] : k \in 1 .. w}
  <2>1. Distinct(hit) \in [1 .. w -> S]
    BY <1>12
  <2> HIDE DEF S
  <2>2. PICK c \in Nat : /\ c <= HitLimit /\ c <= w /\ (w <= HitLimit => c = w)
                         /\ DOMAIN R = 1 .. c /\ Len(R) = c
                         /\ \A k \in 1 .. c : R[k] = Distinct(hit)[k]
    <3> DEFINE D == Distinct(hit)
    <3>1. HitLimit \in Nat /\ D \in Seq(S) /\ Len(D) = w /\ R = First(HitLimit, D)
      BY <1>0, <1>4, <2>1
    <3> HIDE DEF D
    <3>2. \E c \in Nat :
            /\ c <= HitLimit /\ c <= w /\ (w <= HitLimit => c = w)
            /\ DOMAIN First(HitLimit, D) = 1 .. c /\ Len(First(HitLimit, D)) = c
            /\ \A k \in 1 .. c : First(HitLimit, D)[k] = D[k]
      BY <3>1, FirstPart
    <3> QED BY <3>1, <3>2 DEF D
  <2>3. \A k \in 1 .. c : k \in 1 .. w
    BY <2>2
  <2>4. \A k \in 1 .. c : R[k] = hit[at[k]]
    BY <1>12, <2>2, <2>3
  <2> QED BY <2>2, <2>4
<1>14. \A p \in DOMAIN hit : hit[p] \in ToSet(Hits(E[p[1]], q)) /\ E[p[1]] \in M
  BY <1>8, <1>9 DEF ToSet
<1>15. \A k \in 1 .. w : at[k] \in DOMAIN hit
  BY <1>12 DEF FirstHits
<1>16. ToSet(R) = {hit[at[k]] : k \in 1 .. r}
  BY <1>13 DEF ToSet
\* No hit of an entity is earlier.
<1>17. ASSUME NEW k \in 1 .. w, NEW g \in M, NEW b \in ToSet(Hits(g, q)),
              SameEntity(hit[at[k]], b)
       PROVE  hit[at[k]].at <= b.at
  <2> DEFINE p == at[k]
  <2>1. p \in DOMAIN hit /\ p[1] \in 1 .. m /\ p[1] \in 1 .. n
    BY <1>8, <1>9, <1>15
  <2>2. hit[p].at = L[p[1]].at
    BY <1>3, <1>7, <1>8, <1>9, <2>1
  <2>3. PICK j \in DOMAIN Hits(g, q) : b = Hits(g, q)[j]
    BY DEF ToSet
  <2>4. b.at = g.at
    BY <1>3, <2>3
  <2>5. PICK i \in 1 .. n : L[i] = g
    BY <1>6
  <2>6. ~(i < p[1])
    <3> SUFFICES ASSUME i < p[1] PROVE FALSE
      OBVIOUS
    <3>1. i \in 1 .. m /\ E[i] = g
      BY <1>6, <1>7, <2>1, <2>5
    <3>2. <<i, j>> \in DOMAIN hit /\ hit[<<i, j>>] = b
      BY <1>9, <2>3, <3>1
    <3>3. Earlier(<<i, j>>, p)
      BY DEF Earlier
    <3>4. SameEntity(hit[<<i, j>>], hit[p])
      BY <1>17, <3>2 DEF SameEntity
    <3> QED BY <1>12, <3>2, <3>3, <3>4 DEF FirstHits
  <2>7. i = p[1] \/ p[1] < i
    BY <1>6, <2>1, <2>6
  <2>8. L[p[1]].at <= L[i].at
    <3>1. L[i] \in M /\ L[p[1]] \in M
      BY <1>6, <2>1
    <3>2. L[i].at \in Nat /\ L[p[1]].at \in Nat
      BY <1>2, <3>1 DEF Timed
    <3>3. CASE i = p[1]
      BY <3>2, <3>3
    <3>4. CASE p[1] < i
      <4>1. Before(L[p[1]], L[i])
        BY <1>6, <2>1, <3>4
      <4> QED BY <3>2, <4>1 DEF Before
    <3> QED BY <2>7, <3>3, <3>4
  <2> QED BY <2>2, <2>4, <2>5, <2>8
<1>18. ASSUME NEW h \in ToSet(R)
       PROVE  \E e \in M : /\ h \in ToSet(Hits(e, q))
                           /\ \A g \in M : \A b \in ToSet(Hits(g, q)) :
                                SameEntity(h, b) => h.at <= b.at
  <2>1. PICK k \in 1 .. r : h = hit[at[k]]
    BY <1>16
  <2>2. k \in 1 .. w
    BY <1>13
  <2> QED BY <1>14, <1>15, <1>17, <2>1, <2>2
\* Each position of the answer has an entity of its own.
<1>19. Len(R) = Cardinality({EntityOf(h) : h \in ToSet(R)})
  <2> DEFINE T == {EntityOf(h) : h \in ToSet(R)}
             of == [k \in 1 .. r |-> EntityOf(hit[at[k]])]
  <2>1. T = {EntityOf(hit[at[k]]) : k \in 1 .. r}
    BY <1>16
  <2>2. \A k, l \in 1 .. r : EntityOf(hit[at[k]]) = EntityOf(hit[at[l]]) => k = l
    BY <1>12, <1>13, EntityIsSame
  <2> HIDE DEF T
  <2>3. of \in Bijection(1 .. r, T)
    BY <2>1, <2>2 DEF Bijection, Injection, Surjection, IsInjective
  <2>4. ExistsBijection(1 .. r, T)
    BY <2>3 DEF ExistsBijection
  <2>5. IsFiniteSet(1 .. r) /\ Cardinality(1 .. r) = r
    <3>1. 1 \in Int /\ r \in Int
      OBVIOUS
    <3>2. IsFiniteSet(1 .. r) /\ Cardinality(1 .. r) = IF 1 > r THEN 0 ELSE r - 1 + 1
      BY <3>1, FS_Interval
    <3> QED BY <3>2
  <2>6. Cardinality(T) = r
    BY <2>4, <2>5, FS_Bijection
  <2> QED BY <1>13, <2>6 DEF T
\* Within the limits, all are told.
<1>20. ASSUME n <= ScanLimit,
              Cardinality(UNION {{EntityOf(h) : h \in ToSet(Hits(e, q))} : e \in M}) <= HitLimit,
              NEW e \in M, NEW b \in ToSet(Hits(e, q))
       PROVE  \E h \in ToSet(R) : SameEntity(h, b)
  <2> DEFINE U == UNION {{EntityOf(h) : h \in ToSet(Hits(g, q))} : g \in M}
             of == [k \in 1 .. w |-> EntityOf(hit[at[k]])]
  <2>1. m = n
    BY <1>7, <1>20
  <2>2. PICK j \in DOMAIN Hits(e, q) : b = Hits(e, q)[j]
    BY DEF ToSet
  <2>3. PICK i \in 1 .. n : L[i] = e
    BY <1>6
  <2>4. <<i, j>> \in DOMAIN hit /\ hit[<<i, j>>] = b
    BY <1>7, <1>9, <2>1, <2>2, <2>3
  <2>5. PICK p \in FirstHits(hit) : SameEntity(hit[p], b)
    BY <1>10, <2>4, FirstHitOf
  <2>6. PICK k \in 1 .. w : at[k] = p
    BY <1>12
  <2>7. \A g \in M : \A h \in ToSet(Hits(g, q)) :
          \E l \in 1 .. w : EntityOf(h) = EntityOf(hit[at[l]])
    <3> TAKE g \in M
    <3> TAKE h \in ToSet(Hits(g, q))
    <3>1. PICK y \in DOMAIN Hits(g, q) : h = Hits(g, q)[y]
      BY DEF ToSet
    <3>2. PICK x \in 1 .. n : L[x] = g
      BY <1>6
    <3>3. <<x, y>> \in DOMAIN hit /\ hit[<<x, y>>] = h
      BY <1>7, <1>9, <2>1, <3>1, <3>2
    <3>4. PICK z \in FirstHits(hit) : SameEntity(hit[z], h)
      BY <1>10, <3>3, FirstHitOf
    <3>5. PICK l \in 1 .. w : at[l] = z
      BY <1>12
    <3>6. EntityOf(hit[at[l]]) = EntityOf(h)
      BY <3>4, <3>5, EntityIsSame
    <3> QED BY <3>6
  <2>8. U = {EntityOf(hit[at[l]]) : l \in 1 .. w}
    <3>1. \A l \in 1 .. w : EntityOf(hit[at[l]]) \in U
      BY <1>14, <1>15
    <3> QED BY <2>7, <3>1
  <2>9. \A l, y \in 1 .. w : EntityOf(hit[at[l]]) = EntityOf(hit[at[y]]) => l = y
    BY <1>12, EntityIsSame
  <2>10. Cardinality(U) <= HitLimit
    BY <1>20
  <2> HIDE DEF U
  <2>11. of \in Bijection(1 .. w, U)
    BY <2>8, <2>9 DEF Bijection, Injection, Surjection, IsInjective
  <2>12. ExistsBijection(1 .. w, U)
    BY <2>11 DEF ExistsBijection
  <2>13. IsFiniteSet(1 .. w) /\ Cardinality(1 .. w) = w
    <3>1. 1 \in Int /\ w \in Int
      OBVIOUS
    <3>2. IsFiniteSet(1 .. w) /\ Cardinality(1 .. w) = IF 1 > w THEN 0 ELSE w - 1 + 1
      BY <3>1, FS_Interval
    <3> QED BY <3>2
  <2>14. Cardinality(U) = w
    BY <2>12, <2>13, FS_Bijection
  <2>15. r = w
    BY <1>13, <2>10, <2>14
  <2> QED BY <1>16, <2>5, <2>6, <2>15
<1> QED BY <1>18, <1>19, <1>20 DEF M, R, n

LEMMA SearchTells == Inv => SearchComplete
<1> SUFFICES ASSUME Inv, NEW q \in Queries
             PROVE  LET matched == {e \in journal : SearchClause(e, q)}
                        result == Search(q)
                        found == ToSet(result)
                        hitting == {e \in journal : Hits(e, q) # <<>>}
                        all == UNION {ToSet(Hits(e, q)) : e \in hitting}
                        entities(hits) == {[type |-> h.type, id |-> h.id] : h \in hits}
                    IN /\ matched = hitting
                       /\ Len(result) = Cardinality(entities(found))
                       /\ \A h \in found : \A k \in all : SameEntity(h, k) => h.at <= k.at
                       /\ /\ Cardinality(matched) <= ScanLimit
                          /\ Cardinality(entities(all)) <= HitLimit
                          => entities(found) = entities(all)
  BY Zenon DEF SearchComplete
<1> DEFINE M == Matched(q)
           found == ToSet(Search(q))
           hitting == {e \in journal : Hits(e, q) # <<>>}
           all == UNION {ToSet(Hits(e, q)) : e \in M}
           entities(hits) == {EntityOf(h) : h \in hits}
           U == UNION {entities(ToSet(Hits(e, q))) : e \in M}
<1>1. Timed(journal) /\ \A e \in journal : Identified(e)
  <2>1. PICK H \in Histories : journal \cup pending \subseteq H
    BY DEF Inv
  <2>2. \A e \in H : Identified(e)
    BY SearchAssumption
  <2> QED BY <2>1, <2>2, JournalTimed
<1>2. q # Null
  BY SearchAssumption
<1>3. M = hitting
  <2>1. \A e \in journal : Hits(e, q) # <<>> <=> SearchClause(e, q)
    BY <1>1, <1>2, HitsTyped
  <2> QED BY <2>1 DEF Matched
<1>4. U = entities(all)
  <2> HIDE DEF M
  <2> QED OBVIOUS
<1>5. /\ \A h \in found : \E e \in M :
           /\ h \in ToSet(Hits(e, q))
           /\ \A g \in M : \A k \in ToSet(Hits(g, q)) : SameEntity(h, k) => h.at <= k.at
      /\ Len(Search(q)) = Cardinality(entities(found))
      /\ Cardinality(M) <= ScanLimit /\ Cardinality(U) <= HitLimit =>
           \A e \in M : \A k \in ToSet(Hits(e, q)) : \E h \in found : SameEntity(h, k)
  BY <1>1, SearchFinds
<1> HIDE DEF M, found, U
<1>6. found \subseteq all
  BY <1>5
<1>7. \A h \in found : \A k \in all : SameEntity(h, k) => h.at <= k.at
  BY <1>5
<1>8. ASSUME Cardinality(M) <= ScanLimit, Cardinality(entities(all)) <= HitLimit
      PROVE  entities(found) = entities(all)
  <2>1. \A k \in all : \E h \in found : EntityOf(h) = EntityOf(k)
    BY <1>4, <1>5, <1>8, EntityIsSame
  <2> QED BY <1>6, <2>1
<1>9. /\ {e \in journal : SearchClause(e, q)} = M
      /\ \A hits : entities(hits) = {[type |-> h.type, id |-> h.id] : h \in hits}
  BY DEF M, Matched, EntityOf
<1> HIDE DEF hitting, entities
<1> QED BY <1>3, <1>5, <1>7, <1>8, <1>9, Zenon DEF found, hitting

\* Whatever events have arrived: a search finds, within its limits, every visitor,
\* session, lead, order, customer, contact and sale that an event names by what is
\* searched for; none twice, and each at the time of the earliest such event; and the
\* condition in SQL selects exactly the events that the code then finds hits in
\* (search.py:129, :82, :160-182).
THEOREM SearchCompleteAlways == Spec => []SearchComplete
<1>1. Init => Inv
  BY InitInv
<1>2. Inv /\ [Next]_vars => Inv'
  BY StepInv
<1>3. Inv => SearchComplete
  BY SearchTells
<1> QED BY <1>1, <1>2, <1>3, PTL DEF Spec

-----------------------------------------------------------------------------
(* Rates of the contact channel report *)

\* The contacts via channel k that filters f select, and the leads that have k, if
\* f names no source and no campaign.
Contacted(d, f, k) ==
  {c \in d["contacts"] : /\ Scoped(c, c.at, f) /\ Selects(f.channel, c.channel)
                         /\ c.channel = k}

LeadsBy(d, f, k) ==
  {l \in d["leads"] : /\ l.event # Null /\ Scoped(l, l.at, f)
                      /\ Selects(f.channel, l.channel)
                      /\ l.channel # Null /\ l.channel = k}

Finite(d) == IsFiniteSet(d["contacts"]) /\ IsFiniteSet(Ids(d["leads"]))

LEMMA OneMore ==
  ASSUME NEW S, IsFiniteSet(S), NEW x, NEW T, T \subseteq S \cup {x}
  PROVE  /\ IsFiniteSet(T) /\ Cardinality(T) \in Nat /\ Cardinality(S) \in Nat
         /\ Cardinality(T) <= Cardinality(S) + 1
<1>0. Cardinality(S) \in Nat
  BY FS_CardinalityType
<1>1. /\ IsFiniteSet(S \cup {x})
      /\ Cardinality(S \cup {x}) <= Cardinality(S) + 1
  BY <1>0, FS_AddElement
<1>2. IsFiniteSet(T) /\ Cardinality(T) <= Cardinality(S \cup {x})
  BY <1>1, FS_Subset
<1>3. Cardinality(T) \in Nat /\ Cardinality(S \cup {x}) \in Nat
  BY <1>1, <1>2, FS_CardinalityType
<1> QED BY <1>0, <1>1, <1>2, <1>3

\* Rows with unique ids are as many as their ids.
LEMMA IdsCounted ==
  ASSUME NEW S, IsFiniteSet(Ids(S)), \A r, s \in S : r.id = s.id => r = s
  PROVE  IsFiniteSet(S) /\ Cardinality(S) = Cardinality(Ids(S))
<1> DEFINE of == [i \in Ids(S) |-> CHOOSE r \in S : r.id = i]
<1>1. \A i \in Ids(S) : of[i] \in S /\ of[i].id = i
  BY DEF Ids
<1>2. \A r \in S : r.id \in Ids(S) /\ of[r.id] = r
  BY <1>1 DEF Ids
<1>3. of \in [Ids(S) -> S]
  BY <1>1
<1> HIDE DEF of
<1>4. of \in Bijection(Ids(S), S)
  BY <1>1, <1>2, <1>3 DEF Bijection, Injection, Surjection, IsInjective
<1>5. ExistsBijection(Ids(S), S)
  BY <1>4 DEF ExistsBijection
<1> QED BY <1>5, FS_Bijection

-----------------------------------------------------------------------------
LEMMA DispatchKeepsLeads ==
  ASSUME NEW d, NEW J, NEW e, Sound(d, J), Complete(e),
         NEW n \in Dispatch(d, e)["leads"], n.id # e.lead
  PROVE  \E r \in d["leads"] : Retouched(r, n)
<1>0. /\ d = [t \in Tables |-> d[t]] /\ "leads" \in Tables
      /\ \A l \in d["leads"] : DOMAIN l = Columns("leads")
  BY ColumnsOf DEF Tables
<1>1. CASE e.type \notin LeadChange
  BY <1>0, <1>1, OthersKeepLeads DEF Refresh, Takes
<1>2. \A r \in d["leads"] : CreatedLead(d, e, r).id = r.id /\ ChangedLead(e, r).id = r.id
  <2> TAKE r \in d["leads"]
  <2>1. CreatedLead(d, e, r).id = r.id
    <3>1. CASE r.event = Null
      BY <1>0, <3>1, CreatedLeadRow
    <3>2. CASE r.event # Null
      BY <3>2 DEF CreatedLead
    <3> QED BY <3>1, <3>2
  <2>2. ChangedLead(e, r).id = r.id
    BY <1>0, ChangedLeadRow
  <2> QED BY <2>1, <2>2
<1>3. \A r : Retouched(r, r)
  BY DEF Retouched
<1>4. CASE e.type = "lead_created"
  <2>1. PICK r \in d["leads"] : n = IF r.id = e.lead THEN CreatedLead(d, e, r) ELSE r
    BY <1>0, <1>4 DEF Dispatch, LeadCreated, Update
  <2> QED BY <1>2, <1>3, <2>1
<1>5. CASE e.type = "lead_status_changed"
  <2>1. PICK r \in d["leads"] : n = r \/ (r.id = e.lead /\ n = ChangedLead(e, r))
    BY <1>0, <1>5 DEF Dispatch, LeadStatusChanged, Update
  <2> QED BY <1>2, <1>3, <2>1
<1> QED BY <1>1, <1>4, <1>5 DEF LeadChange

\* An ingest writes one lead, and new touches into others.
LEMMA LeadsKept ==
  ASSUME NEW d, NEW J, NEW e, Sound(d, J), Complete(e),
         NEW n \in Dispatch(EnsureStubs(d, e), e)["leads"], n.id # e.lead
  PROVE  \E r \in d["leads"] : Retouched(r, n)
<1> DEFINE s == EnsureStubs(d, e)
<1>1. Sound(s, J)
  BY StubsSound
<1>2. s["leads"] \subseteq d["leads"] \cup {LeadStub(e.lead)}
  <2>1. d = [t \in Tables |-> d[t]]
    BY DEF Sound
  <2>2. s["leads"] = InsertStub(d["leads"], e.lead, LeadStub(e.lead))
    BY <2>1, StubTables
  <2> QED BY <2>2 DEF InsertStub, InsertNew
<1>3. LeadStub(e.lead).id = e.lead
  BY DEF LeadStub
<1> HIDE DEF s
<1>4. PICK r \in s["leads"] : Retouched(r, n)
  BY <1>1, DispatchKeepsLeads DEF s
<1>5. r.id = n.id
  <2>1. DOMAIN r = Columns("leads") /\ "id" \in Columns("leads")
    BY <1>1, ColumnsOf DEF Columns, LeadStub
  <2> QED BY <1>4, <2>1 DEF Retouched
<1> QED BY <1>2, <1>3, <1>4, <1>5

\* An ingest brings one contact at most.
LEMMA ContactsKept ==
  ASSUME NEW d, NEW J, NEW e, Sound(d, J), Complete(e)
  PROVE  \E row : Dispatch(EnsureStubs(d, e), e)["contacts"] \subseteq d["contacts"] \cup {row}
<1> DEFINE s == EnsureStubs(d, e)
<1>1. s["contacts"] = d["contacts"] /\ s = [t \in Tables |-> s[t]] /\ "contacts" \in Tables
  BY StubTables DEF Sound, Tables
<1> HIDE DEF s
<1>2. CASE e.type = "session_started"
  BY <1>1, <1>2, SessionTables DEF Dispatch, Tables, s
<1>3. CASE e.type \in {"product_viewed", "add_to_cart", "checkout_started", "contact_intent"}
  BY <1>1, <1>3 DEF Dispatch, Tables, ProductViewed, AddToCart, CheckoutStarted, ContactIntent, s
<1>4. CASE e.type = "contact_received"
  <2> DEFINE row == Extend(Place(e), [id |-> e.contact, lead |-> e.lead,
                                      channel |-> e.contactChannel])
  <2>1. Dispatch(s, e)["contacts"] = InsertNew(s["contacts"], row)
    BY <1>1, <1>4 DEF Dispatch, ContactReceived
  <2> HIDE DEF row
  <2> QED BY <1>1, <2>1 DEF InsertNew, s
<1>5. CASE e.type \in {"payment_methods_shown", "payment_method_selected", "payment_failed"}
  BY <1>1, <1>5 DEF Dispatch, Tables, PaymentMethodsShown, PaymentMethodSelected, PaymentFailed, s
<1>6. CASE e.type \in {"order_created", "order_paid"}
  BY <1>1, <1>6 DEF Dispatch, Tables, OrderCreated, OrderPaid, WithOrder, s
<1>7. CASE e.type \in SaleChange
  BY <1>1, <1>7 DEF SaleChange, Dispatch, Tables, SaleCreated, SaleUpdated, SaleCancelled, s
<1>8. CASE e.type \in LeadChange
  BY <1>1, <1>8 DEF LeadChange, Dispatch, Tables, LeadCreated, LeadStatusChanged, s
<1>9. CASE e.type \in {"refund_created", "customer_linked"}
  BY <1>1, <1>9 DEF Dispatch, Tables, RefundCreated, CustomerLinked, s
<1> QED BY <1>2, <1>3, <1>4, <1>5, <1>6, <1>7, <1>8, <1>9 DEF Complete, Handled

\* An ingest adds at most one contact and one lead to a count.
LEMMA CountsGrow ==
  ASSUME NEW d, NEW J, NEW e, Sound(d, J), Complete(e), Finite(d), NEW d2,
         d2 = Dispatch(EnsureStubs(d, e), e)
  PROVE  /\ Finite(d2)
         /\ \A f, k :
              /\ Cardinality(Contacted(d, f, k)) \in Nat
              /\ Cardinality(Contacted(d2, f, k)) \in Nat
              /\ Cardinality(Contacted(d2, f, k)) <= Cardinality(Contacted(d, f, k)) + 1
              /\ Cardinality(Ids(LeadsBy(d, f, k))) \in Nat
              /\ Cardinality(Ids(LeadsBy(d2, f, k))) \in Nat
              /\ Cardinality(Ids(LeadsBy(d2, f, k))) <= Cardinality(Ids(LeadsBy(d, f, k))) + 1
<1>1. PICK row : d2["contacts"] \subseteq d["contacts"] \cup {row}
  BY ContactsKept
<1>2. ASSUME NEW n \in d2["leads"], n.id # e.lead
      PROVE  \E r \in d["leads"] : /\ r.id = n.id /\ r.event = n.event /\ r.at = n.at
                                   /\ r.shop = n.shop /\ r.market = n.market
                                   /\ r.channel = n.channel
  <2>1. PICK r \in d["leads"] : Retouched(r, n)
    BY <1>2, LeadsKept
  <2>2. DOMAIN r = Columns("leads")
    BY ColumnsOf
  <2>3. {"id", "event", "at", "shop", "market", "channel"} \subseteq Columns("leads") \ {"touch"}
    BY DEF Columns, LeadStub
  <2> QED BY <2>1, <2>2, <2>3 DEF Retouched
<1>3. Ids(d2["leads"]) \subseteq Ids(d["leads"]) \cup {e.lead}
  BY <1>2 DEF Ids
<1>4. Finite(d2)
  BY <1>1, <1>3, OneMore DEF Finite
<1>5. ASSUME NEW f, NEW k
      PROVE  /\ Cardinality(Contacted(d, f, k)) \in Nat
             /\ Cardinality(Contacted(d2, f, k)) \in Nat
             /\ Cardinality(Contacted(d2, f, k)) <= Cardinality(Contacted(d, f, k)) + 1
  <2>1. Contacted(d2, f, k) \subseteq Contacted(d, f, k) \cup {row}
    BY <1>1 DEF Contacted
  <2>2. Contacted(d, f, k) \in SUBSET d["contacts"]
    BY DEF Contacted
  <2>3. IsFiniteSet(Contacted(d, f, k))
    BY <2>2, FS_Subset DEF Finite
  <2> QED BY <2>1, <2>3, OneMore
<1>6. ASSUME NEW f, NEW k
      PROVE  /\ Cardinality(Ids(LeadsBy(d, f, k))) \in Nat
             /\ Cardinality(Ids(LeadsBy(d2, f, k))) \in Nat
             /\ Cardinality(Ids(LeadsBy(d2, f, k))) <= Cardinality(Ids(LeadsBy(d, f, k))) + 1
  <2>1. Ids(LeadsBy(d2, f, k)) \subseteq Ids(LeadsBy(d, f, k)) \cup {e.lead}
    <3>1. ASSUME NEW n \in LeadsBy(d2, f, k), n.id # e.lead
          PROVE  n.id \in Ids(LeadsBy(d, f, k))
      <4>1. PICK r \in d["leads"] : /\ r.id = n.id /\ r.event = n.event /\ r.at = n.at
                                    /\ r.shop = n.shop /\ r.market = n.market
                                    /\ r.channel = n.channel
        BY <1>2, <3>1 DEF LeadsBy
      <4>2. r \in LeadsBy(d, f, k)
        BY <3>1, <4>1 DEF LeadsBy, Scoped, InPlace
      <4> QED BY <4>1, <4>2 DEF Ids
    <3> QED BY <3>1 DEF Ids
  <2>2. Ids(LeadsBy(d, f, k)) \in SUBSET Ids(d["leads"])
    BY DEF LeadsBy, Ids
  <2>3. IsFiniteSet(Ids(LeadsBy(d, f, k)))
    BY <2>2, FS_Subset DEF Finite
  <2> QED BY <2>1, <2>3, OneMore
<1> QED BY <1>4, <1>5, <1>6

-----------------------------------------------------------------------------
\* What the statements count where no source and no campaign is asked for.

Anyone(f) == f.source = Null /\ f.campaign = Null

LEMMA FiniteParts ==
  ASSUME Inv, Finite(db), NEW f, NEW k
  PROVE  /\ IsFiniteSet(Contacted(db, f, k)) /\ Cardinality(Contacted(db, f, k)) \in Nat
         /\ IsFiniteSet(LeadsBy(db, f, k)) /\ Cardinality(LeadsBy(db, f, k)) \in Nat
         /\ Cardinality(LeadsBy(db, f, k)) = Cardinality(Ids(LeadsBy(db, f, k)))
<1>1. /\ Contacted(db, f, k) \in SUBSET db["contacts"]
      /\ LeadsBy(db, f, k) \in SUBSET db["leads"]
      /\ Ids(LeadsBy(db, f, k)) \in SUBSET Ids(db["leads"])
  BY DEF Contacted, LeadsBy, Ids
<1>2. \A r, s \in LeadsBy(db, f, k) : r.id = s.id => r = s
  BY <1>1, ColumnsOf DEF Inv
<1>3. IsFiniteSet(Contacted(db, f, k)) /\ IsFiniteSet(Ids(LeadsBy(db, f, k)))
  BY <1>1, FS_Subset DEF Finite
<1> QED BY <1>2, <1>3, IdsCounted, FS_CardinalityType

LEMMA ContactsTold ==
  ASSUME NEW f, Anyone(f), NEW k
  PROVE  Of(ChannelStatement(2, f), k) = Cardinality(Contacted(db, f, k))
<1>1. ChannelStatement(2, f) = ContactsVia(f)
  BY DEF ChannelStatement
<1>2. ContactRows(f) = {c \in db["contacts"] : Scoped(c, c.at, f) /\ Selects(f.channel, c.channel)}
  BY DEF ContactRows, Anyone
<1>3. {c \in ContactRows(f) : c.channel = k} = Contacted(db, f, k)
  BY <1>2 DEF Contacted
<1>4. ContactsVia(f) = [j \in {c.channel : c \in ContactRows(f)} |->
                          Cardinality({c \in ContactRows(f) : c.channel = j})]
  BY DEF ContactsVia, Tally
<1>5. k \notin {c.channel : c \in ContactRows(f)} => Contacted(db, f, k) = {}
  BY <1>3
<1>6. Cardinality({}) = 0
  BY FS_EmptySet
<1> QED BY <1>1, <1>3, <1>4, <1>5, <1>6 DEF Of

LEMMA LeadsTold ==
  ASSUME NEW f, Anyone(f), NEW k
  PROVE  Of(ChannelStatement(4, f), k) = Cardinality(LeadsBy(db, f, k))
<1>1. ChannelStatement(4, f) = [j \in {l.channel : l \in LeadsVia(f)} |->
                                  Cardinality({l \in LeadsVia(f) : l.channel = j})]
  BY DEF ChannelStatement, Tally
<1>2. {l \in LeadsVia(f) : l.channel = k} = LeadsBy(db, f, k)
  BY DEF LeadsVia, LeadRows, LeadsBy, Attributed, Selects, Anyone
<1>3. k \notin {l.channel : l \in LeadsVia(f)} => LeadsBy(db, f, k) = {}
  BY <1>2
<1>4. Cardinality({}) = 0
  BY FS_EmptySet
<1> QED BY <1>1, <1>2, <1>3, <1>4 DEF Of

\* A lead that contacts came from has a contact.
LEMMA LeadsOfContacts ==
  ASSUME Inv, Finite(db), NEW f, Anyone(f), NEW k \in DOMAIN ChannelStatement(3, f)
  PROVE  /\ ChannelStatement(3, f)[k] \in Nat
         /\ ChannelStatement(3, f)[k] <= Cardinality(Contacted(db, f, k))
<1> DEFINE S == {<<c.channel, c.lead>> : c \in ContactRows(f)}
           T == {p \in S : p[1] = k}
           of == [c \in Contacted(db, f, k) |-> <<c.channel, c.lead>>]
<1>1. ChannelStatement(3, f) = LeadsFromContacts(f)
  BY DEF ChannelStatement
<1>2. LeadsFromContacts(f) = [j \in {p[1] : p \in S} |-> Cardinality({p \in S : p[1] = j})]
  BY DEF LeadsFromContacts, Tally
<1>3. ChannelStatement(3, f)[k] = Cardinality(T)
  BY <1>1, <1>2
<1>4. ContactRows(f) = {c \in db["contacts"] : Scoped(c, c.at, f) /\ Selects(f.channel, c.channel)}
  BY DEF ContactRows, Anyone
<1>5. Contacted(db, f, k) = {c \in ContactRows(f) : c.channel = k}
  BY <1>4 DEF Contacted
<1>6. T = {<<c.channel, c.lead>> : c \in Contacted(db, f, k)}
  BY <1>5
<1>7. of \in Surjection(Contacted(db, f, k), T)
  BY <1>6 DEF Surjection
<1> HIDE DEF of, T
<1>8. IsFiniteSet(T) /\ Cardinality(T) <= Cardinality(Contacted(db, f, k))
  BY <1>7, FiniteParts, FS_Surjection
<1> QED BY <1>3, <1>8, FS_CardinalityType

\* A lead that converts is among those that came.
LEMMA LeadsConverted ==
  ASSUME Inv, Finite(db), NEW f, Anyone(f), NEW k \in DOMAIN ChannelStatement(7, f)
  PROVE  /\ ChannelStatement(7, f)[k] \in Nat
         /\ ChannelStatement(7, f)[k] <= Cardinality(LeadsBy(db, f, k))
<1> DEFINE T == {l \in ConvertingLeads(f) : l.channel = k}
<1>1. ChannelStatement(7, f) = [j \in {l.channel : l \in ConvertingLeads(f)} |->
                                  Cardinality({l \in ConvertingLeads(f) : l.channel = j})]
  BY DEF ChannelStatement, Tally
<1>2. ChannelStatement(7, f)[k] = Cardinality(T)
  BY <1>1
<1>3. ConvertingLeads(f) \subseteq LeadsVia(f)
  BY DEF ConvertingLeads
<1>4. T \in SUBSET LeadsBy(db, f, k)
  BY <1>3 DEF LeadsVia, LeadRows, LeadsBy
<1> HIDE DEF T
<1>5. IsFiniteSet(T) /\ Cardinality(T) <= Cardinality(LeadsBy(db, f, k))
  BY <1>4, FiniteParts, FS_Subset
<1> QED BY <1>2, <1>5, FS_CardinalityType

-----------------------------------------------------------------------------
\* Answers of the second statement, and of the fourth, lack what ingests have brought
\* since, and no more.
ContactsCounted ==
  \A k :
    /\ Of(report.parts[2].rows, k) \in Nat
    /\ Cardinality(Contacted(db, report.filters, k))
         <= Of(report.parts[2].rows, k) + (report.commits - report.parts[2].after)

LeadsCounted ==
  \A k :
    /\ Of(report.parts[4].rows, k) \in Nat
    /\ Cardinality(Ids(LeadsBy(db, report.filters, k)))
         <= Of(report.parts[4].rows, k) + (report.commits - report.parts[4].after)

\* What RatesBounded says of two statements that have run.
Rated(part, whole) ==
  \A k \in DOMAIN report.parts[part].rows :
    report.parts[part].rows[k] <= Of(report.parts[whole].rows, k)
                                  + report.parts[part].after - report.parts[whole].after

ReportOK ==
  /\ DOMAIN report = DOMAIN Idle /\ report.commits \in Nat
  /\ \E S : report.parts \in Seq(S)
  /\ \A i \in 1 .. Len(report.parts) : report.parts[i].after \in Nat
  /\ ~report.running => report.parts = <<>>

ReportInv ==
  /\ ReportOK /\ Finite(db)
  /\ Anyone(report.filters) =>
       /\ Len(report.parts) >= 2 => ContactsCounted
       /\ Len(report.parts) >= 3 => Rated(3, 2)
       /\ Len(report.parts) >= 4 => LeadsCounted
       /\ Len(report.parts) >= 7 => Rated(7, 4)

LEMMA InitReport == Init => ReportInv
<1> SUFFICES ASSUME Init PROVE ReportInv
  OBVIOUS
<1>1. report.parts = <<>> /\ report.parts \in Seq({}) /\ Len(report.parts) = 0
  BY DEF Init, Idle
<1>2. ReportOK
  BY <1>1 DEF Init, Idle, ReportOK
<1>3. Finite(db)
  BY FS_EmptySet DEF Init, DataInit, Finite, Ids, Tables
<1> QED BY <1>1, <1>2, <1>3 DEF ReportInv

LEMMA ArriveReport ==
  ASSUME Inv, ReportInv, NEW e, Arrive(e)
  PROVE  ReportInv'
<1>1. Sound(db, journal) /\ Complete(e) /\ Finite(db)
  BY HistoriesAssumption DEF Inv, ReportInv, Arrive, Ingest
<1>2. db' = Dispatch(EnsureStubs(db, e), e)
  BY DEF Arrive, Ingest
<1>3. /\ Finite(db')
      /\ \A f, k :
           /\ Cardinality(Contacted(db, f, k)) \in Nat
           /\ Cardinality(Contacted(db', f, k)) \in Nat
           /\ Cardinality(Contacted(db', f, k)) <= Cardinality(Contacted(db, f, k)) + 1
           /\ Cardinality(Ids(LeadsBy(db, f, k))) \in Nat
           /\ Cardinality(Ids(LeadsBy(db', f, k))) \in Nat
           /\ Cardinality(Ids(LeadsBy(db', f, k))) <= Cardinality(Ids(LeadsBy(db, f, k))) + 1
  BY <1>1, <1>2, CountsGrow
<1>4. /\ report'.filters = report.filters /\ report'.parts = report.parts
      /\ report'.running = report.running /\ DOMAIN report' = DOMAIN report
      /\ report'.commits = IF report.running THEN report.commits + 1 ELSE report.commits
  BY DEF Arrive, ReportInv, ReportOK, Idle
<1>5. ReportOK'
  BY <1>4 DEF ReportInv, ReportOK
<1>6. Len(report.parts) \in Nat /\ (~report.running => Len(report.parts) = 0)
  BY DEF ReportInv, ReportOK
<1>7. ASSUME Anyone(report.filters), Len(report.parts) >= 2
      PROVE  ContactsCounted'
  <2>1. report'.commits = report.commits + 1
    BY <1>4, <1>6, <1>7
  <2>2. ContactsCounted /\ report.parts[2].after \in Nat /\ report.commits \in Nat
    BY <1>6, <1>7 DEF ReportInv, ReportOK
  <2> QED BY <1>3, <1>4, <2>1, <2>2 DEF ContactsCounted
<1>8. ASSUME Anyone(report.filters), Len(report.parts) >= 4
      PROVE  LeadsCounted'
  <2>1. report'.commits = report.commits + 1
    BY <1>4, <1>6, <1>8
  <2>2. LeadsCounted /\ report.parts[4].after \in Nat /\ report.commits \in Nat
    BY <1>6, <1>8 DEF ReportInv, ReportOK
  <2> QED BY <1>3, <1>4, <2>1, <2>2 DEF LeadsCounted
<1>9. /\ Rated(3, 2) => Rated(3, 2)'
      /\ Rated(7, 4) => Rated(7, 4)'
  BY <1>4 DEF Rated
<1>10. Anyone(report.filters)' => Anyone(report.filters)
  BY <1>4 DEF Anyone
<1> QED BY <1>3, <1>4, <1>5, <1>7, <1>8, <1>9, <1>10 DEF ReportInv

LEMMA StatementReport ==
  ASSUME Inv, ReportInv, RunStatement
  PROVE  ReportInv'
<1> DEFINE n == Len(report.parts)
           f == report.filters
           new == [rows |-> ChannelStatement(n + 1, f), after |-> report.commits]
<1>1. /\ report'.filters = f /\ report'.parts = Append(report.parts, new)
      /\ report'.running /\ report.running /\ DOMAIN report' = DOMAIN report
      /\ report'.commits = report.commits /\ db' = db
  BY DEF RunStatement, ReportInv, ReportOK, Idle, dataVars
<1>2. PICK S : report.parts \in Seq(S)
  BY DEF ReportInv, ReportOK
<1> HIDE DEF new
<1>3. /\ n \in Nat /\ Len(report'.parts) = n + 1 /\ report'.parts \in Seq(S \cup {new})
      /\ \A i \in 1 .. n : report'.parts[i] = report.parts[i]
      /\ report'.parts[n + 1] = new
  BY <1>1, <1>2
<1>4. /\ report.commits \in Nat /\ \A i \in 1 .. n : report.parts[i].after \in Nat
      /\ new.after = report.commits /\ new.rows = ChannelStatement(n + 1, f)
  BY DEF ReportInv, ReportOK, new
<1>5. ReportOK'
  BY <1>1, <1>3, <1>4 DEF ReportInv, ReportOK
<1> HIDE DEF n
<1>6. ASSUME Anyone(f) PROVE Len(report'.parts) >= 2 => ContactsCounted'
  <2>1. CASE n + 1 = 2
    <3>1. \A k : /\ Of(new.rows, k) \in Nat
                 /\ Of(new.rows, k) = Cardinality(Contacted(db, f, k))
      BY <1>4, <1>6, <2>1, ContactsTold, FiniteParts DEF ReportInv
    <3> QED BY <1>1, <1>3, <1>4, <2>1, <3>1 DEF ContactsCounted
  <2>2. CASE n >= 2
    <3>1. ContactsCounted /\ report'.parts[2] = report.parts[2]
      BY <1>3, <1>6, <2>2 DEF ReportInv, n
    <3> QED BY <1>1, <3>1 DEF ContactsCounted
  <2> QED BY <1>3, <2>1, <2>2
<1>7. ASSUME Anyone(f) PROVE Len(report'.parts) >= 4 => LeadsCounted'
  <2>1. CASE n + 1 = 4
    <3>1. \A k : /\ Of(new.rows, k) \in Nat
                 /\ Of(new.rows, k) = Cardinality(Ids(LeadsBy(db, f, k)))
      BY <1>4, <1>7, <2>1, LeadsTold, FiniteParts DEF ReportInv
    <3> QED BY <1>1, <1>3, <1>4, <2>1, <3>1 DEF LeadsCounted
  <2>2. CASE n >= 4
    <3>1. LeadsCounted /\ report'.parts[4] = report.parts[4]
      BY <1>3, <1>7, <2>2 DEF ReportInv, n
    <3> QED BY <1>1, <3>1 DEF LeadsCounted
  <2> QED BY <1>3, <2>1, <2>2
<1>8. ASSUME Anyone(f) PROVE Len(report'.parts) >= 3 => Rated(3, 2)'
  <2>1. CASE n + 1 = 3
    <3>1. ContactsCounted /\ report'.parts[2] = report.parts[2] /\ report'.parts[3] = new
      BY <1>3, <1>8, <2>1 DEF ReportInv, n
    <3>2. \A k \in DOMAIN new.rows : /\ new.rows[k] \in Nat
                                     /\ new.rows[k] <= Cardinality(Contacted(db, f, k))
      BY <1>4, <1>8, <2>1, LeadsOfContacts DEF ReportInv
    <3>3. \A k : Cardinality(Contacted(db, f, k)) \in Nat
      BY FiniteParts DEF ReportInv
    <3>4. report.parts[2].after \in Nat
      BY <1>3, <1>4, <2>1
    <3> QED BY <1>4, <3>1, <3>2, <3>3, <3>4 DEF ContactsCounted, Rated
  <2>2. CASE n >= 3
    <3>1. /\ Rated(3, 2) /\ report'.parts[2] = report.parts[2]
          /\ report'.parts[3] = report.parts[3]
      BY <1>3, <1>8, <2>2 DEF ReportInv, n
    <3> QED BY <3>1 DEF Rated
  <2> QED BY <1>3, <2>1, <2>2
<1>9. ASSUME Anyone(f) PROVE Len(report'.parts) >= 7 => Rated(7, 4)'
  <2>1. CASE n + 1 = 7
    <3>1. LeadsCounted /\ report'.parts[4] = report.parts[4] /\ report'.parts[7] = new
      BY <1>3, <1>9, <2>1 DEF ReportInv, n
    <3>2. \A k \in DOMAIN new.rows :
            /\ new.rows[k] \in Nat
            /\ new.rows[k] <= Cardinality(Ids(LeadsBy(db, f, k)))
      BY <1>4, <1>9, <2>1, LeadsConverted, FiniteParts DEF ReportInv
    <3>3. \A k : Cardinality(Ids(LeadsBy(db, f, k))) \in Nat
      BY FiniteParts DEF ReportInv
    <3>4. report.parts[4].after \in Nat
      BY <1>3, <1>4, <2>1
    <3> QED BY <1>4, <3>1, <3>2, <3>3, <3>4 DEF LeadsCounted, Rated
  <2>2. CASE n >= 7
    <3>1. /\ Rated(7, 4) /\ report'.parts[4] = report.parts[4]
          /\ report'.parts[7] = report.parts[7]
      BY <1>3, <1>9, <2>2 DEF ReportInv, n
    <3> QED BY <3>1 DEF Rated
  <2> QED BY <1>3, <2>1, <2>2
<1> QED BY <1>1, <1>5, <1>6, <1>7, <1>8, <1>9 DEF ReportInv, Anyone

LEMMA StepReport == Inv /\ ReportInv /\ [Next]_vars => ReportInv'
<1> SUFFICES ASSUME Inv, ReportInv, [Next]_vars PROVE ReportInv'
  OBVIOUS
<1>1. CASE \E e \in pending : Arrive(e)
  BY <1>1, ArriveReport
<1>2. CASE RunStatement
  BY <1>2, StatementReport
<1>3. CASE UNCHANGED <<db, report>>
  BY <1>3 DEF ReportInv, ReportOK, ContactsCounted, LeadsCounted, Rated, Anyone
<1>4. CASE Answer \/ \E f \in Asked : Request(f)
  <2>1. db' = db
    BY <1>4 DEF Answer, Request, dataVars
  <2>2. /\ DOMAIN report' = DOMAIN Idle /\ report'.commits = 0 /\ report'.parts = <<>>
    <3>1. CASE Answer
      BY <3>1 DEF Answer, Idle
    <3>2. CASE \E f \in Asked : Request(f)
      BY <3>2 DEF Request, Idle
    <3> QED BY <1>4, <3>1, <3>2
  <2>3. <<>> \in Seq({}) /\ Len(<<>>) = 0
    OBVIOUS
  <2>4. ReportOK'
    BY <2>2, <2>3 DEF ReportOK
  <2>5. Finite(db)'
    BY <2>1 DEF ReportInv
  <2> QED BY <2>2, <2>3, <2>4, <2>5 DEF ReportInv
<1> QED BY <1>1, <1>2, <1>3, <1>4 DEF Next, Reject, Refuse, vars, dataVars

\* Whatever commits while the contact channel report runs, and however much of it:
\* of the leads that contacts came from, and of the leads that convert, it counts
\* more than it counts contacts, or leads, by at most one for each ingest that
\* committed in between (contact_channels.py:296-301).
THEOREM RatesBoundedAlways == Spec => []RatesBounded
<1>1. Init => Inv /\ ReportInv
  BY InitInv, InitReport
<1>2. Inv /\ ReportInv /\ [Next]_vars => (Inv /\ ReportInv)'
  BY StepInv, StepReport
<1>3. ReportInv => RatesBounded
  BY DEF ReportInv, ReportOK, RatesBounded, Rated, Anyone
<1> QED BY <1>1, <1>2, <1>3, PTL DEF Spec

-----------------------------------------------------------------------------
(* Times, money and keys that rows have *)

\* Tables whose rows have no time of their own; those that web events write.
Timeless == {"visitors", "orders", "lines", "refundLines", "links", "history"}
WebTables == {"sessions", "views", "carts", "checkouts", "intents", "payments"}

\* What the columns of a row of table t hold.
Valued(t, r) ==
  /\ t \in Tables \ Timeless => r.at \in Nat \cup {Null}
  /\ t = "visitors" => r.firstSeen \in Nat \cup {Null}
  /\ t \in WebTables => r.visitor # Null
  /\ t = "contacts" => r.lead # Null
  /\ t = "orders" =>
       /\ r.createdAt \in Nat \cup {Null} /\ r.paidAt \in Nat \cup {Null}
       /\ r.paid # Null => r.amount \in Nat /\ r.currency # Null
  /\ t = "sales" =>
       /\ r.amount \in Nat \cup {Null}
       /\ r.event # Null => r.amount \in Nat /\ r.currency # Null
  /\ t = "refunds" => r.amount \in Nat /\ r.currency # Null /\ r.method # Null

\* A table's rows are finitely many and each holds what its columns do.
TableValued(t, rows) == IsFiniteSet(rows) /\ \A r \in rows : Valued(t, r)

AllValued(d) == \A t \in Tables : TableValued(t, d[t])

\* A table that is taken row by row to another, as an UPDATE does.
LEMMA TakenValued ==
  ASSUME NEW t, NEW rows, NEW F, NEW new, Takes(F, rows, new), TableValued(t, rows),
         \A r \in rows : Valued(t, F[r])
  PROVE  TableValued(t, new)
<1> DEFINE G == [r \in rows |-> F[r]]
<1>1. G \in Surjection(rows, new)
  BY DEF Takes, Surjection
<1> HIDE DEF G
<1>2. IsFiniteSet(new)
  BY <1>1, FS_Surjection DEF TableValued
<1> QED BY <1>2 DEF TableValued, Takes

\* Two such tables make one.
LEMMA AddedValued ==
  ASSUME NEW t, NEW rows, NEW more, TableValued(t, rows), TableValued(t, more)
  PROVE  TableValued(t, rows \cup more)
BY FS_Union DEF TableValued

\* A row more, whether it replaces none or only fills what is missing.
LEMMA InsertedValued ==
  ASSUME NEW t, NEW rows, NEW row, TableValued(t, rows), Valued(t, row)
  PROVE  /\ TableValued(t, rows \cup {row}) /\ TableValued(t, InsertNew(rows, row))
         /\ \A i : TableValued(t, InsertStub(rows, i, row))
<1>1. TableValued(t, {row})
  BY FS_Singleton DEF TableValued
<1>2. TableValued(t, rows \cup {row})
  BY <1>1, AddedValued
<1> QED BY <1>2 DEF InsertNew, InsertStub

\* The stubs of an event have their columns.
LEMMA StubsValued ==
  ASSUME NEW d, NEW J, NEW e, Sound(d, J), AllValued(d)
  PROVE  AllValued(EnsureStubs(d, e))
<1> DEFINE d2 == EnsureStubs(d, e)
<1>1. d = [t \in Tables |-> d[t]]
  BY DEF Sound
<1>2. \A i : /\ Valued("visitors", VisitorStub(i)) /\ Valued("leads", LeadStub(i))
             /\ Valued("orders", OrderStub(i)) /\ Valued("sales", SaleStub(i))
  BY DEF Valued, Timeless, WebTables, VisitorStub, LeadStub, OrderStub, SaleStub
<1>3. \A i : e.visitor # Null => Valued("sessions", SessionStub(i, e.visitor))
  BY DEF Valued, Timeless, WebTables, SessionStub
<1>4. \A t \in Tables : TableValued(t, d[t])
  BY DEF AllValued
<1>5. ASSUME NEW t \in Tables PROVE TableValued(t, d2[t])
  <2> DEFINE rows == d[t]
             new == d2[t]
  <2>1. TableValued(t, rows)
    BY <1>4
  <2>2. CASE t = "visitors"
    <3>1. new = InsertStub(rows, e.visitor, VisitorStub(e.visitor))
      BY <1>1, <2>2, StubTables
    <3> HIDE DEF rows, new
    <3>2. TableValued(t, new)
      BY <1>2, <2>1, <2>2, <3>1, InsertedValued
    <3> QED BY <3>2 DEF new
  <2>3. CASE t = "sessions"
    <3>1. new = IF e.visitor = Null THEN rows
                ELSE InsertStub(rows, e.session, SessionStub(e.session, e.visitor))
      BY <1>1, <2>3, StubTables
    <3> HIDE DEF rows, new
    <3>2. TableValued(t, new)
      BY <1>3, <2>1, <2>3, <3>1, InsertedValued
    <3> QED BY <3>2 DEF new
  <2>4. CASE t = "leads"
    <3>1. new = InsertStub(rows, e.lead, LeadStub(e.lead))
      BY <1>1, <2>4, StubTables
    <3> HIDE DEF rows, new
    <3>2. TableValued(t, new)
      BY <1>2, <2>1, <2>4, <3>1, InsertedValued
    <3> QED BY <3>2 DEF new
  <2>5. CASE t = "orders"
    <3>1. new = InsertStub(rows, e.order, OrderStub(e.order))
      BY <1>1, <2>5, StubTables
    <3> HIDE DEF rows, new
    <3>2. TableValued(t, new)
      BY <1>2, <2>1, <2>5, <3>1, InsertedValued
    <3> QED BY <3>2 DEF new
  <2>6. CASE t = "sales"
    <3>1. new = InsertStub(rows, e.sale, SaleStub(e.sale))
      BY <1>1, <2>6, StubTables
    <3> HIDE DEF rows, new
    <3>2. TableValued(t, new)
      BY <1>2, <2>1, <2>6, <3>1, InsertedValued
    <3> QED BY <3>2 DEF new
  <2>7. CASE t \notin {"visitors", "sessions", "leads", "orders", "sales"}
    BY <1>1, <2>1, <2>7, StubTables
  <2> QED BY <2>2, <2>3, <2>4, <2>5, <2>6, <2>7
<1> QED BY <1>5 DEF AllValued

\* One table is written, the others stay.
LEMMA TablesValued ==
  ASSUME NEW d, d = [u \in Tables |-> d[u]], AllValued(d),
         NEW t \in Tables, NEW rows, TableValued(t, rows)
  PROVE  AllValued([d EXCEPT ![t] = rows])
BY DEF AllValued

\* Views, carts, checkouts and intents are of a visitor and at a time.
LEMMA WebFactsValued ==
  ASSUME NEW d, d = [u \in Tables |-> d[u]], AllValued(d), NEW e, Complete(e)
  PROVE  /\ e.type = "product_viewed" => AllValued(ProductViewed(d, e))
         /\ e.type = "add_to_cart" => AllValued(AddToCart(d, e))
         /\ e.type = "checkout_started" => AllValued(CheckoutStarted(d, e))
         /\ e.type = "contact_intent" => AllValued(ContactIntent(d, e))
<1>1. ASSUME NEW t \in {"views", "carts", "checkouts", "intents"}, NEW columns,
             DOMAIN columns \cap {"at", "shop", "market", "visitor"} = {}, e.visitor # Null
      PROVE  AllValued([d EXCEPT ![t] = @ \cup {Extend(Place(e), columns)}])
  <2> DEFINE row == Extend(Place(e), columns)
             rows == d[t] \cup {row}
  <2>1. row.at = e.at /\ row.visitor = e.visitor
    BY <1>1, Placed
  <2>2. t \in Tables
    BY DEF Tables
  <2> HIDE DEF row
  <2>3. Valued(t, row)
    BY <1>1, <2>1 DEF Valued, Complete
  <2>4. TableValued(t, rows)
    BY <2>2, <2>3, InsertedValued DEF AllValued
  <2> HIDE DEF rows
  <2>5. AllValued([d EXCEPT ![t] = rows])
    BY <2>2, <2>4, TablesValued
  <2> QED BY <2>5 DEF rows, row
<1>2. e.type \in {"product_viewed", "add_to_cart", "checkout_started", "contact_intent"}
        => e.visitor # Null
  BY DEF Complete, WebEvents
<1>3. ASSUME e.type = "product_viewed" PROVE AllValued(ProductViewed(d, e))
  <2> DEFINE columns == [id |-> e.id, sku |-> e.sku]
  <2>1. DOMAIN columns \cap {"at", "shop", "market", "visitor"} = {}
    OBVIOUS
  <2> HIDE DEF columns
  <2>2. AllValued([d EXCEPT !["views"] = @ \cup {Extend(Place(e), columns)}])
    BY <1>1, <1>2, <1>3, <2>1
  <2> QED BY <2>2 DEF columns, ProductViewed
<1>4. ASSUME e.type = "add_to_cart" PROVE AllValued(AddToCart(d, e))
  <2> DEFINE columns == [id |-> e.id, sku |-> e.sku]
  <2>1. DOMAIN columns \cap {"at", "shop", "market", "visitor"} = {}
    OBVIOUS
  <2> HIDE DEF columns
  <2>2. AllValued([d EXCEPT !["carts"] = @ \cup {Extend(Place(e), columns)}])
    BY <1>1, <1>2, <1>4, <2>1
  <2> QED BY <2>2 DEF columns, AddToCart
<1>5. ASSUME e.type = "checkout_started" PROVE AllValued(CheckoutStarted(d, e))
  <2> DEFINE columns == [id |-> e.id]
  <2>1. DOMAIN columns \cap {"at", "shop", "market", "visitor"} = {}
    OBVIOUS
  <2> HIDE DEF columns
  <2>2. AllValued([d EXCEPT !["checkouts"] = @ \cup {Extend(Place(e), columns)}])
    BY <1>1, <1>2, <1>5, <2>1
  <2> QED BY <2>2 DEF columns, CheckoutStarted
<1>6. ASSUME e.type = "contact_intent" PROVE AllValued(ContactIntent(d, e))
  <2> DEFINE columns == [id |-> e.id, channel |-> e.channel]
  <2>1. DOMAIN columns \cap {"at", "shop", "market", "visitor"} = {}
    OBVIOUS
  <2> HIDE DEF columns
  <2>2. AllValued([d EXCEPT !["intents"] = @ \cup {Extend(Place(e), columns)}])
    BY <1>1, <1>2, <1>6, <2>1
  <2> QED BY <2>2 DEF columns, ContactIntent
<1> QED BY <1>3, <1>4, <1>5, <1>6

\* A contact is of a lead.
LEMMA ContactsValued ==
  ASSUME NEW d, d = [u \in Tables |-> d[u]], AllValued(d), NEW e, Complete(e)
  PROVE  /\ e.type = "contact_received" => AllValued(ContactReceived(d, e))
         /\ AllValued(CustomerLinked(d, e))
<1>1. ASSUME e.type = "contact_received" PROVE AllValued(ContactReceived(d, e))
  <2> DEFINE row == Extend(Place(e), [id |-> e.contact, lead |-> e.lead,
                                      channel |-> e.contactChannel])
             rows == InsertNew(d["contacts"], row)
  <2>1. row.at = e.at /\ row.lead = e.lead
    BY Placed
  <2> HIDE DEF row
  <2>2. Valued("contacts", row)
    BY <1>1, <2>1 DEF Valued, Complete, WebTables
  <2>3. TableValued("contacts", rows) /\ "contacts" \in Tables
    BY <2>2, InsertedValued DEF AllValued, Tables
  <2> HIDE DEF rows
  <2>4. AllValued([d EXCEPT !["contacts"] = rows])
    BY <2>3, TablesValued
  <2> QED BY <2>4 DEF rows, row, ContactReceived
<1>2. AllValued(CustomerLinked(d, e))
  <2> DEFINE row == [visitor |-> e.visitor, customer |-> e.customer]
             rows == d["links"] \cup {row}
  <2>1. Valued("links", row)
    BY DEF Valued, WebTables, Timeless
  <2> HIDE DEF row
  <2>2. TableValued("links", rows) /\ "links" \in Tables
    BY <2>1, InsertedValued DEF AllValued, Tables
  <2> HIDE DEF rows
  <2>3. AllValued([d EXCEPT !["links"] = rows])
    BY <2>2, TablesValued
  <2> QED BY <2>3 DEF rows, row, CustomerLinked
<1> QED BY <1>1, <1>2

\* A payment step is of a visitor.
LEMMA PaymentsValued ==
  ASSUME NEW d, d = [u \in Tables |-> d[u]], AllValued(d), NEW e, Complete(e)
  PROVE  /\ e.type = "payment_methods_shown" => AllValued(PaymentMethodsShown(d, e))
         /\ e.type = "payment_method_selected" => AllValued(PaymentMethodSelected(d, e))
         /\ e.type = "payment_failed" => AllValued(PaymentFailed(d, e))
<1>0. "payments" \in Tables
  BY DEF Tables
<1>1. \A m, kind : e.visitor # Null => Valued("payments", Payment(e, m, kind))
  <2>1. \A m, kind : /\ Payment(e, m, kind).at = e.at
                     /\ Payment(e, m, kind).visitor = e.visitor
    BY Placed DEF Payment
  <2> QED BY <2>1 DEF Valued, Complete, WebTables
<1>2. e.type \in {"payment_methods_shown", "payment_method_selected", "payment_failed"}
        => e.visitor # Null
  BY DEF Complete, WebEvents
<1>3. ASSUME e.type = "payment_methods_shown" PROVE AllValued(PaymentMethodsShown(d, e))
  <2> DEFINE G == [m \in e.methods |-> Payment(e, m, "shown")]
             more == {Payment(e, m, "shown") : m \in e.methods}
             rows == d["payments"] \cup more
  <2>1. G \in Surjection(e.methods, more) /\ IsFiniteSet(e.methods)
    BY DEF Surjection, Complete
  <2>2. \A p \in more : Valued("payments", p)
    BY <1>1, <1>2, <1>3
  <2> HIDE DEF G, more
  <2>3. IsFiniteSet(more)
    BY <2>1, FS_Surjection
  <2>4. TableValued("payments", more)
    BY <2>2, <2>3 DEF TableValued
  <2>5. TableValued("payments", rows)
    BY <1>0, <2>4, AddedValued DEF AllValued
  <2> HIDE DEF rows
  <2>6. AllValued([d EXCEPT !["payments"] = rows])
    BY <1>0, <2>5, TablesValued
  <2> QED BY <2>6 DEF rows, more, PaymentMethodsShown
<1>4. ASSUME NEW kind, e.visitor # Null
      PROVE  AllValued([d EXCEPT !["payments"] = @ \cup {Payment(e, e.method, kind)}])
  <2> DEFINE row == Payment(e, e.method, kind)
             rows == d["payments"] \cup {row}
  <2>1. Valued("payments", row)
    BY <1>1, <1>4
  <2> HIDE DEF row
  <2>2. TableValued("payments", rows)
    BY <1>0, <2>1, InsertedValued DEF AllValued
  <2> HIDE DEF rows
  <2>3. AllValued([d EXCEPT !["payments"] = rows])
    BY <1>0, <2>2, TablesValued
  <2> QED BY <2>3 DEF rows, row
<1>5. ASSUME e.type = "payment_method_selected" PROVE AllValued(PaymentMethodSelected(d, e))
  BY <1>2, <1>4, <1>5 DEF PaymentMethodSelected
<1>6. ASSUME e.type = "payment_failed" PROVE AllValued(PaymentFailed(d, e))
  BY <1>2, <1>4, <1>6 DEF PaymentFailed
<1> QED BY <1>3, <1>5, <1>6

\* A lead's creation, status and win keep its columns.
LEMMA LeadsValued ==
  ASSUME NEW d, NEW J, Sound(d, J), AllValued(d), NEW e, Complete(e)
  PROVE  /\ AllValued(LeadCreated(d, e))
         /\ AllValued(LeadStatusChanged(d, e))
<1>0. /\ d = [u \in Tables |-> d[u]] /\ "leads" \in Tables /\ "history" \in Tables
      /\ TableValued("leads", d["leads"]) /\ TableValued("history", d["history"])
      /\ \A r \in d["leads"] : DOMAIN r = Columns("leads") /\ Valued("leads", r)
  BY DEF Sound, TableSound, RowSound, Tables, Entities, AllValued, TableValued
<1>1. \A r : Valued("leads", r) <=> r.at \in Nat \cup {Null}
  BY DEF Valued, Tables, Timeless, WebTables
<1>2. AllValued(LeadCreated(d, e))
  <2> DEFINE F == [r \in d["leads"] |-> IF r.id = e.lead THEN CreatedLead(d, e, r) ELSE r]
             rows == LeadCreated(d, e)["leads"]
  <2>1. ASSUME NEW r \in d["leads"] PROVE Valued("leads", F[r])
    <3>1. CASE r.id # e.lead \/ r.event # Null
      BY <1>0, <3>1 DEF CreatedLead
    <3>2. CASE r.id = e.lead /\ r.event = Null
      BY <1>0, <1>1, <3>2, CreatedLeadRow DEF Complete
    <3> QED BY <3>1, <3>2
  <2>2. LeadCreated(d, e) = [d EXCEPT !["leads"] = rows] /\ Takes(F, d["leads"], rows)
    BY <1>0 DEF LeadCreated, Update, Takes
  <2> HIDE DEF F, rows
  <2>3. TableValued("leads", rows)
    BY <1>0, <2>1, <2>2, TakenValued
  <2> QED BY <1>0, <2>2, <2>3, TablesValued
<1>3. AllValued(LeadStatusChanged(d, e))
  <2>1. CASE ~Newer(Row(d["leads"], e.lead), e)
    BY <2>1 DEF LeadStatusChanged
  <2>2. CASE Newer(Row(d["leads"], e.lead), e)
    <3> DEFINE F == [r \in d["leads"] |-> IF r.id = e.lead THEN ChangedLead(e, r) ELSE r]
               rows == LeadStatusChanged(d, e)["leads"]
               d1 == [d EXCEPT !["leads"] = rows]
               row == [id |-> e.id, lead |-> e.lead, status |-> e.status, at |-> e.at]
               lines == d["history"] \cup {row}
    <3>1. ASSUME NEW r \in d["leads"] PROVE Valued("leads", F[r])
      <4>1. CASE r.id # e.lead
        BY <1>0, <4>1
      <4>2. CASE r.id = e.lead
        BY <1>0, <1>1, <4>2, ChangedLeadRow
      <4> QED BY <4>1, <4>2
    <3>2. Takes(F, d["leads"], rows)
      BY <1>0, <2>2 DEF LeadStatusChanged, Update, Takes
    <3>3. LeadStatusChanged(d, e) = [d1 EXCEPT !["history"] = lines]
      BY <1>0, <2>2 DEF LeadStatusChanged
    <3> HIDE DEF F, rows
    <3>4. TableValued("leads", rows)
      BY <1>0, <3>1, <3>2, TakenValued
    <3>5. AllValued(d1) /\ d1 = [u \in Tables |-> d1[u]]
      BY <1>0, <3>4, TablesValued
    <3> HIDE DEF d1
    <3>6. Valued("history", row)
      BY DEF Valued, Timeless, WebTables
    <3> HIDE DEF row
    <3>7. TableValued("history", lines)
      BY <1>0, <3>6, InsertedValued
    <3> HIDE DEF lines
    <3> QED BY <1>0, <3>3, <3>5, <3>7, TablesValued
  <2> QED BY <2>1, <2>2
<1> QED BY <1>2, <1>3

\* A manual sale that was told has an amount and a currency.
LEMMA SalesValued ==
  ASSUME NEW d, NEW J, Sound(d, J), AllValued(d), NEW e, Complete(e), e.type \in SaleChange
  PROVE  AllValued(Dispatch(d, e))
<1>0. /\ d = [u \in Tables |-> d[u]] /\ "sales" \in Tables /\ Null \notin Nat
      /\ TableValued("sales", d["sales"])
      /\ \A r \in d["sales"] : DOMAIN r = Columns("sales") /\ Valued("sales", r)
  BY HistoriesAssumption DEF Sound, TableSound, RowSound, Tables, Entities, AllValued, TableValued
<1>1. \A r : Valued("sales", r) <=>
               /\ r.at \in Nat \cup {Null} /\ r.amount \in Nat \cup {Null}
               /\ r.event # Null => r.amount \in Nat /\ r.currency # Null
  BY DEF Valued, Tables, Timeless, WebTables
<1>2. {"id", "event", "at", "amount", "currency"} \subseteq Columns("sales")
  BY DEF Columns, SaleStub
<1>3. ASSUME NEW F, NEW rows, Takes(F, d["sales"], rows),
             \A r \in d["sales"] : Valued("sales", F[r])
      PROVE  AllValued([d EXCEPT !["sales"] = rows])
  BY <1>0, <1>3, TakenValued, TablesValued
<1>4. CASE e.type = "manual_sale_created"
  <2> DEFINE F == [r \in d["sales"] |-> IF r.id = e.sale THEN CreatedSale(d, e, r) ELSE r]
             rows == SaleCreated(d, e)["sales"]
  <2>1. e.amount \in Nat /\ e.currency # Null /\ e.confirmedAt \in Nat /\ e.amount # Null
    BY <1>0, <1>4 DEF Complete, MoneyEvents
  <2>2. ASSUME NEW r \in d["sales"] PROVE Valued("sales", F[r])
    <3>1. CASE r.id # e.sale \/ r.event # Null
      BY <1>0, <3>1 DEF CreatedSale
    <3>2. CASE r.id = e.sale /\ r.event = Null
      <4> DEFINE n == CreatedSale(d, e, r)
      <4>1. DOMAIN r = Columns("sales") /\ r.event = Null /\ F[r] = n
        BY <1>0, <3>2
      <4>2. n.at = e.confirmedAt
        BY <4>1, CreatedSaleRow
      <4>3. CASE ~r.cancelled /\ Newer(r, e)
        <5>1. n.amount = e.amount /\ n.currency = e.currency
          BY <2>1, <4>1, <4>3, CreatedSaleRow
        <5> HIDE DEF n, F
        <5> QED BY <1>1, <2>1, <4>1, <4>2, <5>1
      <4>4. CASE ~(~r.cancelled /\ Newer(r, e))
        <5>1. /\ r.amount # Null => n.amount = r.amount
              /\ r.currency # Null => n.currency = r.currency
              /\ r.amount = Null => n.amount = e.amount
              /\ r.currency = Null => n.currency = e.currency
          BY <4>1, <4>4, CreatedSaleRow
        <5>2. r.amount \in Nat \cup {Null}
          BY <1>0, <1>1
        <5> HIDE DEF n, F
        <5> QED BY <1>1, <2>1, <4>1, <4>2, <5>1, <5>2
      <4> QED BY <4>3, <4>4
    <3> QED BY <3>1, <3>2
  <2>3. SaleCreated(d, e) = [d EXCEPT !["sales"] = rows] /\ Takes(F, d["sales"], rows)
    BY <1>0 DEF SaleCreated, Update, Takes
  <2> HIDE DEF F, rows
  <2>4. AllValued(SaleCreated(d, e))
    BY <1>3, <2>2, <2>3
  <2> QED BY <1>4, <2>4 DEF Dispatch
<1>5. CASE e.type = "manual_sale_updated"
  <2>1. e.amount \in Nat /\ e.currency # Null
    BY <1>5 DEF Complete, MoneyEvents
  <2>2. CASE ~Newer(Row(d["sales"], e.sale), e)
    BY <1>5, <2>2 DEF Dispatch, SaleUpdated
  <2>3. CASE Newer(Row(d["sales"], e.sale), e)
    <3> DEFINE F == [r \in d["sales"] |-> IF r.id = e.sale THEN UpdatedSale(e, r) ELSE r]
               rows == SaleUpdated(d, e)["sales"]
    <3>1. ASSUME NEW r \in d["sales"] PROVE Valued("sales", F[r])
      <4>1. CASE r.id # e.sale
        BY <1>0, <4>1
      <4>2. CASE r.id = e.sale
        BY <1>0, <1>1, <2>1, <4>2, UpdatedSaleRow
      <4> QED BY <4>1, <4>2
    <3>2. SaleUpdated(d, e) = [d EXCEPT !["sales"] = rows] /\ Takes(F, d["sales"], rows)
      BY <1>0, <2>3 DEF SaleUpdated, Update, Takes
    <3> HIDE DEF F, rows
    <3>3. AllValued(SaleUpdated(d, e))
      BY <1>3, <3>1, <3>2
    <3> QED BY <1>5, <3>3 DEF Dispatch
  <2> QED BY <2>2, <2>3
<1>6. CASE e.type = "manual_sale_cancelled"
  <2>2. CASE ~Newer(Row(d["sales"], e.sale), e)
    BY <1>6, <2>2 DEF Dispatch, SaleCancelled
  <2>3. CASE Newer(Row(d["sales"], e.sale), e)
    <3> DEFINE F == [r \in d["sales"] |-> IF r.id = e.sale THEN CancelledSale(e, r) ELSE r]
               rows == SaleCancelled(d, e)["sales"]
    <3>1. ASSUME NEW r \in d["sales"] PROVE Valued("sales", F[r])
      <4>1. CASE r.id # e.sale
        BY <1>0, <4>1
      <4>2. CASE r.id = e.sale
        BY <1>0, <1>1, <1>2, <4>2, CancelledSaleRow
      <4> QED BY <4>1, <4>2
    <3>2. SaleCancelled(d, e) = [d EXCEPT !["sales"] = rows] /\ Takes(F, d["sales"], rows)
      BY <1>0, <2>3 DEF SaleCancelled, Update, Takes
    <3> HIDE DEF F, rows
    <3>3. AllValued(SaleCancelled(d, e))
      BY <1>3, <3>1, <3>2
    <3> QED BY <1>6, <3>3 DEF Dispatch
  <2> QED BY <2>2, <2>3
<1> QED BY <1>4, <1>5, <1>6 DEF SaleChange

\* The times and the money of an order's row, after an event of it.
LEMMA OrderColumns ==
  ASSUME NEW d, NEW e, NEW r, DOMAIN r = Columns("orders"), Valued("orders", r),
         e.at \in Nat, e.amount \in Nat, e.currency # Null
  PROVE  /\ Valued("orders", CreatedOrder(d, e, r))
         /\ Valued("orders", PaidOrder(d, e, r))
<1>0. /\ Null \notin Nat
      /\ DOMAIN r = {"id", "created", "createdAt", "paid", "paidAt", "amount", "currency",
                     "method", "lead", "visitor", "customer", "cart", "shop", "market", "touch"}
  BY HistoriesAssumption DEF Columns, OrderStub
<1>1. \A n : Valued("orders", n) <=>
               /\ n.createdAt \in Nat \cup {Null} /\ n.paidAt \in Nat \cup {Null}
               /\ n.paid # Null => n.amount \in Nat /\ n.currency # Null
  BY DEF Valued, Tables, Timeless, WebTables
<1>2. Valued("orders", CreatedOrder(d, e, r))
  <2> DEFINE columns == Extend(Entity(e), [created |-> e.id, createdAt |-> e.at])
             row == OverlayRow(r, columns, FALSE)
             n == CreatedOrder(d, e, r)
  <2>1. /\ DOMAIN columns \cap {"paid", "paidAt", "amount"} = {}
        /\ {"createdAt", "currency"} \subseteq DOMAIN columns
        /\ columns.createdAt = e.at /\ columns.currency = e.currency
    BY DEF Extend, Entity
  <2> HIDE DEF columns
  <2>2. /\ DOMAIN row = DOMAIN r
        /\ row.paid = r.paid /\ row.paidAt = r.paidAt /\ row.amount = r.amount
        /\ row.createdAt = e.at /\ row.currency = e.currency
    <3>1. /\ DOMAIN row = DOMAIN r
          /\ \A c \in DOMAIN r \ DOMAIN columns : row[c] = r[c]
          /\ \A c \in DOMAIN r \cap DOMAIN columns :
               row[c] = IF columns[c] = Null THEN r[c] ELSE columns[c]
      BY DEF OverlayRow, Rule!Overlay
    <3> HIDE DEF row
    <3> QED BY <1>0, <2>1, <3>1
  <2>3. Retouched(row, n)
    BY SnapshotRow DEF CreatedOrder, columns
  <2>4. \A c \in DOMAIN row \ {"touch"} : n[c] = row[c]
    BY <2>3 DEF Retouched
  <2> HIDE DEF row, n
  <2>5. /\ n.paid = r.paid /\ n.paidAt = r.paidAt /\ n.amount = r.amount
        /\ n.createdAt = e.at /\ n.currency = e.currency
    BY <1>0, <2>2, <2>4
  <2>6. Valued("orders", n)
    BY <1>1, <2>5
  <2> QED BY <2>6 DEF n
<1>3. Valued("orders", PaidOrder(d, e, r))
  <2> DEFINE since == IF r.createdAt = Null THEN e.at ELSE r.createdAt
             columns == Extend(Entity(e), [paid |-> e.id, paidAt |-> e.at, amount |-> e.amount,
                                           createdAt |-> since])
             row == OverlayRow(r, columns, FALSE)
             n == PaidOrder(d, e, r)
  <2>0. since \in Nat
    BY <1>1
  <2>1. /\ {"paid", "paidAt", "amount", "createdAt", "currency"} \subseteq DOMAIN columns
        /\ columns.paidAt = e.at /\ columns.amount = e.amount /\ columns.createdAt = since
        /\ columns.currency = e.currency
    <3> HIDE DEF since
    <3> QED BY DEF Extend, Entity
  <2>3. Retouched(row, n)
    BY SnapshotRow DEF PaidOrder
  <2> HIDE DEF columns, since
  <2>2. /\ DOMAIN row = DOMAIN r
        /\ row.paidAt = e.at /\ row.amount = e.amount
        /\ row.createdAt = since /\ row.currency = e.currency
    <3>1. /\ DOMAIN row = DOMAIN r
          /\ \A c \in DOMAIN r \cap DOMAIN columns :
               row[c] = IF columns[c] = Null THEN r[c] ELSE columns[c]
      BY DEF OverlayRow, Rule!Overlay
    <3> HIDE DEF row
    <3> QED BY <1>0, <2>0, <2>1, <3>1
  <2>4. \A c \in DOMAIN row \ {"touch"} : n[c] = row[c]
    BY <2>3 DEF Retouched
  <2> HIDE DEF row, n
  <2>5. /\ n.paidAt = e.at /\ n.amount = e.amount
        /\ n.createdAt = since /\ n.currency = e.currency
    BY <1>0, <2>2, <2>4
  <2>6. Valued("orders", n)
    BY <1>1, <2>0, <2>5
  <2> QED BY <2>6 DEF n
<1> QED BY <1>2, <1>3

\* The rows made of a finite set of items are finitely many.
LEMMA ItemsFinite ==
  ASSUME NEW items, IsFiniteSet(items), NEW columns
  PROVE  IsFiniteSet({Extend(l, columns) : l \in items})
<1> DEFINE G == [l \in items |-> Extend(l, columns)]
           made == {Extend(l, columns) : l \in items}
<1>1. G \in Surjection(items, made)
  BY DEF Surjection
<1> HIDE DEF G, made
<1>2. IsFiniteSet(made)
  BY <1>1, FS_Surjection
<1> QED BY <1>2 DEF made

\* The lines of an order are finitely many.
LEMMA LinesFinite ==
  ASSUME NEW d, NEW J, Sound(d, J), AllValued(d), NEW e, Complete(e)
  PROVE  /\ \A isPaid : TableValued("lines", Lines(d, e, isPaid))
         /\ TableValued("refundLines", RefundCreated(d, e)["refundLines"])
<1>1. "lines" \in Tables /\ "refundLines" \in Tables /\ d = [u \in Tables |-> d[u]]
  BY DEF Tables, Sound
<1>2. /\ IsFiniteSet(d["lines"]) /\ IsFiniteSet(d["refundLines"]) /\ IsFiniteSet(e.items)
  BY <1>1 DEF AllValued, TableValued, Complete
<1>3. \A r : Valued("lines", r) /\ Valued("refundLines", r)
  BY DEF Valued, Timeless, WebTables
<1>4. ASSUME NEW isPaid PROVE IsFiniteSet(Lines(d, e, isPaid))
  <2> DEFINE kept == {l \in d["lines"] : ~(l.order = e.order /\ l.paid = isPaid)}
             columns == [order |-> e.order, paid |-> isPaid]
             made == {Extend(l, columns) : l \in e.items}
  <2>1. IsFiniteSet(kept)
    <3>1. kept \subseteq d["lines"]
      OBVIOUS
    <3> HIDE DEF kept
    <3> QED BY <1>2, <3>1, FS_Subset
  <2>2. Lines(d, e, isPaid) = kept \cup made
    BY DEF Lines
  <2> HIDE DEF columns, kept
  <2>3. IsFiniteSet(made)
    BY <1>2, ItemsFinite
  <2> HIDE DEF made
  <2> QED BY <2>1, <2>2, <2>3, FS_Union
<1>5. IsFiniteSet(RefundCreated(d, e)["refundLines"])
  <2> DEFINE columns == [refund |-> e.refund]
             made == {Extend(l, columns) : l \in e.items}
  <2>1. RefundCreated(d, e)["refundLines"] = d["refundLines"] \cup made
    BY <1>1 DEF RefundCreated
  <2> HIDE DEF columns
  <2>2. IsFiniteSet(made)
    BY <1>2, ItemsFinite
  <2> HIDE DEF made
  <2> QED BY <1>2, <2>1, <2>2, FS_Union
<1> QED BY <1>3, <1>4, <1>5 DEF TableValued

\* An order's creation or payment writes its times and amount.
LEMMA OrderPlacedValued ==
  ASSUME NEW d, NEW J, Sound(d, J), AllValued(d), NEW e, Complete(e), NEW n, NEW isPaid,
         Valued("orders", n)
  PROVE  AllValued([WithOrder(d, n) EXCEPT !.lines = Lines(d, e, isPaid)])
<1> DEFINE orders == Update(d["orders"], n.id, LAMBDA r : n)
           refunds == Synced(d, n)
           lines == Lines(d, e, isPaid)
           d1 == [d EXCEPT !["orders"] = orders]
           d2 == [d1 EXCEPT !["refunds"] = refunds]
           Order == [r \in d["orders"] |-> IF r.id = n.id THEN n ELSE r]
           invalid(r) == r.currency # n.currency
           Valid == [r \in d["refunds"] |->
                       IF n.currency # Null /\ r.order = n.id
                       THEN [r EXCEPT !.invalid = invalid(r)] ELSE r]
<1>1. /\ "orders" \in Tables /\ "refunds" \in Tables /\ "lines" \in Tables
      /\ d = [u \in Tables |-> d[u]] /\ \A t \in Tables : TableValued(t, d[t])
  BY DEF Tables, Sound, AllValued
<1>2. [WithOrder(d, n) EXCEPT !.lines = Lines(d, e, isPaid)] = [d2 EXCEPT !["lines"] = lines]
  BY <1>1 DEF WithOrder
<1>3. TableValued("orders", orders)
  <2>1. Takes(Order, d["orders"], orders)
    BY DEF Update, Takes
  <2>2. \A r \in d["orders"] : Valued("orders", Order[r])
    BY <1>1 DEF TableValued
  <2> HIDE DEF Order, orders
  <2> QED BY <1>1, <2>1, <2>2, TakenValued
<1>4. TableValued("refunds", refunds)
  <2>1. Takes(Valid, d["refunds"], refunds)
    <3>1. CASE n.currency = Null
      BY <3>1 DEF Takes, Synced
    <3>2. CASE n.currency # Null
      <4>1. refunds = {IF r.order = n.id THEN [r EXCEPT !.invalid = invalid(r)] ELSE r :
                         r \in d["refunds"]}
        BY <3>2, Zenon DEF Synced
      <4> HIDE DEF refunds, invalid
      <4> QED BY <3>2, <4>1 DEF Takes
    <3> QED BY <3>1, <3>2
  <2>2. ASSUME NEW r \in d["refunds"] PROVE Valued("refunds", Valid[r])
    <3>1. DOMAIN r = {"id", "order", "at", "amount", "currency", "method", "shop", "invalid"}
      BY <1>1 DEF Sound, TableSound, RowSound, Columns, Entities
    <3>2. Valued("refunds", r)
      BY <1>1 DEF TableValued
    <3>3. /\ Valid[r].at = r.at /\ Valid[r].amount = r.amount
          /\ Valid[r].currency = r.currency /\ Valid[r].method = r.method
      <4> HIDE DEF invalid
      <4> QED BY <3>1
    <3> HIDE DEF Valid
    <3> QED BY <3>2, <3>3 DEF Valued, WebTables
  <2> HIDE DEF Valid, refunds
  <2> QED BY <1>1, <2>1, <2>2, TakenValued
<1>5. TableValued("lines", lines)
  BY LinesFinite
<1> HIDE DEF orders, refunds, lines
<1>6. AllValued(d1) /\ d1 = [u \in Tables |-> d1[u]]
  BY <1>1, <1>3, TablesValued
<1> HIDE DEF d1
<1>7. AllValued(d2) /\ d2 = [u \in Tables |-> d2[u]]
  BY <1>1, <1>4, <1>6, TablesValued
<1> HIDE DEF d2
<1> QED BY <1>1, <1>2, <1>5, <1>7, TablesValued

\* With its lines, links and history.
LEMMA OrdersValued ==
  ASSUME NEW d, NEW J, Sound(d, J), AllValued(d), NEW e, Complete(e), Present(d, e),
         e.type \in {"order_created", "order_paid"}
  PROVE  AllValued(Dispatch(d, e))
<1> DEFINE r == Row(d["orders"], e.order)
<1>0. e.at \in Nat /\ e.amount \in Nat /\ e.currency # Null /\ e.order # Null
  BY DEF Complete, MoneyEvents, OrderEvents
<1>1. r \in d["orders"] /\ "orders" \in Tables
  BY <1>0, RowThere DEF Present, Tables
<1>2. DOMAIN r = Columns("orders") /\ Valued("orders", r)
  BY <1>1 DEF Sound, TableSound, RowSound, Entities, AllValued, TableValued
<1> HIDE DEF r
<1>3. ASSUME NEW n, n = CreatedOrder(d, e, r) \/ n = PaidOrder(d, e, r), NEW isPaid
      PROVE  AllValued([WithOrder(d, n) EXCEPT !.lines = Lines(d, e, isPaid)])
  <2>1. Valued("orders", n)
    BY <1>0, <1>2, <1>3, OrderColumns
  <2> QED BY <2>1, OrderPlacedValued
<1>4. CASE e.type = "order_created"
  <2> DEFINE n == CreatedOrder(d, e, r)
             isPaid == FALSE
  <2> HIDE DEF n, isPaid
  <2>1. AllValued([WithOrder(d, n) EXCEPT !.lines = Lines(d, e, isPaid)])
    BY <1>3 DEF n
  <2>2. Dispatch(d, e) = IF r.created # Null THEN d
                         ELSE [WithOrder(d, n) EXCEPT !.lines = Lines(d, e, isPaid)]
    BY <1>4 DEF Dispatch, OrderCreated, n, r, isPaid
  <2> QED BY <2>1, <2>2
<1>5. CASE e.type = "order_paid"
  <2> DEFINE n == PaidOrder(d, e, r)
             isPaid == TRUE
  <2> HIDE DEF n, isPaid
  <2>1. AllValued([WithOrder(d, n) EXCEPT !.lines = Lines(d, e, isPaid)])
    BY <1>3 DEF n
  <2>2. Dispatch(d, e) = IF r.paid # Null THEN d
                         ELSE [WithOrder(d, n) EXCEPT !.lines = Lines(d, e, isPaid)]
    BY <1>5 DEF Dispatch, OrderPaid, n, r, isPaid
  <2> QED BY <2>1, <2>2
<1> QED BY <1>4, <1>5

\* A refund has an amount, a currency and a method.
LEMMA RefundValued ==
  ASSUME NEW d, NEW J, Sound(d, J), AllValued(d), NEW e, Complete(e),
         e.type = "refund_created"
  PROVE  AllValued(RefundCreated(d, e))
<1> DEFINE row == [id |-> e.refund, order |-> e.order, at |-> e.refundedAt, amount |-> e.amount,
                   currency |-> e.currency, method |-> e.method, shop |-> e.shop,
                   invalid |-> FALSE]
           refunds == d["refunds"] \cup {row}
           d1 == [d EXCEPT !["refunds"] = refunds]
           lines == RefundCreated(d, e)["refundLines"]
<1>1. /\ "refunds" \in Tables /\ "refundLines" \in Tables
      /\ d = [u \in Tables |-> d[u]] /\ TableValued("refunds", d["refunds"])
  BY DEF Tables, Sound, AllValued
<1>2. Valued("refunds", row)
  <2>1. e.amount \in Nat /\ e.refundedAt \in Nat /\ e.currency # Null /\ e.method # Null
    BY DEF Complete, MoneyEvents, OrderEvents
  <2> QED BY <2>1 DEF Valued, WebTables
<1>3. RefundCreated(d, e) = [d1 EXCEPT !["refundLines"] = lines]
  BY <1>1 DEF RefundCreated
<1> HIDE DEF row
<1>4. TableValued("refunds", refunds)
  BY <1>1, <1>2, InsertedValued
<1>5. TableValued("refundLines", lines)
  BY LinesFinite
<1> HIDE DEF refunds, lines
<1>6. AllValued(d1) /\ d1 = [u \in Tables |-> d1[u]]
  BY <1>1, <1>4, TablesValued
<1> HIDE DEF d1
<1> QED BY <1>1, <1>3, <1>5, <1>6, TablesValued

\* A refresh changes touches and none of these columns.
LEMMA RefreshValued ==
  ASSUME NEW t \in {"leads", "orders", "sales"}, NEW rows, NEW new, Refresh(rows, new),
         TableValued(t, rows), \A r \in rows : DOMAIN r = Columns(t)
  PROVE  TableValued(t, new)
<1>1. PICK F : Takes(F, rows, new) /\ \A r \in rows : Retouched(r, F[r])
  BY DEF Refresh
<1>2. /\ t = "leads" => "at" \in Columns(t)
      /\ t = "sales" => {"at", "event", "amount", "currency"} \subseteq Columns(t)
      /\ t = "orders" =>
           {"createdAt", "paid", "paidAt", "amount", "currency"} \subseteq Columns(t)
  BY DEF Columns, LeadStub, OrderStub, SaleStub
<1>3. ASSUME NEW r \in rows PROVE Valued(t, F[r])
  <2>1. Valued(t, r) /\ \A c \in Columns(t) \ {"touch"} : F[r][c] = r[c]
    BY <1>1 DEF TableValued, Retouched
  <2>2. CASE t = "leads"
    BY <1>2, <2>1, <2>2 DEF Valued, WebTables
  <2>3. CASE t = "orders"
    BY <1>2, <2>1, <2>3 DEF Valued, WebTables, Timeless
  <2>4. CASE t = "sales"
    BY <1>2, <2>1, <2>4 DEF Valued, WebTables
  <2> QED BY <2>2, <2>3, <2>4
<1> QED BY <1>1, <1>3, TakenValued

\* A session starts: its visitor has a first visit.
LEMMA SessionValued ==
  ASSUME NEW d, NEW J, Sound(d, J), AllValued(d), NEW e, Complete(e),
         e.type = "session_started"
  PROVE  AllValued(SessionStarted(d, e))
<1> DEFINE d2 == SessionStarted(d, e)
           source == ClassifySource(e, ReferralExclusionHosts)
           t == [at |-> e.at, source |-> source, campaign |-> e.campaign]
           touches == ApplyTouch(Row(d["visitors"], e.visitor).touch, t)
           Held == [s \in d["sessions"] |-> IF s.id = e.session
                      THEN Extend(Extend(s, Place(e)), [event |-> e.id, source |-> source]) ELSE s]
           Seen == [v \in d["visitors"] |-> IF v.id = e.visitor
                      THEN [v EXCEPT !.stub = FALSE,
                              !.firstSeen = IF @ = Null \/ e.at < @ THEN e.at ELSE @,
                              !.touch = touches] ELSE v]
<1>1. /\ \A u \in Tables : TableValued(u, d[u])
      /\ \A u \in Entities : \A r \in d[u] : DOMAIN r = Columns(u)
      /\ {"sessions", "visitors", "leads", "orders", "sales"} \subseteq Tables \cap Entities
  BY DEF AllValued, Sound, TableSound, RowSound, Tables, Entities
<1>2. e.visitor # Null /\ e.at \in Nat
  BY DEF Complete, WebEvents
<1>3. d = [u \in Tables |-> d[u]]
  BY DEF Sound
<1>4. Takes(Held, d["sessions"], d2["sessions"])
  BY <1>3 DEF SessionStarted, Update, Takes, Tables
<1>5. Takes(Seen, d["visitors"], d2["visitors"])
  <2> DEFINE first(v) == IF v.firstSeen = Null \/ e.at < v.firstSeen THEN e.at ELSE v.firstSeen
             seen(v) == [v EXCEPT !.stub = FALSE, !.firstSeen = first(v), !.touch = touches]
  <2>1. d2["visitors"] = {IF v.id = e.visitor THEN seen(v) ELSE v : v \in d["visitors"]}
    BY <1>3 DEF SessionStarted, Update, Tables
  <2>2. Seen = [v \in d["visitors"] |-> IF v.id = e.visitor THEN seen(v) ELSE v]
    OBVIOUS
  <2> HIDE DEF seen, Seen, d2
  <2> QED BY <2>1, <2>2 DEF Takes
<1>6. /\ d2 = [u \in Tables |-> d2[u]]
      /\ \A u \in Tables \ {"sessions", "visitors", "leads", "orders", "sales"} : d2[u] = d[u]
      /\ Refresh(d["leads"], d2["leads"]) /\ Refresh(d["orders"], d2["orders"])
      /\ Refresh(d["sales"], d2["sales"])
  BY <1>3, SessionTables
<1>7. ASSUME NEW s \in d["sessions"] PROVE Valued("sessions", Held[s])
  <2> DEFINE s2 == Extend(Extend(s, Place(e)), [event |-> e.id, source |-> source])
  <2>1. s2.at = e.at /\ s2.visitor = e.visitor
    BY DEF Extend, Place
  <2> HIDE DEF s2, source
  <2>2. Valued("sessions", s2)
    BY <1>2, <2>1 DEF Valued
  <2>3. Valued("sessions", s)
    BY <1>1 DEF TableValued
  <2> QED BY <1>7, <2>2, <2>3 DEF s2, Held
<1>8. ASSUME NEW v \in d["visitors"] PROVE Valued("visitors", Seen[v])
  <2> DEFINE first == IF v.firstSeen = Null \/ e.at < v.firstSeen THEN e.at ELSE v.firstSeen
             v2 == [v EXCEPT !.stub = FALSE, !.firstSeen = first, !.touch = touches]
  <2>1. DOMAIN v = {"id", "stub", "firstSeen", "touch"}
    BY <1>1 DEF Columns, VisitorStub
  <2>2. Seen[v] = IF v.id = e.visitor THEN v2 ELSE v
    OBVIOUS
  <2>3. Valued("visitors", v)
    BY <1>1 DEF TableValued
  <2>4. first \in Nat
    BY <1>2, <2>3 DEF Valued
  <2> HIDE DEF touches, first, Seen
  <2>5. v2.firstSeen = first
    BY <2>1
  <2> HIDE DEF v2
  <2>6. Valued("visitors", v2)
    BY <2>4, <2>5 DEF Valued, WebTables, Timeless
  <2> QED BY <2>2, <2>3, <2>6
<1> HIDE DEF d2, Held, Seen, source, t, touches
<1>9. TableValued("sessions", d2["sessions"])
  <2>1. TableValued("sessions", d["sessions"])
    BY <1>1
  <2> QED BY <1>4, <1>7, <2>1, TakenValued
<1>10. TableValued("visitors", d2["visitors"])
  <2>1. TableValued("visitors", d["visitors"])
    BY <1>1
  <2> DEFINE rows == d["visitors"]
             new == d2["visitors"]
  <2>2. /\ Takes(Seen, rows, new) /\ TableValued("visitors", rows)
        /\ \A v \in rows : Valued("visitors", Seen[v])
    BY <1>5, <1>8, <2>1
  <2> HIDE DEF rows, new
  <2>3. TableValued("visitors", new)
    BY <2>2, TakenValued
  <2> QED BY <2>3 DEF new
<1>11. ASSUME NEW u \in {"leads", "orders", "sales"} PROVE TableValued(u, d2[u])
  BY <1>1, <1>6, RefreshValued
<1>12. AllValued(d2)
  BY <1>1, <1>6, <1>9, <1>10, <1>11 DEF AllValued
<1> QED BY <1>12 DEF d2

\* Whatever the event, its handler keeps the columns.
LEMMA DispatchValued ==
  ASSUME NEW d, NEW J, NEW e, Sound(d, J), Present(d, e), Complete(e), AllValued(d)
  PROVE  AllValued(Dispatch(d, e))
<1>0. d = [u \in Tables |-> d[u]]
  BY DEF Sound
<1>1. CASE e.type = "session_started"
  BY <1>1, SessionValued DEF Dispatch
<1>2. CASE e.type \in {"product_viewed", "add_to_cart", "checkout_started", "contact_intent"}
  BY <1>0, <1>2, WebFactsValued DEF Dispatch
<1>3. CASE e.type \in {"contact_received", "customer_linked"}
  BY <1>0, <1>3, ContactsValued DEF Dispatch
<1>4. CASE e.type \in {"payment_methods_shown", "payment_method_selected", "payment_failed"}
  BY <1>0, <1>4, PaymentsValued DEF Dispatch
<1>5. CASE e.type \in LeadChange
  BY <1>5, LeadsValued DEF Dispatch, LeadChange
<1>6. CASE e.type \in {"order_created", "order_paid"}
  BY <1>6, OrdersValued
<1>7. CASE e.type \in SaleChange
  BY <1>7, SalesValued
<1>8. CASE e.type = "refund_created"
  BY <1>8, RefundValued DEF Dispatch
<1> QED BY <1>1, <1>2, <1>3, <1>4, <1>5, <1>6, <1>7, <1>8 DEF Complete, Handled

\* The columns hold what they should at first and after each step.
LEMMA InitValued == Init => AllValued(db)
BY FS_EmptySet DEF Init, DataInit, AllValued, TableValued

LEMMA StepValued == Inv /\ AllValued(db) /\ [Next]_vars => AllValued(db)'
<1> SUFFICES ASSUME Inv, AllValued(db), [Next]_vars PROVE AllValued(db')
  BY DEF AllValued, TableValued, Valued
<1>1. ASSUME NEW e, Ingest(e) PROVE AllValued(db')
  <2>1. Complete(e)
    BY <1>1, HistoriesAssumption DEF Inv, Ingest
  <2>2. Sound(EnsureStubs(db, e), journal) /\ Present(EnsureStubs(db, e), e)
    BY StubsSound DEF Inv
  <2>3. AllValued(EnsureStubs(db, e))
    BY StubsValued DEF Inv
  <2>4. AllValued(Dispatch(EnsureStubs(db, e), e))
    BY <2>1, <2>2, <2>3, DispatchValued
  <2> QED BY <1>1, <2>4 DEF Ingest
<1>2. CASE UNCHANGED db
  BY <1>2
<1> QED
  BY <1>1, <1>2 DEF Next, Arrive, Reject, Refuse, Request, RunStatement, Answer, vars, dataVars

-----------------------------------------------------------------------------
(* Periods *)

\* S is made of the separate sets A and B.
Parts(S, A, B) == S = A \cup B /\ A \cap B = {} /\ IsFiniteSet(S)

\* Separate parts are counted separately.
LEMMA PartsCounted ==
  ASSUME NEW S, NEW A, NEW B, Parts(S, A, B)
  PROVE  /\ IsFiniteSet(A) /\ IsFiniteSet(B)
         /\ Cardinality(S) \in Nat /\ Cardinality(A) \in Nat /\ Cardinality(B) \in Nat
         /\ Cardinality(S) = Cardinality(A) + Cardinality(B)
<1>1. A \subseteq S /\ B \subseteq S
  BY DEF Parts
<1>2. IsFiniteSet(A) /\ IsFiniteSet(B) /\ IsFiniteSet(S)
  BY <1>1, FS_Subset DEF Parts
<1>3. Cardinality(S) \in Nat /\ Cardinality(A) \in Nat /\ Cardinality(B) \in Nat
  BY <1>2, FS_CardinalityType
<1>4. Cardinality(A \cup B) = Cardinality(A) + Cardinality(B) - Cardinality(A \cap B)
  BY <1>2, FS_Union
<1>5. Cardinality(A \cap B) = 0
  BY FS_EmptySet DEF Parts
<1> QED BY <1>2, <1>3, <1>4, <1>5 DEF Parts

\* Filters that differ in their periods only.
Same(f, g) == \A x \in FilterKeys \ {"from", "to"} : g[x] = f[x]

\* A moment of f's period is in one of h's and t's.
Halves(f, h, t) ==
  /\ Same(f, h) /\ Same(f, t)
  /\ \A at \in Nat \cup {Null} :
       /\ InPeriod(at, f) <=> InPeriod(at, h) \/ InPeriod(at, t)
       /\ ~(InPeriod(at, h) /\ InPeriod(at, t))

\* They have the same columns but for the period ...
LEMMA SameColumns ==
  ASSUME NEW f, NEW g, Same(f, g)
  PROVE  /\ g.shop = f.shop /\ g.market = f.market
         /\ g.source = f.source /\ g.campaign = f.campaign /\ g.model = f.model
         /\ g.sku = f.sku /\ g.channel = f.channel /\ g.method = f.method
         /\ g.currency = f.currency
BY DEF Same, FilterKeys

\* ... and so the same conditions.
LEMMA SameConditions ==
  ASSUME NEW f, NEW g, Same(f, g)
  PROVE  /\ \A r : Attributed(r, g) <=> Attributed(r, f)
         /\ \A r : InPlace(r, g) <=> InPlace(r, f)
         /\ \A r : OfAttributedVisitor(r, g) <=> OfAttributedVisitor(r, f)
         /\ \A r : SeenIn(r, g) <=> SeenIn(r, f)
         /\ \A r : Priced(r, g) <=> Priced(r, f)
         /\ \A x : Selects(g.channel, x) <=> Selects(f.channel, x)
         /\ \A x : Selects(g.currency, x) <=> Selects(f.currency, x)
         /\ \A x : Selects(g.method, x) <=> Selects(f.method, x)
         /\ \A x : Selects(g.sku, x) <=> Selects(f.sku, x)
         /\ \A x : Selects(g.shop, x) <=> Selects(f.shop, x)
         /\ \A x : Selects(g.market, x) <=> Selects(f.market, x)
<1>1. /\ g.shop = f.shop /\ g.market = f.market
      /\ g.source = f.source /\ g.campaign = f.campaign /\ g.model = f.model
      /\ g.sku = f.sku /\ g.channel = f.channel /\ g.method = f.method
      /\ g.currency = f.currency
  BY SameColumns
<1>2. \A r : Attributed(r, g) <=> Attributed(r, f)
  BY <1>1 DEF Attributed
<1>3. \A r : InPlace(r, g) <=> InPlace(r, f)
  BY <1>1 DEF InPlace
<1>4. \A r : OfAttributedVisitor(r, g) <=> OfAttributedVisitor(r, f)
  BY <1>1, <1>2 DEF OfAttributedVisitor
<1>5. \A r : SeenIn(r, g) <=> SeenIn(r, f)
  BY <1>1, <1>3 DEF SeenIn
<1>6. \A r : Priced(r, g) <=> Priced(r, f)
  BY <1>1 DEF Priced
<1> QED BY <1>1, <1>2, <1>3, <1>4, <1>5, <1>6

\* The tables are finite; their times are instants.
LEMMA TimesOf ==
  ASSUME AllValued(db)
  PROVE  /\ \A t \in Tables : IsFiniteSet(db[t])
         /\ \A t \in Tables \ Timeless : \A r \in db[t] : r.at \in Nat \cup {Null}
         /\ \A v \in db["visitors"] : v.firstSeen \in Nat \cup {Null}
         /\ \A o \in db["orders"] : o.createdAt \in Nat \cup {Null} /\ o.paidAt \in Nat \cup {Null}
<1>1. "visitors" \in Tables /\ "orders" \in Tables
  BY DEF Tables
<1>2. \A t \in Tables : IsFiniteSet(db[t]) /\ \A r \in db[t] : Valued(t, r)
  BY DEF AllValued, TableValued
<1>3. \A t \in Tables \ Timeless : \A r : Valued(t, r) => r.at \in Nat \cup {Null}
  BY DEF Valued
<1>4. \A r : Valued("visitors", r) => r.firstSeen \in Nat \cup {Null}
  BY DEF Valued
<1>5. \A r : Valued("orders", r) => r.createdAt \in Nat \cup {Null} /\ r.paidAt \in Nat \cup {Null}
  BY DEF Valued
<1> QED BY <1>1, <1>2, <1>3, <1>4, <1>5

\* The rows of a table that a report counts, by a time of theirs.
LEMMA RowsHalved ==
  ASSUME AllValued(db), NEW f, NEW h, NEW t, Halves(f, h, t)
  PROVE  /\ Parts(NewVisitors(f), NewVisitors(h), NewVisitors(t))
         /\ Parts(SessionRows(f), SessionRows(h), SessionRows(t))
         /\ Parts(LeadRows(f), LeadRows(h), LeadRows(t))
         /\ Parts(OrdersCreated(f), OrdersCreated(h), OrdersCreated(t))
         /\ Parts(OrdersPaid(f), OrdersPaid(h), OrdersPaid(t))
         /\ Parts(ManualSales(f), ManualSales(h), ManualSales(t))
         /\ Parts(AttributedRefunds(f), AttributedRefunds(h), AttributedRefunds(t))
         /\ Parts(ContactRows(f), ContactRows(h), ContactRows(t))
         /\ \A u \in {"views", "carts", "checkouts", "payments"} :
              Parts(FactRows(db[u], f), FactRows(db[u], h), FactRows(db[u], t))
<1>0. /\ {"visitors", "sessions", "leads", "orders", "sales", "refunds", "contacts", "views",
          "carts", "checkouts", "payments"} \subseteq Tables
      /\ {"sessions", "leads", "sales", "refunds", "contacts", "views", "carts", "checkouts",
          "payments"} \cap Timeless = {}
  BY DEF Tables, Timeless
<1>1. /\ \A u \in Tables : IsFiniteSet(db[u])
      /\ \A u \in Tables \ Timeless : \A r \in db[u] : r.at \in Nat \cup {Null}
      /\ \A v \in db["visitors"] : v.firstSeen \in Nat \cup {Null}
      /\ \A o \in db["orders"] : o.createdAt \in Nat \cup {Null} /\ o.paidAt \in Nat \cup {Null}
  BY TimesOf
<1>2. \A at \in Nat \cup {Null} :
        /\ InPeriod(at, f) <=> InPeriod(at, h) \/ InPeriod(at, t)
        /\ ~(InPeriod(at, h) /\ InPeriod(at, t))
  BY DEF Halves
<1>3. /\ \A r : Attributed(r, h) <=> Attributed(r, f)
      /\ \A r : InPlace(r, h) <=> InPlace(r, f)
      /\ \A r : OfAttributedVisitor(r, h) <=> OfAttributedVisitor(r, f)
      /\ \A r : SeenIn(r, h) <=> SeenIn(r, f)
      /\ \A r : Priced(r, h) <=> Priced(r, f)
      /\ \A x : Selects(h.channel, x) <=> Selects(f.channel, x)
      /\ \A x : Selects(h.currency, x) <=> Selects(f.currency, x)
      /\ \A x : Selects(h.shop, x) <=> Selects(f.shop, x)
      /\ \A x : Selects(h.market, x) <=> Selects(f.market, x)
  BY SameConditions DEF Halves
<1>4. /\ \A r : Attributed(r, t) <=> Attributed(r, f)
      /\ \A r : InPlace(r, t) <=> InPlace(r, f)
      /\ \A r : OfAttributedVisitor(r, t) <=> OfAttributedVisitor(r, f)
      /\ \A r : SeenIn(r, t) <=> SeenIn(r, f)
      /\ \A r : Priced(r, t) <=> Priced(r, f)
      /\ \A x : Selects(t.channel, x) <=> Selects(f.channel, x)
      /\ \A x : Selects(t.currency, x) <=> Selects(f.currency, x)
      /\ \A x : Selects(t.shop, x) <=> Selects(f.shop, x)
      /\ \A x : Selects(t.market, x) <=> Selects(f.market, x)
  BY SameConditions DEF Halves
<1>5. ASSUME NEW u \in Tables, NEW S, NEW A, NEW B, S \subseteq db[u], S = A \cup B, A \cap B = {}
      PROVE  Parts(S, A, B)
  BY <1>1, <1>5, FS_Subset DEF Parts
<1>6. Parts(NewVisitors(f), NewVisitors(h), NewVisitors(t))
  <2>1. /\ NewVisitors(f) \subseteq db["visitors"]
        /\ NewVisitors(f) = NewVisitors(h) \cup NewVisitors(t)
        /\ NewVisitors(h) \cap NewVisitors(t) = {}
    BY <1>1, <1>2, <1>3, <1>4 DEF NewVisitors
  <2> QED BY <1>0, <1>5, <2>1
<1>7. Parts(SessionRows(f), SessionRows(h), SessionRows(t))
  <2>1. /\ SessionRows(f) \subseteq db["sessions"]
        /\ SessionRows(f) = SessionRows(h) \cup SessionRows(t)
        /\ SessionRows(h) \cap SessionRows(t) = {}
    BY <1>0, <1>1, <1>2, <1>3, <1>4 DEF SessionRows, Scoped
  <2> QED BY <1>0, <1>5, <2>1
<1>8. Parts(LeadRows(f), LeadRows(h), LeadRows(t))
  <2>1. /\ LeadRows(f) \subseteq db["leads"]
        /\ LeadRows(f) = LeadRows(h) \cup LeadRows(t)
        /\ LeadRows(h) \cap LeadRows(t) = {}
    BY <1>0, <1>1, <1>2, <1>3, <1>4 DEF LeadRows, Scoped
  <2> QED BY <1>0, <1>5, <2>1
<1>9. Parts(OrdersCreated(f), OrdersCreated(h), OrdersCreated(t))
  <2>1. /\ OrdersCreated(f) \subseteq db["orders"]
        /\ OrdersCreated(f) = OrdersCreated(h) \cup OrdersCreated(t)
        /\ OrdersCreated(h) \cap OrdersCreated(t) = {}
    BY <1>1, <1>2, <1>3, <1>4 DEF OrdersCreated, Scoped
  <2> QED BY <1>0, <1>5, <2>1
<1>10. Parts(OrdersPaid(f), OrdersPaid(h), OrdersPaid(t))
  <2>1. /\ OrdersPaid(f) \subseteq db["orders"]
        /\ OrdersPaid(f) = OrdersPaid(h) \cup OrdersPaid(t)
        /\ OrdersPaid(h) \cap OrdersPaid(t) = {}
    BY <1>1, <1>2, <1>3, <1>4 DEF OrdersPaid, Scoped
  <2> QED BY <1>0, <1>5, <2>1
<1>11. Parts(ManualSales(f), ManualSales(h), ManualSales(t))
  <2>1. /\ ManualSales(f) \subseteq db["sales"]
        /\ ManualSales(f) = ManualSales(h) \cup ManualSales(t)
        /\ ManualSales(h) \cap ManualSales(t) = {}
    BY <1>0, <1>1, <1>2, <1>3, <1>4 DEF ManualSales, Scoped
  <2> QED BY <1>0, <1>5, <2>1
<1>12. Parts(AttributedRefunds(f), AttributedRefunds(h), AttributedRefunds(t))
  <2>1. /\ AttributedRefunds(f) \subseteq db["refunds"]
        /\ AttributedRefunds(f) = AttributedRefunds(h) \cup AttributedRefunds(t)
        /\ AttributedRefunds(h) \cap AttributedRefunds(t) = {}
    BY <1>0, <1>1, <1>2, <1>3, <1>4 DEF AttributedRefunds, Refunds
  <2> QED BY <1>0, <1>5, <2>1
<1>13. Parts(ContactRows(f), ContactRows(h), ContactRows(t))
  <2>0. /\ h.source = f.source /\ h.campaign = f.campaign
        /\ t.source = f.source /\ t.campaign = f.campaign
    BY SameColumns DEF Halves
  <2>1. /\ ContactRows(f) \subseteq db["contacts"]
        /\ ContactRows(f) = ContactRows(h) \cup ContactRows(t)
        /\ ContactRows(h) \cap ContactRows(t) = {}
    BY <1>0, <1>1, <1>2, <1>3, <1>4, <2>0 DEF ContactRows, Scoped
  <2> QED BY <1>0, <1>5, <2>1
<1>14. ASSUME NEW u \in {"views", "carts", "checkouts", "payments"}
       PROVE  Parts(FactRows(db[u], f), FactRows(db[u], h), FactRows(db[u], t))
  <2>0. u \in Tables \ Timeless
    BY <1>0
  <2>1. /\ FactRows(db[u], f) \subseteq db[u]
        /\ FactRows(db[u], f) = FactRows(db[u], h) \cup FactRows(db[u], t)
        /\ FactRows(db[u], h) \cap FactRows(db[u], t) = {}
    BY <1>1, <1>2, <1>3, <1>4, <2>0 DEF FactRows, Scoped
  <2> QED BY <1>5, <2>0, <2>1
<1> QED BY <1>6, <1>7, <1>8, <1>9, <1>10, <1>11, <1>12, <1>13, <1>14

-----------------------------------------------------------------------------
(* Sums *)

\* A set with 0, and with n + 1 whenever with n, has every natural number.
LEMMA AllNumbers ==
  ASSUME NEW N, 0 \in N, \A n \in Nat : n \in N => n + 1 \in N
  PROVE  Nat \subseteq N
<1> DEFINE T == Nat \ N
           R == OpToRel(<, Nat)
<1> SUFFICES ASSUME T # {} PROVE FALSE
  OBVIOUS
<1>1. IsWellFoundedOn(R, Nat)
  BY NatLessThanWellFounded
<1>2. \A x, y \in Nat : y < x => <<y, x>> \in R
  BY DEF OpToRel
<1> HIDE DEF R
<1>3. \E x \in T : \A y \in T : ~(<<y, x>> \in R)
  BY <1>1, WFMin
<1>4. PICK x \in T : \A y \in T : ~(<<y, x>> \in R)
  BY <1>3
<1>5. x # 0 /\ x - 1 \in Nat /\ x - 1 < x /\ x = (x - 1) + 1
  OBVIOUS
<1>6. x - 1 \in N
  BY <1>2, <1>4, <1>5
<1> QED BY <1>4, <1>5, <1>6

\* The element that a sum takes next.
Some(s) == CHOOSE x \in s : TRUE

\* g is the sum of f over each set of T.
Sums(g, f, T) ==
  /\ g \in [SUBSET T -> Int]
  /\ g[{}] = 0
  /\ \A s \in SUBSET T : \A x \in s : g[s] = f[x] + g[s \ {x}]

\* g sums in the order in which elements are chosen.
Chosen(g, f, T) ==
  \A s \in SUBSET T : g[s] = IF s = {} THEN 0 ELSE f[Some(s)] + g[s \ {Some(s)}]

\* Subsets of a finite set, and what taking one element leaves.
LEMMA Smaller ==
  ASSUME NEW T, IsFiniteSet(T), NEW s \in SUBSET T
  PROVE  /\ IsFiniteSet(s) /\ Cardinality(s) \in Nat
         /\ s # {} => Some(s) \in s
         /\ \A x \in s : s \ {x} \in SUBSET T /\ Cardinality(s \ {x}) = Cardinality(s) - 1
         /\ Cardinality(s) <= 0 => s = {}
         /\ Cardinality(s) <= Cardinality(s)
<1>1. IsFiniteSet(s)
  BY FS_Subset
<1>2. Cardinality(s) \in Nat
  BY <1>1, FS_CardinalityType
<1>3. \A x \in s : Cardinality(s \ {x}) = Cardinality(s) - 1
  BY <1>1, FS_RemoveElement
<1>4. Cardinality(s) <= 0 => s = {}
  BY <1>1, <1>2, FS_EmptySet
<1>5. s # {} => Some(s) \in s
  BY DEF Some
<1> QED BY <1>1, <1>2, <1>3, <1>4, <1>5

\* There is such a sum over every finite set.
LEMMA ChosenThere ==
  ASSUME NEW T, IsFiniteSet(T), NEW f \in [T -> Int]
  PROVE  \E g \in [SUBSET T -> Int] : Chosen(g, f, T)
<1> DEFINE UpTo(n) == {s \in SUBSET T : Cardinality(s) <= n}
           One(g, s) == IF s = {} THEN 0 ELSE f[Some(s)] + g[s \ {Some(s)}]
           N == {n \in Nat : \E g \in [SUBSET T -> Int] : \A s \in SUBSET T :
                   Cardinality(s) <= n => g[s] = One(g, s)}
<1>1. \A s \in SUBSET T : /\ Cardinality(s) \in Nat
                          /\ s # {} => /\ Some(s) \in s /\ Some(s) \in T
                                       /\ s \ {Some(s)} \in SUBSET T
                                       /\ Cardinality(s \ {Some(s)}) = Cardinality(s) - 1
                          /\ Cardinality(s) <= 0 => s = {}
                          /\ Cardinality(s) <= Cardinality(s)
  BY Smaller
<1>2. 0 \in N
  <2> DEFINE g == [s \in SUBSET T |-> 0]
  <2>1. g \in [SUBSET T -> Int]
    OBVIOUS
  <2>2. \A s \in SUBSET T : Cardinality(s) <= 0 => s = {}
    BY <1>1
  <2>3. \A s \in SUBSET T : Cardinality(s) <= 0 => g[s] = One(g, s)
    BY <2>2
  <2> QED BY <2>1, <2>3
<1>3. ASSUME NEW n \in Nat, n \in N PROVE n + 1 \in N
  <2>1. PICK g \in [SUBSET T -> Int] : \A s \in SUBSET T : Cardinality(s) <= n => g[s] = One(g, s)
    BY <1>3
  <2> DEFINE h == [s \in SUBSET T |-> IF Cardinality(s) <= n THEN g[s] ELSE One(g, s)]
  <2>2. ASSUME NEW s \in SUBSET T PROVE One(g, s) \in Int
    <3>1. CASE s = {}
      BY <3>1
    <3>2. CASE s # {}
      <4>1. f[Some(s)] \in Int /\ g[s \ {Some(s)}] \in Int
        BY <1>1, <3>2
      <4> QED BY <3>2, <4>1
    <3> QED BY <3>1, <3>2
  <2>3. h \in [SUBSET T -> Int]
    BY <2>2
  <2>4. \A s \in SUBSET T : Cardinality(s) <= n + 1 => h[s] = One(h, s)
    <3> TAKE s \in SUBSET T
    <3> HAVE Cardinality(s) <= n + 1
    <3>1. CASE s = {}
      BY <1>1, <2>1, <3>1
    <3>2. CASE s # {}
      <4>1. s \ {Some(s)} \in SUBSET T /\ Cardinality(s \ {Some(s)}) <= n
        BY <1>1, <3>2
      <4>2. h[s \ {Some(s)}] = g[s \ {Some(s)}]
        BY <4>1
      <4>3. h[s] = One(g, s)
        BY <2>1
      <4> QED BY <3>2, <4>2, <4>3
    <3> QED BY <3>1, <3>2
  <2>5. n + 1 \in Nat
    OBVIOUS
  <2> HIDE DEF h
  <2> QED BY <2>3, <2>4, <2>5
<1> HIDE DEF N
<1>4. Nat \subseteq N
  BY <1>2, <1>3, AllNumbers
<1>5. Cardinality(T) \in N
  BY <1>1, <1>4
<1>6. PICK g \in [SUBSET T -> Int] :
        \A s \in SUBSET T : Cardinality(s) <= Cardinality(T) => g[s] = One(g, s)
  BY <1>5 DEF N
<1>7. \A s \in SUBSET T : Cardinality(s) <= Cardinality(T)
  BY FS_Subset
<1> QED BY <1>6, <1>7 DEF Chosen

\* In whatever order: the sum of a set is that without one of them, and that one.
LEMMA ChosenSums ==
  ASSUME NEW T, IsFiniteSet(T), NEW f \in [T -> Int], NEW g \in [SUBSET T -> Int], Chosen(g, f, T)
  PROVE  Sums(g, f, T)
<1> DEFINE N == {n \in Nat : \A s \in SUBSET T :
                   Cardinality(s) <= n => \A x \in s : g[s] = f[x] + g[s \ {x}]}
<1>1. \A s \in SUBSET T : /\ Cardinality(s) \in Nat
                          /\ s # {} => Some(s) \in s
                          /\ \A x \in s : /\ x \in T /\ s \ {x} \in SUBSET T
                                          /\ Cardinality(s \ {x}) = Cardinality(s) - 1
                          /\ Cardinality(s) <= 0 => s = {}
                          /\ Cardinality(s) <= Cardinality(s)
  BY Smaller
<1>2. 0 \in N
  <2>2. \A s \in SUBSET T : Cardinality(s) <= 0 => s = {}
    BY <1>1
  <2> QED BY <2>2
<1>3. ASSUME NEW n \in Nat, n \in N PROVE n + 1 \in N
  <2>1. ASSUME NEW s \in SUBSET T, Cardinality(s) <= n + 1, NEW x \in s
        PROVE  g[s] = f[x] + g[s \ {x}]
    <3> DEFINE y == Some(s)
    <3>1. y \in s /\ g[s] = f[y] + g[s \ {y}]
      BY <1>1 DEF Chosen
    <3>2. CASE x = y
      BY <3>1, <3>2
    <3>3. CASE x # y
      <4> HIDE DEF y
      <4>1. /\ s \ {x} \in SUBSET T /\ Cardinality(s \ {x}) <= n /\ y \in s \ {x}
            /\ s \ {y} \in SUBSET T /\ Cardinality(s \ {y}) <= n /\ x \in s \ {y}
        BY <1>1, <2>1, <3>1, <3>3
      <4>2. g[s \ {x}] = f[y] + g[(s \ {x}) \ {y}]
        BY <1>3, <4>1
      <4>3. g[s \ {y}] = f[x] + g[(s \ {y}) \ {x}]
        BY <1>3, <4>1
      <4>4. (s \ {x}) \ {y} = (s \ {y}) \ {x}
        OBVIOUS
      <4>5. (s \ {x}) \ {y} \in SUBSET T
        OBVIOUS
      <4>6. f[x] \in Int /\ f[y] \in Int /\ g[(s \ {x}) \ {y}] \in Int
        BY <3>1, <4>5
      <4> HIDE DEF N
      <4> DEFINE r == g[(s \ {x}) \ {y}]
      <4>7. g[s] = f[y] + (f[x] + r) /\ g[s \ {x}] = f[y] + r
        BY <3>1, <4>2, <4>3, <4>4
      <4> HIDE DEF r
      <4>8. f[y] + (f[x] + r) = f[x] + (f[y] + r)
        BY <4>6 DEF r
      <4> QED BY <4>7, <4>8
    <3> QED BY <3>2, <3>3
  <2>2. n + 1 \in Nat
    OBVIOUS
  <2> QED BY <2>1, <2>2
<1> HIDE DEF N
<1>4. Nat \subseteq N
  BY <1>2, <1>3, AllNumbers
<1>5. ASSUME NEW s \in SUBSET T, NEW x \in s
      PROVE  g[s] = f[x] + g[s \ {x}]
  <2>1. Cardinality(s) \in N /\ Cardinality(s) <= Cardinality(s)
    BY <1>1, <1>4
  <2> QED BY <2>1 DEF N
<1>6. g[{}] = 0
  BY DEF Chosen
<1> QED BY <1>5, <1>6 DEF Sums

\* And there is one such function only.
LEMMA SumsSame ==
  ASSUME NEW T, IsFiniteSet(T), NEW f, NEW g, NEW h, Chosen(g, f, T), Chosen(h, f, T)
  PROVE  \A s \in SUBSET T : g[s] = h[s]
<1> DEFINE N == {n \in Nat : \A s \in SUBSET T : Cardinality(s) <= n => g[s] = h[s]}
<1>1. \A s \in SUBSET T : /\ Cardinality(s) \in Nat
                          /\ s # {} => /\ s \ {Some(s)} \in SUBSET T
                                       /\ Cardinality(s \ {Some(s)}) = Cardinality(s) - 1
                          /\ Cardinality(s) <= 0 => s = {}
                          /\ Cardinality(s) <= Cardinality(s)
  BY Smaller
<1>2. 0 \in N
  <2>1. \A s \in SUBSET T : Cardinality(s) <= 0 => s = {}
    BY <1>1
  <2>2. g[{}] = 0 /\ h[{}] = 0
    BY DEF Chosen
  <2> QED BY <2>1, <2>2
<1>3. ASSUME NEW n \in Nat, n \in N PROVE n + 1 \in N
  <2>1. ASSUME NEW s \in SUBSET T, Cardinality(s) <= n + 1 PROVE g[s] = h[s]
    <3>1. CASE s = {}
      BY <3>1 DEF Chosen
    <3>2. CASE s # {}
      <4>1. s \ {Some(s)} \in SUBSET T /\ Cardinality(s \ {Some(s)}) <= n
        BY <1>1, <2>1, <3>2
      <4>2. g[s \ {Some(s)}] = h[s \ {Some(s)}]
        BY <1>3, <4>1
      <4> HIDE DEF N
      <4> QED BY <3>2, <4>2 DEF Chosen
    <3> QED BY <3>1, <3>2
  <2>2. n + 1 \in Nat
    OBVIOUS
  <2> QED BY <2>1, <2>2
<1> HIDE DEF N
<1>4. Nat \subseteq N
  BY <1>2, <1>3, AllNumbers
<1>5. ASSUME NEW s \in SUBSET T PROVE g[s] = h[s]
  <2>1. Cardinality(s) \in N /\ Cardinality(s) <= Cardinality(s)
    BY <1>1, <1>4
  <2> QED BY <2>1 DEF N
<1> QED BY <1>5

\* The library's sum of f over each set.
LEMMA SumWhole ==
  ASSUME NEW T, IsFiniteSet(T), NEW f \in [T -> Int]
  PROVE  \E g : Sums(g, f, T) /\ \A S \in SUBSET T : SumFunctionOnSet(f, S) = g[S]
<1>1. PICK g \in [SUBSET T -> Int] : Chosen(g, f, T)
  BY ChosenThere
<1>2. Sums(g, f, T)
  BY <1>1, ChosenSums
<1>3. ASSUME NEW S \in SUBSET T PROVE SumFunctionOnSet(f, S) = g[S]
  <2> DEFINE def(h) == [s \in SUBSET S |->
                          IF s = {} THEN 0 ELSE f[Some(s)] + h[s \ {Some(s)}]]
             it == CHOOSE h : h = def(h)
             p == [s \in SUBSET S |-> g[s]]
  <2>1. \A s \in SUBSET S : s # {} => Some(s) \in S
    BY DEF Some
  <2>2. \A s \in SUBSET S : /\ s \in SUBSET T /\ s \ {Some(s)} \in SUBSET S
                            /\ g[s] = IF s = {} THEN 0 ELSE f[Some(s)] + g[s \ {Some(s)}]
    BY <1>1 DEF Chosen
  <2>3. p = def(p)
    BY <2>2
  <2>4. it = def(it)
    BY <2>3
  <2>5. Chosen(it, f, S)
    <3> HIDE DEF it
    <3> QED BY <2>4 DEF Chosen
  <2>6. IsFiniteSet(S) /\ Chosen(p, f, S)
    BY <2>2, FS_Subset DEF Chosen
  <2>7. it[S] = p[S]
    <3> HIDE DEF it, p
    <3> QED BY <2>5, <2>6, SumsSame
  <2>8. SumFunctionOnSet(f, S) = it[S]
    BY DEF SumFunctionOnSet, FoldFunctionOnSet, MapThenFoldSet, Some
  <2> QED BY <2>7, <2>8
<1> QED BY <1>2, <1>3

\* Induction over the subsets of a finite set: P has the empty set, and each set
\* with one element more than one of its own.
LEMMA AllSubsets ==
  ASSUME NEW T, IsFiniteSet(T), NEW P, {} \in P,
         \A s \in SUBSET T : \A x \in T \ s : s \in P => s \cup {x} \in P
  PROVE  \A s \in SUBSET T : s \in P
<1> DEFINE N == {n \in Nat : \A s \in SUBSET T : Cardinality(s) <= n => s \in P}
<1>1. \A s \in SUBSET T : /\ Cardinality(s) \in Nat
                          /\ s # {} => Some(s) \in s
                          /\ \A x \in s : /\ x \in T /\ s \ {x} \in SUBSET T
                                          /\ Cardinality(s \ {x}) = Cardinality(s) - 1
                          /\ Cardinality(s) <= 0 => s = {}
                          /\ Cardinality(s) <= Cardinality(s)
  BY Smaller
<1>2. 0 \in N
  BY <1>1
<1>3. ASSUME NEW n \in Nat, n \in N PROVE n + 1 \in N
  <2>1. ASSUME NEW s \in SUBSET T, Cardinality(s) <= n + 1, s # {} PROVE s \in P
    <3>1. PICK x \in s : x = Some(s)
      BY <1>1, <2>1
    <3>2. s \ {x} \in SUBSET T /\ Cardinality(s \ {x}) <= n /\ x \in T
      BY <1>1, <2>1
    <3>3. s \ {x} \in P
      BY <1>3, <3>2
    <3>4. s = (s \ {x}) \cup {x} /\ x \in T \ (s \ {x})
      BY <3>2
    <3> HIDE DEF N
    <3> QED BY <3>2, <3>3, <3>4
  <2>2. n + 1 \in Nat
    OBVIOUS
  <2> QED BY <2>1, <2>2
<1> HIDE DEF N
<1>4. Nat \subseteq N
  BY <1>2, <1>3, AllNumbers
<1>5. ASSUME NEW s \in SUBSET T PROVE s \in P
  <2>1. Cardinality(s) \in N /\ Cardinality(s) <= Cardinality(s)
    BY <1>1, <1>4
  <2> QED BY <2>1 DEF N
<1> QED BY <1>5

\* An element more adds its figure.
LEMMA SumsAdd ==
  ASSUME NEW T, NEW f, NEW g, Sums(g, f, T), NEW s \in SUBSET T, NEW x \in T \ s
  PROVE  s \cup {x} \in SUBSET T /\ g[s \cup {x}] = f[x] + g[s]
<1>1. s \cup {x} \in SUBSET T /\ x \in s \cup {x} /\ (s \cup {x}) \ {x} = s
  OBVIOUS
<1> QED BY <1>1 DEF Sums

\* A sum is a whole number; it is 0 if nothing is summed.
LEMMA SumTyped ==
  ASSUME NEW T, IsFiniteSet(T), NEW f \in [T -> Int]
  PROVE  /\ \A S \in SUBSET T : SumFunctionOnSet(f, S) \in Int
         /\ SumFunctionOnSet(f, {}) = 0
<1>1. PICK g : Sums(g, f, T) /\ \A S \in SUBSET T : SumFunctionOnSet(f, S) = g[S]
  BY SumWhole
<1> QED BY <1>1 DEF Sums

\* It depends on the figures of the set only.
LEMMA SumSame ==
  ASSUME NEW T, IsFiniteSet(T), NEW f \in [T -> Int],
         NEW U, IsFiniteSet(U), NEW h \in [U -> Int],
         NEW S \in SUBSET T, S \in SUBSET U, \A x \in S : f[x] = h[x]
  PROVE  SumFunctionOnSet(f, S) = SumFunctionOnSet(h, S)
<1>1. PICK F : Sums(F, f, T) /\ \A R \in SUBSET T : SumFunctionOnSet(f, R) = F[R]
  BY SumWhole
<1>2. PICK H : Sums(H, h, U) /\ \A R \in SUBSET U : SumFunctionOnSet(h, R) = H[R]
  BY SumWhole
<1> DEFINE P == {s \in SUBSET S : F[s] = H[s]}
<1>3. {} \in P
  BY <1>1, <1>2 DEF Sums
<1>4. ASSUME NEW s \in SUBSET S, NEW x \in S \ s, s \in P PROVE s \cup {x} \in P
  <2>1. s \in SUBSET T /\ x \in T \ s /\ s \in SUBSET U /\ x \in U \ s
    OBVIOUS
  <2>2. F[s \cup {x}] = f[x] + F[s] /\ s \cup {x} \in SUBSET S
    BY <1>1, <2>1, SumsAdd
  <2>3. H[s \cup {x}] = h[x] + H[s]
    BY <1>2, <2>1, SumsAdd
  <2> QED BY <1>4, <2>2, <2>3
<1> HIDE DEF P
<1>5. IsFiniteSet(S)
  BY FS_Subset
<1>6. \A s \in SUBSET S : s \in P
  BY <1>3, <1>4, <1>5, AllSubsets
<1>7. F[S] = H[S]
  BY <1>6 DEF P
<1> QED BY <1>1, <1>2, <1>7

\* Of two sets without a common element.
LEMMA SumParts ==
  ASSUME NEW T, IsFiniteSet(T), NEW f \in [T -> Int]
  PROVE  \A A, B \in SUBSET T : A \cap B = {} =>
           SumFunctionOnSet(f, A \cup B)
             = SumFunctionOnSet(f, A) + SumFunctionOnSet(f, B)
<1> SUFFICES ASSUME NEW A \in SUBSET T, NEW B \in SUBSET T, A \cap B = {}
             PROVE  SumFunctionOnSet(f, A \cup B)
                      = SumFunctionOnSet(f, A) + SumFunctionOnSet(f, B)
  OBVIOUS
<1>1. IsFiniteSet(B) /\ A \cup B \in SUBSET T
  BY FS_Subset
<1>3. PICK g : /\ Sums(g, f, T)
               /\ \A S \in SUBSET T : SumFunctionOnSet(f, S) = g[S]
  BY SumWhole
<1> DEFINE P == {s \in SUBSET B : g[A \cup s] = g[A] + g[s]}
<1>4. g[A] \in Int
  BY <1>3 DEF Sums
<1>5. {} \in P
  <2>1. A \cup {} = A /\ g[{}] = 0
    BY <1>3 DEF Sums
  <2> QED BY <1>4, <2>1
<1>6. ASSUME NEW s \in SUBSET B, NEW x \in B \ s, s \in P PROVE s \cup {x} \in P
  <2>1. /\ s \in SUBSET T /\ A \cup s \in SUBSET T /\ x \in T \ s /\ x \in T \ (A \cup s)
        /\ (A \cup s) \cup {x} = A \cup (s \cup {x})
    OBVIOUS
  <2>2. g[s \cup {x}] = f[x] + g[s] /\ g[A \cup (s \cup {x})] = f[x] + g[A \cup s]
    <3> DEFINE W == A \cup s
    <3> HIDE DEF W
    <3>1. s \in SUBSET T /\ W \in SUBSET T /\ x \in T \ s /\ x \in T \ W
      BY <2>1 DEF W
    <3>2. g[s \cup {x}] = f[x] + g[s]
      BY <1>3, <3>1, SumsAdd
    <3>3. g[W \cup {x}] = f[x] + g[W]
      BY <1>3, <3>1, SumsAdd
    <3> QED BY <2>1, <3>2, <3>3 DEF W
  <2>3. f[x] \in Int /\ g[s] \in Int /\ g[A \cup s] = g[A] + g[s]
    BY <1>3, <1>6, <2>1 DEF Sums
  <2>4. f[x] + (g[A] + g[s]) = g[A] + (f[x] + g[s])
    BY <1>4, <2>3
  <2> QED BY <2>2, <2>3, <2>4
<1> HIDE DEF P
<1>7. B \in P
  <2>1. \A s \in SUBSET B : s \in P
    BY <1>1, <1>5, <1>6, AllSubsets
  <2> QED BY <2>1
<1>8. g[A \cup B] = g[A] + g[B]
  BY <1>7 DEF P
<1> QED BY <1>1, <1>3, <1>8

\* Of two figures of each element.
LEMMA SumOfSums ==
  ASSUME NEW T, IsFiniteSet(T), NEW f \in [T -> Int], NEW h \in [T -> Int],
         NEW p \in [T -> Int], \A x \in T : p[x] = f[x] + h[x],
         NEW d \in [T -> Int], \A x \in T : d[x] = f[x] - h[x]
  PROVE  /\ SumFunctionOnSet(p, T) = SumFunctionOnSet(f, T) + SumFunctionOnSet(h, T)
         /\ SumFunctionOnSet(d, T) = SumFunctionOnSet(f, T) - SumFunctionOnSet(h, T)
<1>2. \A x \in T : f[x] \in Int /\ h[x] \in Int
  OBVIOUS
<1>3. PICK F : Sums(F, f, T) /\ \A S \in SUBSET T : SumFunctionOnSet(f, S) = F[S]
  BY SumWhole
<1>4. PICK H : Sums(H, h, T) /\ \A S \in SUBSET T : SumFunctionOnSet(h, S) = H[S]
  BY SumWhole
<1>5. PICK Q : Sums(Q, p, T) /\ \A S \in SUBSET T : SumFunctionOnSet(p, S) = Q[S]
  BY SumWhole
<1>6. PICK D : Sums(D, d, T) /\ \A S \in SUBSET T : SumFunctionOnSet(d, S) = D[S]
  BY SumWhole
<1> DEFINE P == {s \in SUBSET T : Q[s] = F[s] + H[s] /\ D[s] = F[s] - H[s]}
<1>7. {} \in P
  BY <1>3, <1>4, <1>5, <1>6 DEF Sums
<1>8. ASSUME NEW s \in SUBSET T, NEW x \in T \ s, s \in P PROVE s \cup {x} \in P
  <2>1. F[s \cup {x}] = f[x] + F[s] /\ s \cup {x} \in SUBSET T
    BY <1>3, SumsAdd
  <2>2. H[s \cup {x}] = h[x] + H[s]
    BY <1>4, SumsAdd
  <2>3. Q[s \cup {x}] = p[x] + Q[s]
    BY <1>5, SumsAdd
  <2>4. D[s \cup {x}] = d[x] + D[s]
    BY <1>6, SumsAdd
  <2>5. F[s] \in Int /\ H[s] \in Int /\ f[x] \in Int /\ h[x] \in Int
    BY <1>2, <1>3, <1>4 DEF Sums
  <2>6. Q[s] = F[s] + H[s] /\ D[s] = F[s] - H[s] /\ p[x] = f[x] + h[x] /\ d[x] = f[x] - h[x]
    BY <1>2, <1>8
  <2>7. /\ Q[s \cup {x}] = F[s \cup {x}] + H[s \cup {x}]
        /\ D[s \cup {x}] = F[s \cup {x}] - H[s \cup {x}]
    BY <2>1, <2>2, <2>3, <2>4, <2>5, <2>6
  <2> QED BY <2>1, <2>7
<1> HIDE DEF P
<1>9. \A s \in SUBSET T : s \in P
  BY <1>7, <1>8, AllSubsets
<1>10. Q[T] = F[T] + H[T] /\ D[T] = F[T] - H[T]
  BY <1>9 DEF P
<1> QED BY <1>3, <1>4, <1>5, <1>6, <1>10

\* Each figure is no greater than the other.
LEMMA SumOrder ==
  ASSUME NEW T, IsFiniteSet(T), NEW f \in [T -> Int], NEW h \in [T -> Int],
         \A x \in T : f[x] <= h[x]
  PROVE  SumFunctionOnSet(f, T) <= SumFunctionOnSet(h, T)
<1>1. PICK F : Sums(F, f, T) /\ \A S \in SUBSET T : SumFunctionOnSet(f, S) = F[S]
  BY SumWhole
<1>2. PICK H : Sums(H, h, T) /\ \A S \in SUBSET T : SumFunctionOnSet(h, S) = H[S]
  BY SumWhole
<1> DEFINE P == {s \in SUBSET T : F[s] <= H[s]}
<1>3. {} \in P
  BY <1>1, <1>2 DEF Sums
<1>4. ASSUME NEW s \in SUBSET T, NEW x \in T \ s, s \in P PROVE s \cup {x} \in P
  <2>1. F[s \cup {x}] = f[x] + F[s] /\ s \cup {x} \in SUBSET T
    BY <1>1, SumsAdd
  <2>2. H[s \cup {x}] = h[x] + H[s]
    BY <1>2, SumsAdd
  <2>3. F[s] \in Int /\ H[s] \in Int /\ f[x] \in Int /\ h[x] \in Int
    BY <1>1, <1>2 DEF Sums
  <2> QED BY <1>4, <2>1, <2>2, <2>3
<1> HIDE DEF P
<1>5. \A s \in SUBSET T : s \in P
  BY <1>3, <1>4, AllSubsets
<1>6. F[T] <= H[T]
  BY <1>5 DEF P
<1> QED BY <1>1, <1>2, <1>6

\* The sum of ones counts.
LEMMA SumOfOnes ==
  ASSUME NEW T, IsFiniteSet(T), NEW f \in [T -> Int], \A x \in T : f[x] = 1
  PROVE  \A S \in SUBSET T : SumFunctionOnSet(f, S) = Cardinality(S)
<1>1. PICK F : Sums(F, f, T) /\ \A S \in SUBSET T : SumFunctionOnSet(f, S) = F[S]
  BY SumWhole
<1> DEFINE P == {s \in SUBSET T : F[s] = Cardinality(s)}
<1>2. {} \in P
  BY <1>1, FS_EmptySet DEF Sums
<1>3. ASSUME NEW s \in SUBSET T, NEW x \in T \ s, s \in P PROVE s \cup {x} \in P
  <2>1. F[s \cup {x}] = f[x] + F[s] /\ s \cup {x} \in SUBSET T
    BY <1>1, SumsAdd
  <2>2. IsFiniteSet(s)
    BY FS_Subset
  <2>3. Cardinality(s) \in Nat
    BY <2>2, FS_CardinalityType
  <2>4. Cardinality(s \cup {x}) = Cardinality(s) + 1
    BY <2>2, FS_AddElement
  <2> QED BY <1>3, <2>1, <2>3, <2>4
<1> HIDE DEF P
<1>4. \A s \in SUBSET T : s \in P
  BY <1>2, <1>3, AllSubsets
<1> QED BY <1>1, <1>4 DEF P

\* By groups: key is the group of each element, K has every group, and of is the
\* sum of each.
LEMMA SumGroups ==
  ASSUME NEW T, IsFiniteSet(T), NEW f \in [T -> Int],
         NEW K, IsFiniteSet(K), NEW key \in [T -> K], NEW of \in [K -> Int],
         \A k \in K : of[k] = SumFunctionOnSet(f, {y \in T : key[y] = k})
  PROVE  SumFunctionOnSet(of, K) = SumFunctionOnSet(f, T)
<1>1. PICK F : Sums(F, f, T) /\ \A S \in SUBSET T : SumFunctionOnSet(f, S) = F[S]
  BY SumWhole
<1> DEFINE Within(s) == {y \in T : key[y] \in s}
           P == {s \in SUBSET K : F[Within(s)] = SumFunctionOnSet(of, s)}
<1>2. \A k \in K : of[k] = F[{y \in T : key[y] = k}]
  BY <1>1
<1>4. PICK G : Sums(G, of, K) /\ \A S \in SUBSET K : SumFunctionOnSet(of, S) = G[S]
  BY SumWhole
<1>5. {} \in P
  <2>1. Within({}) = {} /\ F[{}] = 0 /\ G[{}] = 0
    BY <1>1, <1>4 DEF Sums
  <2> QED BY <1>4, <2>1
<1>6. ASSUME NEW s \in SUBSET K, NEW k \in K \ s, s \in P PROVE s \cup {k} \in P
  <2> DEFINE A == Within(s)
             B == {y \in T : key[y] = k}
  <2>1. Within(s \cup {k}) = A \cup B /\ A \cap B = {} /\ A \in SUBSET T /\ B \in SUBSET T
    OBVIOUS
  <2>2. s \cup {k} \in SUBSET K /\ G[s \cup {k}] = of[k] + G[s]
    BY <1>4, SumsAdd
  <2>3. F[A] = G[s] /\ F[B] = of[k]
    BY <1>2, <1>4, <1>6
  <2> HIDE DEF A, B, Within
  <2>4. F[A \cup B] = F[A] + F[B]
    <3>1. A \cup B \in SUBSET T
      BY <2>1
    <3>2. \A X, Y \in SUBSET T : X \cap Y = {} =>
            SumFunctionOnSet(f, X \cup Y)
              = SumFunctionOnSet(f, X) + SumFunctionOnSet(f, Y)
      BY SumParts
    <3>3. SumFunctionOnSet(f, A \cup B)
            = SumFunctionOnSet(f, A) + SumFunctionOnSet(f, B)
      BY <2>1, <3>2
    <3> QED BY <1>1, <2>1, <3>1, <3>3
  <2>5. F[A] \in Int /\ F[B] \in Int
    BY <1>1, <2>1 DEF Sums
  <2>6. G[s] + of[k] = of[k] + G[s]
    BY <2>3, <2>5
  <2>7. F[Within(s \cup {k})] = G[s \cup {k}]
    BY <2>1, <2>2, <2>3, <2>4, <2>6
  <2> QED BY <1>4, <2>2, <2>7
<1>7. \A s \in SUBSET K : s \in P
  <2> HIDE DEF P
  <2> QED BY <1>5, <1>6, AllSubsets
<1>8. Within(K) = T /\ K \in P
  BY <1>7
<1> QED BY <1>1, <1>8

\* The same of counts.
LEMMA CountGroups ==
  ASSUME NEW T, IsFiniteSet(T), NEW K, IsFiniteSet(K), NEW key \in [T -> K],
         NEW of \in [K -> Int], \A k \in K : of[k] = Cardinality({y \in T : key[y] = k})
  PROVE  SumFunctionOnSet(of, K) = Cardinality(T)
<1> DEFINE f == [x \in T |-> 1]
<1>1. f \in [T -> Int] /\ \A x \in T : f[x] = 1
  OBVIOUS
<1> HIDE DEF f
<1>2. \A S \in SUBSET T : SumFunctionOnSet(f, S) = Cardinality(S)
  BY <1>1, SumOfOnes
<1>3. \A k \in K : of[k] = SumFunctionOnSet(f, {y \in T : key[y] = k})
  BY <1>2
<1>4. SumFunctionOnSet(of, K) = SumFunctionOnSet(f, T)
  BY <1>1, <1>3, SumGroups
<1> QED BY <1>2, <1>4

-----------------------------------------------------------------------------
(* Money *)

\* Rows that have an amount if they have a currency.
Charged(S) == IsFiniteSet(S) /\ \A r \in S : r.currency # Null => r.amount \in Nat

\* The currencies of rows.
Coins(S) == {r.currency : r \in S} \ {Null}

\* Such rows come to a whole number, in each currency.
LEMMA WorthTyped ==
  ASSUME NEW S, Charged(S), NEW c, c # Null
  PROVE  /\ IsFiniteSet(OfCurrency(S, c)) /\ Worth(S, c) \in Int
         /\ [r \in OfCurrency(S, c) |-> r.amount] \in [OfCurrency(S, c) -> Int]
         /\ c \notin Coins(S) => Worth(S, c) = 0 /\ OfCurrency(S, c) = {}
<1> DEFINE T == OfCurrency(S, c)
           g == [r \in T |-> r.amount]
<1>1. T \subseteq S /\ \A r \in T : r.amount \in Nat
  BY DEF Charged, OfCurrency
<1>2. IsFiniteSet(T)
  BY <1>1, FS_Subset DEF Charged
<1>3. g \in [T -> Int]
  BY <1>1
<1>4. c \notin Coins(S) => T = {}
  BY DEF Coins, OfCurrency
<1>5. Worth(S, c) = SumFunctionOnSet(g, T)
  BY DEF Worth, SumFunction
<1> HIDE DEF T, g
<1>6. T \in SUBSET T
  OBVIOUS
<1>7. Worth(S, c) \in Int /\ (T = {} => Worth(S, c) = 0)
  BY <1>2, <1>3, <1>5, <1>6, SumTyped
<1> QED BY <1>2, <1>3, <1>4, <1>7 DEF T, g

\* Separate parts come to what the whole does.
LEMMA WorthAdds ==
  ASSUME NEW S, NEW A, NEW B, Parts(S, A, B), Charged(S), NEW c, c # Null
  PROVE  /\ Charged(A) /\ Charged(B)
         /\ Worth(S, c) = Worth(A, c) + Worth(B, c)
<1>0. A \subseteq S /\ B \subseteq S
  BY DEF Parts
<1>1. Charged(A) /\ Charged(B)
  BY <1>0, FS_Subset DEF Charged
<1> DEFINE T == OfCurrency(S, c)
           U == OfCurrency(A, c)
           V == OfCurrency(B, c)
           g == [r \in T |-> r.amount]
           gA == [r \in U |-> r.amount]
           gB == [r \in V |-> r.amount]
<1>2. IsFiniteSet(T) /\ g \in [T -> Int]
  BY WorthTyped
<1>3. IsFiniteSet(U) /\ gA \in [U -> Int]
  BY <1>1, WorthTyped
<1>4. IsFiniteSet(V) /\ gB \in [V -> Int]
  BY <1>1, WorthTyped
<1>5. U \in SUBSET T /\ V \in SUBSET T /\ U \cap V = {} /\ T = U \cup V
  BY DEF OfCurrency, Parts
<1>6. (\A r \in U : g[r] = gA[r]) /\ (\A r \in V : g[r] = gB[r])
  BY <1>5
<1>7. /\ Worth(S, c) = SumFunctionOnSet(g, T) /\ Worth(A, c) = SumFunctionOnSet(gA, U)
      /\ Worth(B, c) = SumFunctionOnSet(gB, V)
  BY DEF Worth, SumFunction
<1> HIDE DEF T, U, V, g, gA, gB
<1>8. SumFunctionOnSet(g, U) = SumFunctionOnSet(gA, U)
  BY <1>2, <1>3, <1>5, <1>6, SumSame
<1>9. SumFunctionOnSet(g, V) = SumFunctionOnSet(gB, V)
  BY <1>2, <1>4, <1>5, <1>6, SumSame
<1>10. SumFunctionOnSet(g, T) = SumFunctionOnSet(g, U) + SumFunctionOnSet(g, V)
  BY <1>2, <1>5, SumParts
<1> QED BY <1>1, <1>7, <1>8, <1>9, <1>10

\* What money_breakdowns makes of rows.
LEMMA BreakdownFigures ==
  ASSUME NEW O, NEW S, NEW R, Charged(O), Charged(S), Charged(R)
  PROVE  /\ \A c : c \in DOMAIN Breakdown(Buckets(O, S, R))
                  <=> c \in Coins(O) \cup Coins(S) \cup Coins(R)
         /\ \A c : c # Null =>
              /\ Figure(Breakdown(Buckets(O, S, R)), c, "gross") = Worth(O, c) + Worth(S, c)
              /\ Figure(Breakdown(Buckets(O, S, R)), c, "refunds") = Worth(R, c)
              /\ Figure(Breakdown(Buckets(O, S, R)), c, "net")
                   = Worth(O, c) + Worth(S, c) - Worth(R, c)
<1> DEFINE B == Buckets(O, S, R)
           M == Breakdown(B)
           count(c) == Cardinality(OfCurrency(O, c)) + Cardinality(OfCurrency(S, c))
           coins == Coins(O) \cup Coins(S) \cup Coins(R)
           aov(b) == IF b.count = 0 THEN <<0, 1>> ELSE <<b.gross, b.count>>
<1>1. coins = {r.currency : r \in O \cup S \cup R} \ {Null}
  BY DEF Coins
<1>2. B = [c \in coins |-> [gross |-> Worth(O, c) + Worth(S, c), refunds |-> Worth(R, c),
                            count |-> count(c)]]
  BY <1>1 DEF Buckets
<1> HIDE DEF B, count, coins
<1>w. \A c \in coins : /\ Worth(O, c) \in Int /\ Worth(S, c) \in Int /\ Worth(R, c) \in Int
  BY WorthTyped DEF coins, Coins
<1>3. DOMAIN B = coins /\ DOMAIN M = coins
  BY <1>2 DEF Breakdown
<1>4. ASSUME NEW c \in coins
      PROVE  /\ M[c].gross = Worth(O, c) + Worth(S, c) /\ M[c].refunds = Worth(R, c)
             /\ M[c].net = Worth(O, c) + Worth(S, c) - Worth(R, c)
  <2> DEFINE b == B[c]
             more == [net |-> b.gross - b.refunds, aov |-> aov(b)]
  <2>1. /\ DOMAIN b = {"gross", "refunds", "count"}
        /\ b.gross = Worth(O, c) + Worth(S, c) /\ b.refunds = Worth(R, c)
    BY <1>2
  <2>2. M[c] = Extend(b, more)
    BY <1>3 DEF Breakdown
  <2> HIDE DEF b, M, aov
  <2>3. DOMAIN more = {"net", "aov"} /\ more.net = b.gross - b.refunds
    OBVIOUS
  <2> HIDE DEF more
  <2>4. M[c].gross = b.gross /\ M[c].refunds = b.refunds /\ M[c].net = more.net
    BY <2>1, <2>2, <2>3 DEF Extend
  <2> QED BY <2>1, <2>3, <2>4, <1>w
<1> HIDE DEF M
<1>5. ASSUME NEW c, c # Null, c \notin coins
      PROVE  Worth(O, c) = 0 /\ Worth(S, c) = 0 /\ Worth(R, c) = 0
  BY <1>5, WorthTyped DEF coins
<1>6. ASSUME NEW c, c # Null
      PROVE  /\ Figure(M, c, "gross") = Worth(O, c) + Worth(S, c)
             /\ Figure(M, c, "refunds") = Worth(R, c)
             /\ Figure(M, c, "net") = Worth(O, c) + Worth(S, c) - Worth(R, c)
  <2>1. CASE c \in coins
    BY <1>3, <1>4, <2>1 DEF Figure
  <2>2. CASE c \notin coins
    BY <1>3, <1>5, <1>6, <2>2 DEF Figure
  <2> QED BY <2>1, <2>2
<1> QED BY <1>3, <1>6 DEF M, B, coins

\* The counts of the overview.
LEMMA OverviewFigures ==
  ASSUME NEW f
  PROVE  /\ Overview(f).visitors = Cardinality(NewVisitors(f))
         /\ Overview(f).sessions = Cardinality(SessionRows(f))
         /\ Overview(f).product_views = Cardinality(OfSku(FactRows(db.views, f), f))
         /\ Overview(f).cart_adds = Cardinality(OfSku(FactRows(db.carts, f), f))
         /\ Overview(f).checkouts = Cardinality(FactRows(db.checkouts, f))
         /\ Overview(f).contacts = Cardinality(ContactRows(f))
         /\ Overview(f).leads = Cardinality(LeadRows(f))
         /\ Overview(f).orders_created = Cardinality(OrdersCreated(f))
         /\ Overview(f).orders_paid = Cardinality(OrdersPaid(f))
         /\ Overview(f).manual_sales = Cardinality(ManualSales(f))
         /\ Overview(f).money = Money(f)
         /\ PeriodFigures \cup {"money"} \subseteq DOMAIN Overview(f)
BY DEF Overview, PeriodFigures

\* Money is of rows that have amounts.
LEMMA MoneyCharged ==
  ASSUME AllValued(db), NEW f
  PROVE  /\ Charged({o \in OrdersPaid(f) : o.currency # Null})
         /\ Charged({s \in ManualSales(f) : s.currency # Null})
         /\ Charged(AttributedRefunds(f))
<1>1. /\ IsFiniteSet(db["orders"]) /\ IsFiniteSet(db["sales"]) /\ IsFiniteSet(db["refunds"])
      /\ \A o \in db["orders"] : o.paid # Null => o.amount \in Nat
      /\ \A s \in db["sales"] : s.event # Null => s.amount \in Nat
      /\ \A r \in db["refunds"] : r.amount \in Nat
  BY DEF AllValued, TableValued, Valued, Tables
<1>2. ASSUME NEW S, NEW T, S \subseteq T, IsFiniteSet(T), \A r \in S : r.amount \in Nat
      PROVE  Charged(S)
  BY <1>2, FS_Subset DEF Charged
<1>3. /\ {o \in OrdersPaid(f) : o.currency # Null} \subseteq db["orders"]
      /\ \A o \in OrdersPaid(f) : o.amount \in Nat
  BY <1>1 DEF OrdersPaid
<1>4. /\ {s \in ManualSales(f) : s.currency # Null} \subseteq db["sales"]
      /\ \A s \in ManualSales(f) : s.amount \in Nat
  BY <1>1 DEF ManualSales
<1>5. /\ AttributedRefunds(f) \subseteq db["refunds"]
      /\ \A r \in AttributedRefunds(f) : r.amount \in Nat
  BY <1>1 DEF AttributedRefunds, Refunds
<1> QED BY <1>1, <1>2, <1>3, <1>4, <1>5

\* Money of a period is that of its halves.
LEMMA MoneyHalved ==
  ASSUME AllValued(db), NEW f, NEW h, NEW t, Halves(f, h, t)
  PROVE  /\ \A c \in DOMAIN Money(h) : c # Null
         /\ \A c : c \in DOMAIN Money(f) <=> c \in DOMAIN Money(h) \cup DOMAIN Money(t)
         /\ \A c : c # Null => \A k \in Amounts :
              /\ Figure(Money(f), c, k) \in Int /\ Figure(Money(h), c, k) \in Int
              /\ Figure(Money(t), c, k) \in Int
              /\ Figure(Money(f), c, k) = Figure(Money(h), c, k) + Figure(Money(t), c, k)
<1> DEFINE O(g) == {o \in OrdersPaid(g) : o.currency # Null}
           S(g) == {s \in ManualSales(g) : s.currency # Null}
           R(g) == AttributedRefunds(g)
<1>1. \A g : Charged(O(g)) /\ Charged(S(g)) /\ Charged(R(g))
  BY MoneyCharged
<1>2. Parts(O(f), O(h), O(t)) /\ Parts(S(f), S(h), S(t)) /\ Parts(R(f), R(h), R(t))
  <2>1. /\ Parts(OrdersPaid(f), OrdersPaid(h), OrdersPaid(t))
        /\ Parts(ManualSales(f), ManualSales(h), ManualSales(t))
        /\ Parts(R(f), R(h), R(t))
    BY RowsHalved
  <2>2. IsFiniteSet(O(f)) /\ IsFiniteSet(S(f))
    BY <1>1 DEF Charged
  <2> QED BY <2>1, <2>2 DEF Parts
<1>3. \A g : Money(g) = Breakdown(Buckets(O(g), S(g), R(g)))
  BY DEF Money
<1> HIDE DEF O, S, R
<1>4. ASSUME NEW g
      PROVE  /\ \A c : c \in DOMAIN Money(g)
                      <=> c \in Coins(O(g)) \cup Coins(S(g)) \cup Coins(R(g))
             /\ \A c : c # Null =>
                  /\ Figure(Money(g), c, "gross") = Worth(O(g), c) + Worth(S(g), c)
                  /\ Figure(Money(g), c, "refunds") = Worth(R(g), c)
                  /\ Figure(Money(g), c, "net")
                       = Worth(O(g), c) + Worth(S(g), c) - Worth(R(g), c)
  <2> DEFINE o == O(g)
             s == S(g)
             r == R(g)
             M == Breakdown(Buckets(o, s, r))
  <2>1. Charged(o) /\ Charged(s) /\ Charged(r) /\ Money(g) = M
    BY <1>1, <1>3
  <2> HIDE DEF o, s, r
  <2>2. /\ \A c : c \in DOMAIN M <=> c \in Coins(o) \cup Coins(s) \cup Coins(r)
        /\ \A c : c # Null =>
             /\ Figure(M, c, "gross") = Worth(o, c) + Worth(s, c)
             /\ Figure(M, c, "refunds") = Worth(r, c)
             /\ Figure(M, c, "net") = Worth(o, c) + Worth(s, c) - Worth(r, c)
    BY <2>1, BreakdownFigures
  <2> HIDE DEF M
  <2> QED BY <2>1, <2>2 DEF o, s, r
<1>5. /\ \A c \in DOMAIN Money(h) : c # Null
      /\ \A c : c \in DOMAIN Money(f) <=> c \in DOMAIN Money(h) \cup DOMAIN Money(t)
  <2>2. ASSUME NEW W, NEW A, NEW B, Parts(W, A, B)
        PROVE  Coins(W) = Coins(A) \cup Coins(B)
    BY <2>2 DEF Parts, Coins
  <2>3. /\ Coins(O(f)) = Coins(O(h)) \cup Coins(O(t))
        /\ Coins(S(f)) = Coins(S(h)) \cup Coins(S(t))
        /\ Coins(R(f)) = Coins(R(h)) \cup Coins(R(t))
    BY <1>2, <2>2
  <2>4. \A W : Null \notin Coins(W)
    BY DEF Coins
  <2> QED BY <1>4, <2>3, <2>4
<1>6. ASSUME NEW c, c # Null, NEW k \in Amounts
      PROVE  /\ Figure(Money(f), c, k) \in Int /\ Figure(Money(h), c, k) \in Int
             /\ Figure(Money(t), c, k) \in Int
             /\ Figure(Money(f), c, k) = Figure(Money(h), c, k) + Figure(Money(t), c, k)
  <2>1. /\ Worth(O(f), c) = Worth(O(h), c) + Worth(O(t), c)
        /\ Worth(S(f), c) = Worth(S(h), c) + Worth(S(t), c)
        /\ Worth(R(f), c) = Worth(R(h), c) + Worth(R(t), c)
    BY <1>1, <1>2, <1>6, WorthAdds
  <2>2. \A g : Worth(O(g), c) \in Int /\ Worth(S(g), c) \in Int /\ Worth(R(g), c) \in Int
    BY <1>1, <1>6, WorthTyped
  <2>3. k \in {"gross", "refunds", "net"}
    BY DEF Amounts
  <2> DEFINE G(g) == Figure(Money(g), c, "gross")
             F(g) == Figure(Money(g), c, "refunds")
             N(g) == Figure(Money(g), c, "net")
  <2>4. /\ \A g : G(g) = Worth(O(g), c) + Worth(S(g), c)
        /\ \A g : F(g) = Worth(R(g), c)
        /\ \A g : N(g) = Worth(O(g), c) + Worth(S(g), c) - Worth(R(g), c)
    BY <1>4, <1>6
  <2> HIDE DEF G, F, N
  <2>5. \A g : G(g) \in Int /\ F(g) \in Int /\ N(g) \in Int
    BY <2>2, <2>4
  <2>6. G(f) = G(h) + G(t) /\ F(f) = F(h) + F(t) /\ N(f) = N(h) + N(t)
    BY <2>1, <2>2, <2>4
  <2> QED BY <2>3, <2>5, <2>6 DEF G, F, N
<1> QED BY <1>5, <1>6

\* A change of a currency's money is that of its figures.
LEMMA MoneyChanged ==
  ASSUME NEW current, NEW previous, NEW c \in DOMAIN current, NEW k \in Amounts
  PROVE  MoneyChanges(current, previous)[c][k].abs
           = Figure(current, c, k) - Figure(previous, c, k)
<1> DEFINE nothing == [gross |-> 0, refunds |-> 0, net |-> 0, aov |-> <<0, 1>>]
           in(money, x) == IF x \in DOMAIN money THEN money[x] ELSE nothing
           changes(x) == [a \in {"gross", "refunds", "net"} |->
                            Change(in(current, x)[a], in(previous, x)[a])]
           aov(x) == FractionChange(in(current, x).aov, in(previous, x).aov)
           M == MoneyChanges(current, previous)
<1>1. M = [x \in DOMAIN current \cup DOMAIN previous |-> Extend(changes(x), [aov |-> aov(x)])]
  BY DEF MoneyChanges
<1>2. k \in {"gross", "refunds", "net"}
  BY DEF Amounts
<1> HIDE DEF aov
<1>3. M[c][k] = Change(in(current, c)[k], in(previous, c)[k])
  <2> DEFINE figures == changes(c)
             more == [aov |-> aov(c)]
  <2>1. M[c] = Extend(figures, more)
    BY <1>1
  <2>2. /\ DOMAIN figures = {"gross", "refunds", "net"} /\ DOMAIN more = {"aov"}
        /\ figures[k] = Change(in(current, c)[k], in(previous, c)[k])
    BY <1>2
  <2> HIDE DEF figures, more, in, M
  <2> QED BY <1>2, <2>1, <2>2 DEF Extend
<1>4. in(current, c)[k] = Figure(current, c, k) /\ in(previous, c)[k] = Figure(previous, c, k)
  BY <1>2 DEF Figure
<1> HIDE DEF in, M
<1> QED BY <1>3, <1>4 DEF Change, M

\* The orders paid by a method.
PaidBy(f, m) == {o \in OrdersPaid(f) : o.currency # Null /\ o.method # Null /\ o.method = m}

MethodsOf(f) ==
  {p.method : p \in PaymentRows(f)} \cup
  {o.method : o \in {o \in OrdersCreated(f) : o.method # Null}} \cup
  {o.method : o \in {o \in OrdersPaid(f) : o.currency # Null /\ o.method # Null}} \cup
  {r.method : r \in {r \in AttributedRefunds(f) : r.method # Null}}

LEMMA MethodRows ==
  ASSUME NEW f
  PROVE  /\ DOMAIN PaymentMethods(f) = MethodsOf(f)
         /\ \A m \in MethodsOf(f) :
              /\ PaymentMethods(f)[m].orders_paid = Cardinality(PaidBy(f, m))
              /\ "orders_paid" \in DOMAIN PaymentMethods(f)[m]
<1> DEFINE with(S, m) == {r \in S : r.method = m}
           created == {o \in OrdersCreated(f) : o.method # Null}
           paid == {o \in InCurrency(OrdersPaid(f)) : o.method # Null}
           refunds == {r \in AttributedRefunds(f) : r.method # Null}
           kind(m, k) == {p \in with(PaymentRows(f), m) : p.kind = k}
           shown(m) == Cardinality({CheckoutId(p) : p \in kind(m, "shown")})
           selected(m) == Cardinality({CheckoutId(p) : p \in kind(m, "selected")})
           keys == {p.method : p \in PaymentRows(f)}
                     \cup {r.method : r \in created \cup paid \cup refunds}
           row(m) == [shown |-> shown(m), selected |-> selected(m),
                      failed |-> Cardinality(kind(m, "failed")),
                      selected_rate |-> Rate(selected(m), shown(m)),
                      orders_created |-> Cardinality(with(created, m)),
                      orders_paid |-> Cardinality(with(paid, m)),
                      selected_to_paid |-> Rate(Cardinality(with(paid, m)), selected(m)),
                      money |-> Breakdown(Buckets(with(paid, m), {}, with(refunds, m)))]
<1>1. PaymentMethods(f) = [m \in keys |-> row(m)]
  BY DEF PaymentMethods
<1>2. \A m : with(paid, m) = PaidBy(f, m)
  BY DEF InCurrency, PaidBy
<1>3. keys = MethodsOf(f)
  BY DEF MethodsOf, InCurrency
<1> HIDE DEF keys, shown, selected, kind, with, created, paid, refunds
<1>4. \A m : row(m).orders_paid = Cardinality(with(paid, m)) /\ "orders_paid" \in DOMAIN row(m)
  OBVIOUS
<1> HIDE DEF row
<1> QED BY <1>1, <1>2, <1>3, <1>4

\* A comparison's change of a count, of money and of a payment method's orders.
Between(f, from, to) == [f EXCEPT !.from = from, !.to = to]

LEMMA Changes ==
  ASSUME NEW f, NEW from, NEW to
  PROVE  /\ \A k \in PeriodFigures :
              PeriodComparison(f, from, to).delta[k].abs
                 = Overview(f)[k] - Overview(Between(f, from, to))[k]
         /\ PeriodComparison(f, from, to).delta.money
               = MoneyChanges(Money(f), Money(Between(f, from, to)))
         /\ PeriodComparison(f, from, to).current.money = Money(f)
         /\ \A m \in MethodsOf(f) :
              PeriodComparison(f, from, to).methods[m].orders_paid.abs
                = Cardinality(PaidBy(f, m)) - Cardinality(PaidBy(Between(f, from, to), m))
<1> DEFINE c == PeriodComparison(f, from, to)
           t == Between(f, from, to)
           current == PaymentMethods(f)
           previous == PaymentMethods(t)
           in(methods, m) == IF m \in DOMAIN methods THEN methods[m] ELSE EmptyMethod
           deltas == [m \in DOMAIN current \cup DOMAIN previous |->
                        Delta(in(current, m), in(previous, m))]
<1>1. c = [current |-> Overview(f), previous |-> Overview(t),
           delta |-> Delta(Overview(f), Overview(t)), methods |-> deltas]
  BY DEF PeriodComparison, Between
<1>2. c.current = Overview(f) /\ c.delta = Delta(Overview(f), Overview(t)) /\ c.methods = deltas
  <2> HIDE DEF deltas, c
  <2> QED BY <1>1
<1> HIDE DEF c, t
<1>3. \A g : /\ Overview(g).money = Money(g)
             /\ PeriodFigures \cup {"money"} \subseteq DOMAIN Overview(g)
  BY OverviewFigures
<1>4. ASSUME NEW a, NEW b
      PROVE  /\ \A k \in DOMAIN a \cap Counted : Delta(a, b)[k].abs = a[k] - b[k]
             /\ "money" \in DOMAIN a => Delta(a, b).money = MoneyChanges(a.money, b.money)
  BY DEF Delta, Change, Counted
<1>5. PeriodFigures \subseteq Counted /\ "orders_paid" \in Counted
  BY DEF PeriodFigures, Counted
<1>6. \A k \in PeriodFigures : c.delta[k].abs = Overview(f)[k] - Overview(t)[k]
  BY <1>2, <1>3, <1>4, <1>5
<1>7. c.delta.money = MoneyChanges(Money(f), Money(t)) /\ c.current.money = Money(f)
  BY <1>2, <1>3, <1>4
<1>8. ASSUME NEW m \in MethodsOf(f)
      PROVE  c.methods[m].orders_paid.abs = Cardinality(PaidBy(f, m)) - Cardinality(PaidBy(t, m))
  <2>1. /\ DOMAIN current = MethodsOf(f) /\ current[m].orders_paid = Cardinality(PaidBy(f, m))
        /\ "orders_paid" \in DOMAIN current[m]
    BY MethodRows
  <2>2. in(previous, m).orders_paid = Cardinality(PaidBy(t, m))
    <3>1. CASE m \in MethodsOf(t)
      BY <3>1, MethodRows
    <3>2. CASE m \notin MethodsOf(t)
      <4>1. PaidBy(t, m) = {}
        BY <3>2 DEF PaidBy, MethodsOf
      <4>2. m \notin DOMAIN previous
        BY <3>2, MethodRows
      <4> QED BY <4>1, <4>2, FS_EmptySet DEF EmptyMethod
    <3> QED BY <3>1, <3>2
  <2>3. c.methods[m] = Delta(in(current, m), in(previous, m)) /\ in(current, m) = current[m]
    BY <1>2, <2>1
  <2> HIDE DEF in, current, previous
  <2> QED BY <1>4, <1>5, <2>1, <2>2, <2>3
<1> QED BY <1>6, <1>7, <1>8 DEF c, t

\* The orders paid by a method in a period are those of its halves, and a method
\* of a half is one of the whole.
LEMMA MethodsHalved ==
  ASSUME AllValued(db), NEW f, NEW h, NEW t, Halves(f, h, t)
  PROVE  /\ MethodsOf(h) \subseteq MethodsOf(f)
         /\ \A m : Parts(PaidBy(f, m), PaidBy(h, m), PaidBy(t, m))
<1>1. /\ Parts(OrdersPaid(f), OrdersPaid(h), OrdersPaid(t))
      /\ Parts(OrdersCreated(f), OrdersCreated(h), OrdersCreated(t))
      /\ Parts(AttributedRefunds(f), AttributedRefunds(h), AttributedRefunds(t))
      /\ Parts(FactRows(db["payments"], f), FactRows(db["payments"], h),
               FactRows(db["payments"], t))
  BY RowsHalved
<1>2. h.method = f.method
  BY SameColumns DEF Halves
<1>3. PaymentRows(h) \subseteq PaymentRows(f)
  BY <1>1, <1>2 DEF PaymentRows, Parts
<1>4. MethodsOf(h) \subseteq MethodsOf(f)
  BY <1>1, <1>3 DEF MethodsOf, Parts
<1>5. ASSUME NEW m PROVE Parts(PaidBy(f, m), PaidBy(h, m), PaidBy(t, m))
  <2>1. IsFiniteSet(PaidBy(f, m))
    <3>1. PaidBy(f, m) \subseteq OrdersPaid(f)
      BY DEF PaidBy
    <3> QED BY <1>1, <3>1, FS_Subset DEF Parts
  <2> QED BY <1>1, <2>1 DEF Parts, PaidBy
<1> QED BY <1>4, <1>5

\* A cut inside a period halves it.
LEMMA CutHalves ==
  ASSUME NEW f \in Filters, NEW cut \in f.from .. f.to - 1
  PROVE  Halves(f, [f EXCEPT !.to = cut], Between(f, cut + 1, f.to))
<1> DEFINE h == [f EXCEPT !.to = cut]
           t == Between(f, cut + 1, f.to)
<1>1. /\ DOMAIN f = FilterKeys /\ f.from \in Int /\ f.to \in Int
      /\ "from" \in FilterKeys /\ "to" \in FilterKeys
  BY FiltersAssumption DEF FilterKeys
<1>2. cut \in Int /\ f.from <= cut /\ cut < f.to
  BY <1>1
<1>3. /\ h.from = f.from /\ h.to = cut /\ t.from = cut + 1 /\ t.to = f.to
      /\ \A x \in FilterKeys \ {"from", "to"} : h[x] = f[x] /\ t[x] = f[x]
  BY <1>1 DEF Between
<1> HIDE DEF h, t
<1>4. Null \notin Nat
  BY HistoriesAssumption
<1>5. ASSUME NEW at \in Nat \cup {Null}
      PROVE  /\ InPeriod(at, f) <=> InPeriod(at, h) \/ InPeriod(at, t)
             /\ ~(InPeriod(at, h) /\ InPeriod(at, t))
  BY <1>1, <1>2, <1>3, <1>4 DEF InPeriod
<1>6. Halves(f, h, t)
  BY <1>3, <1>5 DEF Halves, Same
<1> QED BY <1>6 DEF h, t

\* The two parts of a period come to it where the columns hold what they should.
LEMMA ValuedAddsUp == AllValued(db) => PeriodsAddUp
<1> SUFFICES ASSUME AllValued(db), NEW f \in Filters, NEW cut \in f.from .. f.to - 1
             PROVE  LET c == PeriodComparison(f, cut + 1, f.to)
                        head == Overview([f EXCEPT !.to = cut])
                        methods == PaymentMethods([f EXCEPT !.to = cut])
                    IN /\ \A k \in PeriodFigures : c.delta[k].abs = head[k]
                       /\ \A m \in DOMAIN head.money : \A k \in Amounts :
                            c.delta.money[m][k].abs = head.money[m][k]
                       /\ DOMAIN c.delta.money = DOMAIN c.current.money
                       /\ \A m \in DOMAIN methods :
                            c.methods[m].orders_paid.abs = methods[m].orders_paid
  BY DEF PeriodsAddUp
<1> DEFINE from == cut + 1
           to == f.to
           h == [f EXCEPT !.to = cut]
           t == Between(f, from, to)
           c == PeriodComparison(f, from, to)
           methods == PaymentMethods(h)
<1>1. Halves(f, h, t)
  BY CutHalves
<1> HIDE DEF h, from, to
<1>3. /\ \A k \in PeriodFigures : c.delta[k].abs = Overview(f)[k] - Overview(t)[k]
      /\ c.delta.money = MoneyChanges(Money(f), Money(t)) /\ c.current.money = Money(f)
      /\ \A m \in MethodsOf(f) : c.methods[m].orders_paid.abs
           = Cardinality(PaidBy(f, m)) - Cardinality(PaidBy(t, m))
  BY Changes
<1> HIDE DEF c, t
<1>4. \A k \in PeriodFigures : c.delta[k].abs = Overview(h)[k]
  <2>1. ASSUME NEW S, NEW A, NEW B, Parts(S, A, B)
        PROVE  Cardinality(S) - Cardinality(B) = Cardinality(A)
    BY <2>1, PartsCounted
  <2>2. /\ Parts(NewVisitors(f), NewVisitors(h), NewVisitors(t))
        /\ Parts(SessionRows(f), SessionRows(h), SessionRows(t))
        /\ Parts(LeadRows(f), LeadRows(h), LeadRows(t))
        /\ Parts(OrdersCreated(f), OrdersCreated(h), OrdersCreated(t))
        /\ Parts(OrdersPaid(f), OrdersPaid(h), OrdersPaid(t))
        /\ Parts(ManualSales(f), ManualSales(h), ManualSales(t))
        /\ Parts(ContactRows(f), ContactRows(h), ContactRows(t))
        /\ \A u \in {"views", "carts", "checkouts", "payments"} :
             Parts(FactRows(db[u], f), FactRows(db[u], h), FactRows(db[u], t))
    BY <1>1, RowsHalved
  <2>3. \A u \in {"views", "carts"} :
          Parts(OfSku(FactRows(db[u], f), f), OfSku(FactRows(db[u], h), h),
                OfSku(FactRows(db[u], t), t))
    <3>1. h.sku = f.sku /\ t.sku = f.sku
      BY <1>1, SameColumns DEF Halves
    <3>2. ASSUME NEW S, NEW A, NEW B, Parts(S, A, B)
          PROVE  Parts(OfSku(S, f), OfSku(A, h), OfSku(B, t))
      <4>1. OfSku(S, f) \subseteq S
        BY DEF OfSku
      <4>2. IsFiniteSet(OfSku(S, f))
        BY <3>2, <4>1, FS_Subset DEF Parts
      <4> QED BY <3>1, <3>2, <4>2 DEF Parts, OfSku
    <3> QED BY <2>2, <3>2
  <2>4. ASSUME NEW k \in PeriodFigures PROVE Overview(f)[k] - Overview(t)[k] = Overview(h)[k]
    <3>1. CASE k \in {"visitors", "sessions", "leads", "contacts", "checkouts"}
      BY <2>1, <2>2, <3>1, OverviewFigures
    <3>2. CASE k \in {"orders_created", "orders_paid", "manual_sales"}
      BY <2>1, <2>2, <3>2, OverviewFigures
    <3>3. CASE k \in {"product_views", "cart_adds"}
      BY <2>1, <2>3, <3>3, OverviewFigures
    <3> QED BY <3>1, <3>2, <3>3 DEF PeriodFigures
  <2> QED BY <1>3, <2>4
<1>5. /\ \A m \in DOMAIN Money(h) : m # Null
      /\ \A m : m \in DOMAIN Money(f) <=> m \in DOMAIN Money(h) \cup DOMAIN Money(t)
      /\ \A m : m # Null => \A k \in Amounts :
           /\ Figure(Money(f), m, k) \in Int /\ Figure(Money(h), m, k) \in Int
           /\ Figure(Money(t), m, k) \in Int
           /\ Figure(Money(f), m, k) = Figure(Money(h), m, k) + Figure(Money(t), m, k)
  BY <1>1, MoneyHalved
<1>6. Overview(h).money = Money(h)
  BY OverviewFigures
<1>7. ASSUME NEW m \in DOMAIN Money(h), NEW k \in Amounts
      PROVE  c.delta.money[m][k].abs = Money(h)[m][k]
  <2>1. m # Null /\ m \in DOMAIN Money(f)
    BY <1>5
  <2>2. c.delta.money[m][k].abs = Figure(Money(f), m, k) - Figure(Money(t), m, k)
    BY <1>3, <2>1, MoneyChanged
  <2>3. Money(h)[m][k] = Figure(Money(h), m, k)
    BY DEF Figure
  <2> QED BY <1>5, <2>1, <2>2, <2>3
<1>8. DOMAIN c.delta.money = DOMAIN c.current.money
  <2>1. DOMAIN MoneyChanges(Money(f), Money(t)) = DOMAIN Money(f) \cup DOMAIN Money(t)
    BY DEF MoneyChanges
  <2> QED BY <1>3, <1>5, <2>1
<1>9. ASSUME NEW m \in DOMAIN methods
      PROVE  c.methods[m].orders_paid.abs = methods[m].orders_paid
  <2>1. m \in MethodsOf(h) /\ methods[m].orders_paid = Cardinality(PaidBy(h, m))
    BY MethodRows
  <2>2. m \in MethodsOf(f) /\ Parts(PaidBy(f, m), PaidBy(h, m), PaidBy(t, m))
    BY <1>1, <2>1, MethodsHalved
  <2> QED BY <1>3, <2>1, <2>2, PartsCounted
<1> QED BY <1>4, <1>6, <1>7, <1>8, <1>9 DEF c, h, from, to

-----------------------------------------------------------------------------
(* Groups *)

\* A part of rows with amounts has amounts.
LEMMA ChargedPart ==
  ASSUME NEW S, Charged(S), NEW A, A \subseteq S
  PROVE  Charged(A)
BY FS_Subset DEF Charged

\* The rows of a key.
Group(S, key, x) == {r \in S : key[r] = x}

\* So has a group.
LEMMA GroupCharged ==
  ASSUME NEW S, Charged(S), NEW key, NEW x
  PROVE  Charged(Group(S, key, x))
BY ChargedPart DEF Group

\* What rows come to is what their groups come to.
LEMMA WorthGroups ==
  ASSUME NEW S, Charged(S), NEW K, IsFiniteSet(K), NEW key \in [S -> K], NEW c, c # Null,
         NEW of \in [K -> Int], \A x \in K : of[x] = Worth(Group(S, key, x), c)
  PROVE  SumFunctionOnSet(of, K) = Worth(S, c)
<1> DEFINE T == OfCurrency(S, c)
           f == [r \in T |-> r.amount]
           k == [r \in T |-> key[r]]
           U(x) == {y \in T : k[y] = x}
           A(x) == Group(S, key, x)
<1>1. IsFiniteSet(T) /\ f \in [T -> Int] /\ T \subseteq S
  BY WorthTyped DEF OfCurrency
<1>2. k \in [T -> K]
  BY <1>1
<1>3. Worth(S, c) = SumFunctionOnSet(f, T)
  BY DEF Worth, SumFunction
<1>4. ASSUME NEW x \in K PROVE of[x] = SumFunctionOnSet(f, U(x))
  <2> DEFINE V == OfCurrency(A(x), c)
             g == [r \in V |-> r.amount]
  <2>1. Charged(A(x))
    BY GroupCharged
  <2>2. IsFiniteSet(V) /\ g \in [V -> Int]
    BY <2>1, WorthTyped
  <2>3. Worth(A(x), c) = SumFunctionOnSet(g, V)
    BY DEF Worth, SumFunction
  <2>4. V = U(x) /\ V \in SUBSET T
    BY DEF OfCurrency, Group
  <2>5. \A r \in V : g[r] = f[r]
    BY <2>4
  <2>6. of[x] = Worth(A(x), c)
    OBVIOUS
  <2> HIDE DEF T, f, U, A, V, g
  <2>7. V \in SUBSET V
    OBVIOUS
  <2>8. SumFunctionOnSet(g, V) = SumFunctionOnSet(f, V)
    BY <1>1, <2>2, <2>4, <2>5, <2>7, SumSame
  <2> QED BY <2>3, <2>4, <2>6, <2>8
<1>5. \A x \in K : of[x] = SumFunctionOnSet(f, {y \in T : k[y] = x})
  BY <1>4
<1> HIDE DEF T, f, k
<1>6. SumFunctionOnSet(of, K) = SumFunctionOnSet(f, T)
  BY <1>1, <1>2, <1>5, SumGroups
<1> QED BY <1>3, <1>6

\* A figure of each key's money.
Figures(K, M, c, a) == [x \in K |-> Figure(M[x], c, a)]

\* Each key's money is that of its orders, sales and refunds.
MoneyOf(M, K, O, kO, S, kS, R, kR) ==
  \A x \in K : M[x] = Breakdown(Buckets(Group(O, kO, x), Group(S, kS, x), Group(R, kR, x)))

\* The money of rows is that of their groups.
LEMMA MoneyGroups ==
  ASSUME NEW K, IsFiniteSet(K), NEW O, Charged(O), NEW S, Charged(S), NEW R, Charged(R),
         NEW kO \in [O -> K], NEW kS \in [S -> K], NEW kR \in [R -> K],
         NEW M, MoneyOf(M, K, O, kO, S, kS, R, kR),
         NEW c, c # Null, NEW a \in Amounts
  PROVE  SumFunctionOnSet(Figures(K, M, c, a), K) = Figure(Breakdown(Buckets(O, S, R)), c, a)
<1> DEFINE of == Figures(K, M, c, a)
           o == [x \in K |-> Worth(Group(O, kO, x), c)]
           s == [x \in K |-> Worth(Group(S, kS, x), c)]
           e == [x \in K |-> Worth(Group(R, kR, x), c)]
           both == [x \in K |-> o[x] + s[x]]
           less == [x \in K |-> o[x] - s[x]]
           net == [x \in K |-> both[x] - e[x]]
           more == [x \in K |-> both[x] + e[x]]
           W == Breakdown(Buckets(O, S, R))
<1>15. /\ of = [x \in K |-> of[x]]
       /\ \A x \in K : of[x] = Figure(M[x], c, a)
  BY DEF Figures
<1>16. \A x \in K : M[x] = Breakdown(Buckets(Group(O, kO, x), Group(S, kS, x), Group(R, kR, x)))
  BY DEF MoneyOf
<1> HIDE DEF of
<1>1. /\ \A x : Charged(Group(O, kO, x))
      /\ \A x : Charged(Group(S, kS, x))
      /\ \A x : Charged(Group(R, kR, x))
  BY GroupCharged
<1>2. o \in [K -> Int] /\ s \in [K -> Int] /\ e \in [K -> Int]
  <2>1. \A x : Worth(Group(O, kO, x), c) \in Int
    BY <1>1, WorthTyped
  <2>2. \A x : Worth(Group(S, kS, x), c) \in Int
    BY <1>1, WorthTyped
  <2>3. \A x : Worth(Group(R, kR, x), c) \in Int
    BY <1>1, WorthTyped
  <2> QED BY <2>1, <2>2, <2>3
<1>3. /\ both \in [K -> Int] /\ less \in [K -> Int] /\ net \in [K -> Int] /\ more \in [K -> Int]
      /\ \A x \in K : both[x] = o[x] + s[x] /\ less[x] = o[x] - s[x]
      /\ \A x \in K : net[x] = both[x] - e[x] /\ more[x] = both[x] + e[x]
  <2> HIDE DEF o, s, e
  <2>1. \A x \in K : o[x] \in Int /\ s[x] \in Int /\ e[x] \in Int
    BY <1>2
  <2>2. both \in [K -> Int] /\ less \in [K -> Int]
    BY <2>1
  <2>3. \A x \in K : both[x] \in Int
    BY <2>2
  <2>4. \A x \in K : both[x] = o[x] + s[x] /\ less[x] = o[x] - s[x]
    OBVIOUS
  <2> HIDE DEF both, less
  <2> QED BY <2>1, <2>2, <2>3, <2>4
<1>4. /\ \A x \in K : o[x] = Worth(Group(O, kO, x), c)
      /\ \A x \in K : s[x] = Worth(Group(S, kS, x), c)
      /\ \A x \in K : e[x] = Worth(Group(R, kR, x), c)
  OBVIOUS
<1>5. ASSUME NEW x \in K
      PROVE  /\ a = "gross" => of[x] = both[x]
             /\ a = "refunds" => of[x] = e[x]
             /\ a = "net" => of[x] = net[x]
  <2> DEFINE A == Group(O, kO, x)
             B == Group(S, kS, x)
             C == Group(R, kR, x)
             m == Breakdown(Buckets(A, B, C))
  <2>1. Charged(A) /\ Charged(B) /\ Charged(C)
    BY <1>1
  <2>2. o[x] = Worth(A, c) /\ s[x] = Worth(B, c) /\ e[x] = Worth(C, c)
    OBVIOUS
  <2>3. of[x] = Figure(m, c, a)
    BY <1>15, <1>16
  <2>4. both[x] = o[x] + s[x] /\ net[x] = both[x] - e[x]
    BY <1>3
  <2>10. both[x] \in Int /\ o[x] \in Int /\ s[x] \in Int /\ e[x] \in Int
    <3> HIDE DEF o, s, e, both, net, less, more
    <3> QED BY <1>2, <1>3
  <2> HIDE DEF A, B, C, o, s, e, both, net, less, more
  <2>5. /\ Figure(m, c, "gross") = Worth(A, c) + Worth(B, c)
        /\ Figure(m, c, "refunds") = Worth(C, c)
        /\ Figure(m, c, "net") = Worth(A, c) + Worth(B, c) - Worth(C, c)
    BY <2>1, BreakdownFigures
  <2> HIDE DEF m
  <2>6. CASE a = "gross"
    BY <2>2, <2>3, <2>4, <2>5, <2>6
  <2>7. CASE a = "refunds"
    BY <2>2, <2>3, <2>5, <2>7
  <2>9. Worth(A, c) \in Int /\ Worth(B, c) \in Int /\ Worth(C, c) \in Int
    BY <2>1, WorthTyped
  <2>8. CASE a = "net"
    <3>1. of[x] = Worth(A, c) + Worth(B, c) - Worth(C, c)
      BY <2>3, <2>5, <2>8
    <3>2. net[x] = Worth(A, c) + Worth(B, c) - Worth(C, c)
      BY <2>2, <2>4, <2>10
    <3> QED BY <2>8, <3>1, <3>2
  <2> QED BY <2>6, <2>7, <2>8
<1> HIDE DEF o, s, e, both, net, less, more, W
<1>6. /\ SumFunctionOnSet(o, K) = Worth(O, c)
      /\ SumFunctionOnSet(s, K) = Worth(S, c)
      /\ SumFunctionOnSet(e, K) = Worth(R, c)
  BY <1>2, <1>4, WorthGroups
<1>7. SumFunctionOnSet(both, K) = SumFunctionOnSet(o, K) + SumFunctionOnSet(s, K)
  <2>1. /\ both \in [K -> Int] /\ less \in [K -> Int]
        /\ \A x \in K : both[x] = o[x] + s[x]
        /\ \A x \in K : less[x] = o[x] - s[x]
    BY <1>3
  <2> QED BY <1>2, <2>1, SumOfSums
<1>8. SumFunctionOnSet(net, K) = SumFunctionOnSet(both, K) - SumFunctionOnSet(e, K)
  <2>1. /\ both \in [K -> Int] /\ net \in [K -> Int] /\ more \in [K -> Int]
        /\ \A x \in K : more[x] = both[x] + e[x]
        /\ \A x \in K : net[x] = both[x] - e[x]
    BY <1>3
  <2> QED BY <1>2, <2>1, SumOfSums
<1>14. Worth(O, c) \in Int /\ Worth(S, c) \in Int /\ Worth(R, c) \in Int
  BY WorthTyped
<1>9. /\ Figure(W, c, "gross") = Worth(O, c) + Worth(S, c)
      /\ Figure(W, c, "refunds") = Worth(R, c)
      /\ Figure(W, c, "net") = Worth(O, c) + Worth(S, c) - Worth(R, c)
  BY BreakdownFigures DEF W
<1>10. ASSUME NEW g \in [K -> Int], \A x \in K : of[x] = g[x]
       PROVE  of = g
  BY <1>10, <1>15
<1>11. CASE a = "gross"
  <2>1. of = both
    BY <1>3, <1>5, <1>10, <1>11
  <2> QED BY <1>6, <1>7, <1>9, <1>11, <2>1 DEF W, of
<1>12. CASE a = "refunds"
  <2>1. of = e
    BY <1>2, <1>5, <1>10, <1>12
  <2> QED BY <1>6, <1>9, <1>12, <2>1 DEF W, of
<1>13. CASE a = "net"
  <2>1. of = net
    BY <1>3, <1>5, <1>10, <1>13
  <2> QED BY <1>6, <1>7, <1>8, <1>9, <1>13, <1>14, <2>1 DEF W, of
<1> QED BY <1>11, <1>12, <1>13 DEF Amounts, of

-----------------------------------------------------------------------------
(* Rows of reports *)

\* A figure that counts the rows of a key comes to the number of rows.
LEMMA TotalCounts ==
  ASSUME NEW rows, IsFiniteSet(DOMAIN rows), NEW T, IsFiniteSet(T),
         NEW key \in [T -> DOMAIN rows], NEW figure,
         \A x \in DOMAIN rows : rows[x][figure] = Cardinality(Group(T, key, x))
  PROVE  Total(rows, figure) = Cardinality(T)
<1> DEFINE K == DOMAIN rows
           of == [x \in K |-> rows[x][figure]]
<1>1. \A x : IsFiniteSet(Group(T, key, x))
  BY FS_Subset DEF Group
<1>2. \A x : Cardinality(Group(T, key, x)) \in Int
  BY <1>1, FS_CardinalityType
<1>3. \A x \in K : of[x] = Cardinality(Group(T, key, x))
  OBVIOUS
<1>4. of \in [K -> Int]
  BY <1>2, <1>3
<1>5. Total(rows, figure) = SumFunctionOnSet(of, K)
  BY DEF Total, SumFunction
<1>6. \A x \in K : of[x] = Cardinality({y \in T : key[y] = x})
  BY <1>3 DEF Group
<1> HIDE DEF of
<1>7. IsFiniteSet(K) /\ key \in [T -> K]
  OBVIOUS
<1> HIDE DEF K
<1> QED BY <1>4, <1>5, <1>6, <1>7, CountGroups

\* The money of the rows of each key comes to that of all rows.
LEMMA TotalWorth ==
  ASSUME NEW rows, IsFiniteSet(DOMAIN rows),
         NEW O, Charged(O), NEW S, Charged(S), NEW R, Charged(R),
         NEW kO \in [O -> DOMAIN rows], NEW kS \in [S -> DOMAIN rows],
         NEW kR \in [R -> DOMAIN rows],
         NEW M, MoneyOf(M, DOMAIN rows, O, kO, S, kS, R, kR),
         \A x \in DOMAIN rows : rows[x].money = M[x],
         NEW c, c # Null, NEW a \in Amounts
  PROVE  TotalMoney(rows, c, a) = Figure(Breakdown(Buckets(O, S, R)), c, a)
<1> DEFINE K == DOMAIN rows
<1>1. TotalMoney(rows, c, a) = SumFunctionOnSet(Figures(K, M, c, a), K)
  <2>1. Figures(K, M, c, a) = [x \in DOMAIN rows |-> Figure(rows[x].money, c, a)]
    BY DEF Figures
  <2>2. DOMAIN Figures(K, M, c, a) = K
    BY <2>1
  <2> QED BY <2>1, <2>2 DEF TotalMoney, SumFunction
<1>2. MoneyOf(M, K, O, kO, S, kS, R, kR)
  OBVIOUS
<1>3. /\ IsFiniteSet(K) /\ kO \in [O -> K] /\ kS \in [S -> K] /\ kR \in [R -> K]
  OBVIOUS
<1> HIDE DEF K
<1>4. SumFunctionOnSet(Figures(K, M, c, a), K) = Figure(Breakdown(Buckets(O, S, R)), c, a)
  BY <1>2, <1>3, MoneyGroups
<1> QED BY <1>1, <1>4

-----------------------------------------------------------------------------
(* By source and campaign *)

\* The filters of one row of the report.
Own(f, k) == [f EXCEPT !.source = k[1], !.campaign = k[2]]

\* They differ in the source and campaign only.
LEMMA OwnColumns ==
  ASSUME NEW f, DOMAIN f = FilterKeys, NEW k
  PROVE  /\ Own(f, k).source = k[1] /\ Own(f, k).campaign = k[2]
         /\ Own(f, k).from = f.from /\ Own(f, k).to = f.to /\ Own(f, k).model = f.model
         /\ Own(f, k).shop = f.shop /\ Own(f, k).market = f.market
         /\ Own(f, k).sku = f.sku /\ Own(f, k).channel = f.channel
         /\ Own(f, k).method = f.method /\ Own(f, k).currency = f.currency
         /\ f.channel = Null => AnyChannel(Own(f, k)) = Own(f, k)
<1>1. Own(f, k) = [x \in FilterKeys |-> IF x = "campaign" THEN k[2]
                                       ELSE IF x = "source" THEN k[1] ELSE f[x]]
  BY DEF Own, FilterKeys
<1>2. AnyChannel(Own(f, k)) = [x \in FilterKeys |-> IF x = "channel" THEN Null ELSE Own(f, k)[x]]
  BY <1>1 DEF AnyChannel, FilterKeys
<1>3. Own(f, k).channel = f.channel
  BY <1>1 DEF FilterKeys
<1>4. ASSUME f.channel = Null PROVE AnyChannel(Own(f, k)) = Own(f, k)
  <2>1. \A x \in FilterKeys : AnyChannel(Own(f, k))[x] = Own(f, k)[x]
    BY <1>2, <1>3, <1>4
  <2>2. /\ Own(f, k) = [x \in FilterKeys |-> Own(f, k)[x]]
        /\ AnyChannel(Own(f, k)) = [x \in FilterKeys |-> AnyChannel(Own(f, k))[x]]
    BY <1>1, <1>2
  <2> HIDE DEF Own, AnyChannel
  <2> QED BY <2>1, <2>2
<1> QED BY <1>1, <1>4 DEF FilterKeys

\* The filter on the source that is shown selects what one on the column does, if it
\* is not on direct visits.
LEMMA KeyedRows ==
  ASSUME NEW f, f.source # "direct"
  PROVE  \A r : Keyed(r, f) <=> Attributed(r, f)
BY DEF Keyed, Attributed, SourceKey, Selects

\* A key that the filters let through.
KeyOf(f, k) ==
  /\ k = <<k[1], k[2]>> /\ (k[1] = "direct" \/ k[1] # Null)
  /\ Selects(f.source, k[1]) /\ Selects(f.campaign, k[2])

\* The key of a row that the filters let through is let through.
LEMMA RowKeys ==
  ASSUME NEW f
  PROVE  \A r : Keyed(r, f) => KeyOf(f, SourceKey(r, f))
<1>1. ASSUME NEW r, Keyed(r, f) PROVE KeyOf(f, SourceKey(r, f))
  <2> DEFINE k == SourceKey(r, f)
  <2>1. k = <<IF r.touch[f.model].source = Null THEN "direct" ELSE r.touch[f.model].source,
              r.touch[f.model].campaign>>
    BY DEF SourceKey
  <2>2. Selects(f.source, k[1]) /\ Selects(f.campaign, k[2])
    BY <1>1 DEF Keyed
  <2>3. k = <<k[1], k[2]>> /\ (k[1] = "direct" \/ k[1] # Null)
    BY <2>1
  <2> HIDE DEF k
  <2>4. KeyOf(f, k)
    BY <2>2, <2>3 DEF KeyOf
  <2> QED BY <2>4 DEF k
<1> QED BY <1>1

\* The rows of a key are those that its own filters select.
LEMMA OwnRows ==
  ASSUME NEW f, DOMAIN f = FilterKeys, f.source # "direct",
         NEW k, KeyOf(f, k), k[1] # "direct", k[2] # Null
  PROVE  \A r : Attributed(r, Own(f, k)) <=> Attributed(r, f) /\ SourceKey(r, f) = k
<1>1. /\ Own(f, k).source = k[1] /\ Own(f, k).campaign = k[2] /\ Own(f, k).model = f.model
  BY OwnColumns
<1> HIDE DEF Own
<1>2. ASSUME NEW r PROVE Attributed(r, Own(f, k)) <=> /\ r.touch[f.model].source = k[1]
                                                       /\ r.touch[f.model].campaign = k[2]
  BY <1>1 DEF Attributed, Selects, KeyOf
<1>3. ASSUME NEW r PROVE SourceKey(r, f) = k <=> /\ r.touch[f.model].source = k[1]
                                                  /\ r.touch[f.model].campaign = k[2]
  <2> DEFINE t == r.touch[f.model]
  <2>1. SourceKey(r, f) = <<IF t.source = Null THEN "direct" ELSE t.source, t.campaign>>
    BY DEF SourceKey
  <2>2. k = <<k[1], k[2]>> /\ k[1] # Null
    BY DEF KeyOf
  <2> HIDE DEF t
  <2>3. SourceKey(r, f) = k <=> /\ (IF t.source = Null THEN "direct" ELSE t.source) = k[1]
                                /\ t.campaign = k[2]
    BY <2>1, <2>2
  <2>4. (IF t.source = Null THEN "direct" ELSE t.source) = k[1] <=> t.source = k[1]
    BY <2>2
  <2> QED BY <2>3, <2>4 DEF t
<1>4. ASSUME NEW r, r.touch[f.model].source = k[1], r.touch[f.model].campaign = k[2]
      PROVE  Attributed(r, f)
  BY <1>4 DEF Attributed, Selects, KeyOf
<1> QED BY <1>2, <1>3, <1>4

\* A session's visitor is there, once.
LEMMA SessionVisitor ==
  ASSUME Inv, AllValued(db), NEW s \in db["sessions"]
  PROVE  /\ Row(db["visitors"], s.visitor) \in db["visitors"]
         /\ \A v \in db["visitors"] : v.id = s.visitor <=> v = Row(db["visitors"], s.visitor)
<1>1. "sessions" \in Tables /\ "visitors" \in Tables
  BY DEF Tables
<1>2. s.visitor \in Ids(db["visitors"]) \cup {Null} /\ s.visitor # Null
  BY <1>1 DEF Inv, Sound, TableSound, RowSound, OfVisitors, AllValued, TableValued, Valued,
              WebTables
<1>3. PICK v \in db["visitors"] : v.id = s.visitor
  BY <1>2 DEF Ids
<1>4. /\ Row(db["visitors"], s.visitor) \in db["visitors"]
      /\ Row(db["visitors"], s.visitor).id = s.visitor
  BY <1>3 DEF Row
<1>5. KeysUnique("visitors", db["visitors"])
  BY <1>1 DEF Inv, Sound, TableSound
<1>6. \A x, y \in db["visitors"] : x.id = y.id => x = y
  BY <1>5 DEF KeysUnique, Key
<1> QED BY <1>4, <1>6

\* A session that the filters let through has the key of its visitor, which they do.
LEMMA SessionKeyed ==
  ASSUME Inv, AllValued(db), NEW f, NEW s \in db["sessions"]
  PROVE  OfAttributedVisitor(s, f) <=> Attributed(Row(db["visitors"], s.visitor), f)
<1>1. /\ Row(db["visitors"], s.visitor) \in db["visitors"]
      /\ \A v \in db["visitors"] : v.id = s.visitor <=> v = Row(db["visitors"], s.visitor)
  BY SessionVisitor
<1>2. f.source = Null /\ f.campaign = Null => Attributed(Row(db["visitors"], s.visitor), f)
  BY DEF Attributed, Selects
<1> QED BY <1>1, <1>2 DEF OfAttributedVisitor

\* Paid orders and sales have a currency.
LEMMA PaidInCurrency ==
  ASSUME AllValued(db), NEW f
  PROVE  /\ InCurrency(OrdersPaid(f)) = OrdersPaid(f)
         /\ InCurrency(ManualSales(f)) = ManualSales(f)
<1>1. /\ \A o \in db["orders"] : o.paid # Null => o.currency # Null
      /\ \A s \in db["sales"] : s.event # Null => s.currency # Null
  BY DEF AllValued, TableValued, Valued, Tables
<1>2. InCurrency(OrdersPaid(f)) = OrdersPaid(f)
  BY <1>1, Zenon DEF InCurrency, OrdersPaid
<1>3. InCurrency(ManualSales(f)) = ManualSales(f)
  BY <1>1, Zenon DEF InCurrency, ManualSales
<1> QED BY <1>2, <1>3

\* Under such filters the report selects the rows of the overview.
LEMMA SourceSets ==
  ASSUME Inv, AllValued(db), NEW f, f.channel = Null, f.source # "direct"
  PROVE  /\ SourceVisitors(f) = NewVisitors(f) /\ SourceSessions(f) = SessionRows(f)
         /\ SourceContacts(f) = ContactRows(f) /\ SourceLeads(f) = LeadRows(f)
         /\ SourceCreated(f) = OrdersCreated(f)
         /\ SourcePaid(f) = OrdersPaid(f) /\ SourceSales(f) = ManualSales(f)
         /\ SourceRefunds(f) = AttributedRefunds(f)
         /\ InCurrency(OrdersPaid(f)) = OrdersPaid(f)
         /\ InCurrency(ManualSales(f)) = ManualSales(f)
<1>1. \A r : Keyed(r, f) <=> Attributed(r, f)
  BY KeyedRows
<1>2. \A x : Selects(f.channel, x)
  BY DEF Selects
<1>3. f.source = Null /\ f.campaign = Null => \A r : Attributed(r, f)
  BY DEF Attributed, Selects
<1>4. SourceVisitors(f) = NewVisitors(f)
  BY <1>1, Zenon DEF SourceVisitors, NewVisitors
<1>5. SourceSessions(f) = SessionRows(f)
  <2>1. \A s \in db["sessions"] :
          Keyed(Row(db["visitors"], s.visitor), f) <=> OfAttributedVisitor(s, f)
    BY <1>1, SessionKeyed
  <2> QED BY <2>1, Zenon DEF SourceSessions, SessionRows
<1>6. SourceContacts(f) = ContactRows(f)
  BY <1>2, <1>3, Zenon DEF SourceContacts, ContactRows
<1>7. SourceLeads(f) = LeadRows(f)
  BY <1>1, <1>2, Zenon DEF SourceLeads, LeadRows
<1>8. SourceCreated(f) = OrdersCreated(f)
  BY <1>1, Zenon DEF SourceCreated, OrdersCreated
<1>9. SourcePaid(f) = OrdersPaid(f)
  BY <1>1, Zenon DEF SourcePaid, OrdersPaid
<1>10. SourceSales(f) = ManualSales(f)
  BY <1>1, Zenon DEF SourceSales, ManualSales
<1>11. SourceRefunds(f) = AttributedRefunds(f)
  BY <1>1, Zenon DEF SourceRefunds, AttributedRefunds
<1>12. InCurrency(OrdersPaid(f)) = OrdersPaid(f)
  BY PaidInCurrency
<1>13. InCurrency(ManualSales(f)) = ManualSales(f)
  BY PaidInCurrency
<1> QED BY <1>4, <1>5, <1>6, <1>7, <1>8, <1>9, <1>10, <1>11, <1>12, <1>13

\* The rows of a key are those of the overview of its own filters.
LEMMA OwnSets ==
  ASSUME Inv, AllValued(db), NEW f, DOMAIN f = FilterKeys, f.channel = Null, f.source # "direct",
         NEW k, KeyOf(f, k), k[1] # "direct", k[2] # Null
  PROVE  /\ {v \in SourceVisitors(f) : SourceKey(v, f) = k} = NewVisitors(Own(f, k))
         /\ {s \in SourceSessions(f) : VisitorKey(s, f) = k} = SessionRows(Own(f, k))
         /\ {c \in SourceContacts(f) : LeadKey(c, f) = k} = ContactRows(Own(f, k))
         /\ {l \in SourceLeads(f) : SourceKey(l, f) = k} = LeadRows(Own(f, k))
         /\ {o \in SourceCreated(f) : SourceKey(o, f) = k} = OrdersCreated(Own(f, k))
         /\ {o \in InCurrency(SourcePaid(f)) : SourceKey(o, f) = k} = OrdersPaid(Own(f, k))
         /\ {s \in InCurrency(SourceSales(f)) : SourceKey(s, f) = k} = ManualSales(Own(f, k))
         /\ {r \in SourceRefunds(f) : OrderKey(r, f) = k} = AttributedRefunds(Own(f, k))
<1> DEFINE g == Own(f, k)
<1>1. /\ g.source = k[1] /\ g.campaign = k[2]
      /\ g.from = f.from /\ g.to = f.to /\ g.shop = f.shop /\ g.market = f.market
      /\ g.channel = Null /\ g.method = f.method /\ g.currency = f.currency
  BY OwnColumns
<1>2. \A r : Attributed(r, g) <=> Attributed(r, f) /\ SourceKey(r, f) = k
  BY OwnRows
<1> HIDE DEF g
<1>3. /\ \A x : InPeriod(x, g) <=> InPeriod(x, f)
      /\ \A r : InPlace(r, g) <=> InPlace(r, f)
      /\ \A r : Priced(r, g) <=> Priced(r, f)
      /\ \A r : SeenIn(r, g) <=> SeenIn(r, f)
  BY <1>1 DEF InPeriod, InPlace, Priced, SeenIn
<1>4. \A r, x : Scoped(r, x, g) <=> Scoped(r, x, f)
  BY <1>3 DEF Scoped
<1>5. /\ SourceVisitors(f) = NewVisitors(f) /\ SourceSessions(f) = SessionRows(f)
      /\ SourceContacts(f) = ContactRows(f) /\ SourceLeads(f) = LeadRows(f)
      /\ SourceCreated(f) = OrdersCreated(f)
      /\ InCurrency(SourcePaid(f)) = OrdersPaid(f) /\ InCurrency(SourceSales(f)) = ManualSales(f)
      /\ SourceRefunds(f) = AttributedRefunds(f)
  BY SourceSets
<1>6. {v \in NewVisitors(f) : SourceKey(v, f) = k} = NewVisitors(g)
  BY <1>2, <1>3, Zenon DEF NewVisitors
<1>7. {s \in SessionRows(f) : VisitorKey(s, f) = k} = SessionRows(g)
  <2>1. \A s \in db["sessions"] : OfAttributedVisitor(s, g)
                                    <=> OfAttributedVisitor(s, f) /\ VisitorKey(s, f) = k
    BY <1>2, SessionKeyed DEF VisitorKey
  <2> QED BY <1>4, <2>1, Zenon DEF SessionRows
<1>8. {c \in ContactRows(f) : LeadKey(c, f) = k} = ContactRows(g)
  <2>1. \A x : Selects(f.channel, x) /\ Selects(g.channel, x)
    BY <1>1 DEF Selects
  <2>2. g.source # Null \/ g.campaign # Null
    BY <1>1
  <2>3. f.source = Null /\ f.campaign = Null => \A r : Attributed(r, f)
    BY DEF Attributed, Selects
  <2> QED BY <1>2, <1>4, <2>1, <2>2, <2>3, Zenon DEF ContactRows, LeadKey
<1>9. {l \in LeadRows(f) : SourceKey(l, f) = k} = LeadRows(g)
  <2>1. \A x : Selects(f.channel, x) /\ Selects(g.channel, x)
    BY <1>1 DEF Selects
  <2> QED BY <1>2, <1>4, <2>1, Zenon DEF LeadRows
<1>10. {o \in OrdersCreated(f) : SourceKey(o, f) = k} = OrdersCreated(g)
  BY <1>2, <1>3, <1>4, Zenon DEF OrdersCreated
<1>11. {o \in OrdersPaid(f) : SourceKey(o, f) = k} = OrdersPaid(g)
  BY <1>2, <1>3, <1>4, Zenon DEF OrdersPaid
<1>12. {s \in ManualSales(f) : SourceKey(s, f) = k} = ManualSales(g)
  <2>1. \A x : Selects(g.currency, x) <=> Selects(f.currency, x)
    BY <1>1
  <2> QED BY <1>2, <1>4, <2>1, Zenon DEF ManualSales
<1>13. {r \in AttributedRefunds(f) : OrderKey(r, f) = k} = AttributedRefunds(g)
  <2>1. \A x : /\ Selects(g.shop, x) <=> Selects(f.shop, x)
               /\ Selects(g.market, x) <=> Selects(f.market, x)
    BY <1>1
  <2>2. Refunds(g) = Refunds(f)
    BY <1>3, <2>1, Zenon DEF Refunds
  <2> QED BY <1>2, <2>2, Zenon DEF AttributedRefunds, OrderKey
<1> QED BY <1>5, <1>6, <1>7, <1>8, <1>9, <1>10, <1>11, <1>12, <1>13 DEF g

\* The keys of rows of the report, and of those that have the key of another row.
SourceKeyOf(T, f) == [r \in T |-> SourceKey(r, f)]
VisitorKeyOf(T, f) == [s \in T |-> VisitorKey(s, f)]
LeadKeyOf(T, f) == [c \in T |-> LeadKey(c, f)]
OrderKeyOf(T, f) == [r \in T |-> OrderKey(r, f)]

\* The keys of the report are those of the rows it selects.
LEMMA KeysOfRows ==
  ASSUME NEW f
  PROVE  /\ DOMAIN Sources(f) = SourceKeys(f)
         /\ \A k \in SourceKeys(f) : Sources(f)[k] = SourceRow(f, k)
         /\ SourceKeyOf(SourceVisitors(f), f) \in [SourceVisitors(f) -> DOMAIN Sources(f)]
         /\ VisitorKeyOf(SourceSessions(f), f) \in [SourceSessions(f) -> DOMAIN Sources(f)]
         /\ LeadKeyOf(SourceContacts(f), f) \in [SourceContacts(f) -> DOMAIN Sources(f)]
         /\ SourceKeyOf(SourceLeads(f), f) \in [SourceLeads(f) -> DOMAIN Sources(f)]
         /\ SourceKeyOf(SourceCreated(f), f) \in [SourceCreated(f) -> DOMAIN Sources(f)]
         /\ SourceKeyOf(InCurrency(SourcePaid(f)), f)
              \in [InCurrency(SourcePaid(f)) -> DOMAIN Sources(f)]
         /\ SourceKeyOf(InCurrency(SourceSales(f)), f)
              \in [InCurrency(SourceSales(f)) -> DOMAIN Sources(f)]
         /\ OrderKeyOf(SourceRefunds(f), f) \in [SourceRefunds(f) -> DOMAIN Sources(f)]
<1>1. DOMAIN Sources(f) = SourceKeys(f) /\ \A k \in SourceKeys(f) : Sources(f)[k] = SourceRow(f, k)
  BY DEF Sources
<1>2. /\ \A r \in SourceVisitors(f) : SourceKey(r, f) \in SourceKeys(f)
      /\ \A r \in SourceLeads(f) : SourceKey(r, f) \in SourceKeys(f)
      /\ \A r \in SourceCreated(f) : SourceKey(r, f) \in SourceKeys(f)
      /\ \A r \in InCurrency(SourcePaid(f)) : SourceKey(r, f) \in SourceKeys(f)
      /\ \A r \in InCurrency(SourceSales(f)) : SourceKey(r, f) \in SourceKeys(f)
      /\ \A r \in SourceSessions(f) : VisitorKey(r, f) \in SourceKeys(f)
      /\ \A r \in SourceContacts(f) : LeadKey(r, f) \in SourceKeys(f)
      /\ \A r \in SourceRefunds(f) : OrderKey(r, f) \in SourceKeys(f)
  BY DEF SourceKeys
<1> QED BY <1>1, <1>2 DEF SourceKeyOf, VisitorKeyOf, LeadKeyOf, OrderKeyOf

\* They are finitely many, each that of a row the filters let through.
LEMMA KeysFinite ==
  ASSUME Inv, AllValued(db), NEW f, f.channel = Null, f.source # "direct"
  PROVE  /\ IsFiniteSet(DOMAIN Sources(f))
         /\ \A k \in DOMAIN Sources(f) : KeyOf(f, k)
         /\ IsFiniteSet(SourceVisitors(f)) /\ IsFiniteSet(SourceSessions(f))
         /\ IsFiniteSet(SourceContacts(f)) /\ IsFiniteSet(SourceLeads(f))
         /\ IsFiniteSet(SourceCreated(f)) /\ IsFiniteSet(InCurrency(SourcePaid(f)))
         /\ IsFiniteSet(InCurrency(SourceSales(f))) /\ IsFiniteSet(SourceRefunds(f))
<1>1. \A t \in Tables : IsFiniteSet(db[t])
  BY TimesOf
<1>2. /\ IsFiniteSet(SourceVisitors(f)) /\ IsFiniteSet(SourceSessions(f))
      /\ IsFiniteSet(SourceContacts(f)) /\ IsFiniteSet(SourceLeads(f))
      /\ IsFiniteSet(SourceCreated(f)) /\ IsFiniteSet(InCurrency(SourcePaid(f)))
      /\ IsFiniteSet(InCurrency(SourceSales(f))) /\ IsFiniteSet(SourceRefunds(f))
  <2>1. /\ SourceVisitors(f) \subseteq db["visitors"] /\ SourceSessions(f) \subseteq db["sessions"]
        /\ SourceContacts(f) \subseteq db["contacts"] /\ SourceLeads(f) \subseteq db["leads"]
        /\ SourceCreated(f) \subseteq db["orders"]
        /\ InCurrency(SourcePaid(f)) \subseteq db["orders"]
        /\ InCurrency(SourceSales(f)) \subseteq db["sales"]
        /\ SourceRefunds(f) \subseteq db["refunds"]
    BY DEF SourceVisitors, SourceSessions, SourceContacts, SourceLeads, SourceCreated,
           InCurrency, SourcePaid, SourceSales, SourceRefunds, Refunds
  <2> QED BY <1>1, <2>1, FS_Subset DEF Tables
<1> DEFINE A == SourceVisitors(f) \cup SourceLeads(f) \cup SourceCreated(f)
                \cup InCurrency(SourcePaid(f)) \cup InCurrency(SourceSales(f))
           kA == {SourceKey(r, f) : r \in A}
           kV == {VisitorKey(s, f) : s \in SourceSessions(f)}
           kL == {LeadKey(c, f) : c \in SourceContacts(f)}
           kO == {OrderKey(r, f) : r \in SourceRefunds(f)}
<1>3. IsFiniteSet(A)
  BY <1>2, FS_Union
<1>4. /\ SourceKeyOf(A, f) \in Surjection(A, kA)
      /\ VisitorKeyOf(SourceSessions(f), f) \in Surjection(SourceSessions(f), kV)
      /\ LeadKeyOf(SourceContacts(f), f) \in Surjection(SourceContacts(f), kL)
      /\ OrderKeyOf(SourceRefunds(f), f) \in Surjection(SourceRefunds(f), kO)
  BY DEF Surjection, SourceKeyOf, VisitorKeyOf, LeadKeyOf, OrderKeyOf
<1>5. DOMAIN Sources(f) = kA \cup kV \cup kL \cup kO
  BY KeysOfRows DEF SourceKeys
<1>6. \A k \in DOMAIN Sources(f) : \E r : Keyed(r, f) /\ k = SourceKey(r, f)
  <2>1. ASSUME NEW r \in A PROVE Keyed(r, f)
    BY DEF SourceVisitors, SourceLeads, SourceCreated, SourcePaid, SourceSales, InCurrency
  <2>2. ASSUME NEW s \in SourceSessions(f)
        PROVE  Keyed(Row(db["visitors"], s.visitor), f)
                 /\ VisitorKey(s, f) = SourceKey(Row(db["visitors"], s.visitor), f)
    BY DEF SourceSessions, VisitorKey
  <2>3. ASSUME NEW c \in SourceContacts(f)
        PROVE  Keyed(Row(db["leads"], c.lead), f)
                 /\ LeadKey(c, f) = SourceKey(Row(db["leads"], c.lead), f)
    BY KeyedRows DEF SourceContacts, LeadKey
  <2>4. ASSUME NEW r \in SourceRefunds(f)
        PROVE  Keyed(OrderOf(r), f) /\ OrderKey(r, f) = SourceKey(OrderOf(r), f)
    BY DEF SourceRefunds, OrderKey
  <2> HIDE DEF A
  <2> QED BY <1>5, <2>1, <2>2, <2>3, <2>4
<1>7. \A k \in DOMAIN Sources(f) : KeyOf(f, k)
  BY <1>6, RowKeys
<1> HIDE DEF A, kA, kV, kL, kO
<1>8. IsFiniteSet(kA) /\ IsFiniteSet(kV) /\ IsFiniteSet(kL) /\ IsFiniteSet(kO)
  BY <1>2, <1>3, <1>4, FS_Surjection
<1>9. IsFiniteSet(kA \cup kV \cup kL \cup kO)
  BY <1>8, FS_Union
<1> QED BY <1>2, <1>5, <1>7, <1>9

\* What a row of the report holds.
LEMMA RowOfSource ==
  ASSUME NEW f, NEW k
  PROVE  /\ SourceRow(f, k).visitors
              = Cardinality(Group(SourceVisitors(f), SourceKeyOf(SourceVisitors(f), f), k))
         /\ SourceRow(f, k).sessions
              = Cardinality(Group(SourceSessions(f), VisitorKeyOf(SourceSessions(f), f), k))
         /\ SourceRow(f, k).contacts
              = Cardinality(Group(SourceContacts(f), LeadKeyOf(SourceContacts(f), f), k))
         /\ SourceRow(f, k).leads
              = Cardinality(Group(SourceLeads(f), SourceKeyOf(SourceLeads(f), f), k))
         /\ SourceRow(f, k).orders_created
              = Cardinality(Group(SourceCreated(f), SourceKeyOf(SourceCreated(f), f), k))
         /\ SourceRow(f, k).orders_paid
              = Cardinality(Group(InCurrency(SourcePaid(f)),
                                  SourceKeyOf(InCurrency(SourcePaid(f)), f), k))
         /\ SourceRow(f, k).manual_sales
              = Cardinality(Group(InCurrency(SourceSales(f)),
                                  SourceKeyOf(InCurrency(SourceSales(f)), f), k))
         /\ SourceRow(f, k).money
              = Breakdown(Buckets(
                  Group(InCurrency(SourcePaid(f)), SourceKeyOf(InCurrency(SourcePaid(f)), f), k),
                  Group(InCurrency(SourceSales(f)), SourceKeyOf(InCurrency(SourceSales(f)), f), k),
                  Group(SourceRefunds(f), OrderKeyOf(SourceRefunds(f), f), k)))
<1> DEFINE V == {v \in SourceVisitors(f) : SourceKey(v, f) = k}
           N == {s \in SourceSessions(f) : VisitorKey(s, f) = k}
           C == {c \in SourceContacts(f) : LeadKey(c, f) = k}
           L == {l \in SourceLeads(f) : SourceKey(l, f) = k}
           O == {o \in SourceCreated(f) : SourceKey(o, f) = k}
           P == {o \in InCurrency(SourcePaid(f)) : SourceKey(o, f) = k}
           S == {s \in InCurrency(SourceSales(f)) : SourceKey(s, f) = k}
           R == {r \in SourceRefunds(f) : OrderKey(r, f) = k}
<1>1. /\ SourceRow(f, k).visitors = Cardinality(V) /\ SourceRow(f, k).sessions = Cardinality(N)
      /\ SourceRow(f, k).contacts = Cardinality(C) /\ SourceRow(f, k).leads = Cardinality(L)
      /\ SourceRow(f, k).orders_created = Cardinality(O)
      /\ SourceRow(f, k).orders_paid = Cardinality(P)
      /\ SourceRow(f, k).manual_sales = Cardinality(S)
      /\ SourceRow(f, k).money = Breakdown(Buckets(P, S, R))
  BY DEF SourceRow
<1>2. V = Group(SourceVisitors(f), SourceKeyOf(SourceVisitors(f), f), k)
  BY Zenon DEF Group, SourceKeyOf
<1>3. N = Group(SourceSessions(f), VisitorKeyOf(SourceSessions(f), f), k)
  BY Zenon DEF Group, VisitorKeyOf
<1>4. C = Group(SourceContacts(f), LeadKeyOf(SourceContacts(f), f), k)
  BY Zenon DEF Group, LeadKeyOf
<1>5. L = Group(SourceLeads(f), SourceKeyOf(SourceLeads(f), f), k)
  BY Zenon DEF Group, SourceKeyOf
<1>6. O = Group(SourceCreated(f), SourceKeyOf(SourceCreated(f), f), k)
  BY Zenon DEF Group, SourceKeyOf
<1>7. P = Group(InCurrency(SourcePaid(f)), SourceKeyOf(InCurrency(SourcePaid(f)), f), k)
  BY Zenon DEF Group, SourceKeyOf
<1>8. S = Group(InCurrency(SourceSales(f)), SourceKeyOf(InCurrency(SourceSales(f)), f), k)
  BY Zenon DEF Group, SourceKeyOf
<1>9. R = Group(SourceRefunds(f), OrderKeyOf(SourceRefunds(f), f), k)
  BY Zenon DEF Group, OrderKeyOf
<1> HIDE DEF V, N, C, L, O, P, S, R
<1> QED BY <1>1, <1>2, <1>3, <1>4, <1>5, <1>6, <1>7, <1>8, <1>9

\* The counts of its rows come to those of the overview.
LEMMA SourceTotals ==
  ASSUME Inv, AllValued(db), NEW f, f.channel = Null, f.source # "direct"
  PROVE  \A figure \in SourceFigures : Total(Sources(f), figure) = Overview(f)[figure]
<1> DEFINE rows == Sources(f)
<1>1. /\ IsFiniteSet(DOMAIN rows)
      /\ IsFiniteSet(SourceVisitors(f)) /\ IsFiniteSet(SourceSessions(f))
      /\ IsFiniteSet(SourceContacts(f)) /\ IsFiniteSet(SourceLeads(f))
      /\ IsFiniteSet(SourceCreated(f)) /\ IsFiniteSet(InCurrency(SourcePaid(f)))
      /\ IsFiniteSet(InCurrency(SourceSales(f)))
  BY KeysFinite
<1>2. /\ \A k \in DOMAIN rows : rows[k] = SourceRow(f, k)
      /\ SourceKeyOf(SourceVisitors(f), f) \in [SourceVisitors(f) -> DOMAIN rows]
      /\ VisitorKeyOf(SourceSessions(f), f) \in [SourceSessions(f) -> DOMAIN rows]
      /\ LeadKeyOf(SourceContacts(f), f) \in [SourceContacts(f) -> DOMAIN rows]
      /\ SourceKeyOf(SourceLeads(f), f) \in [SourceLeads(f) -> DOMAIN rows]
      /\ SourceKeyOf(SourceCreated(f), f) \in [SourceCreated(f) -> DOMAIN rows]
      /\ SourceKeyOf(InCurrency(SourcePaid(f)), f) \in [InCurrency(SourcePaid(f)) -> DOMAIN rows]
      /\ SourceKeyOf(InCurrency(SourceSales(f)), f)
           \in [InCurrency(SourceSales(f)) -> DOMAIN rows]
  BY KeysOfRows
<1>3. /\ SourceVisitors(f) = NewVisitors(f) /\ SourceSessions(f) = SessionRows(f)
      /\ SourceContacts(f) = ContactRows(f) /\ SourceLeads(f) = LeadRows(f)
      /\ SourceCreated(f) = OrdersCreated(f)
      /\ InCurrency(SourcePaid(f)) = OrdersPaid(f) /\ InCurrency(SourceSales(f)) = ManualSales(f)
  BY SourceSets
<1>4. ASSUME NEW k \in DOMAIN rows
      PROVE  /\ rows[k].visitors
                   = Cardinality(Group(SourceVisitors(f), SourceKeyOf(SourceVisitors(f), f), k))
             /\ rows[k].sessions
                   = Cardinality(Group(SourceSessions(f), VisitorKeyOf(SourceSessions(f), f), k))
             /\ rows[k].contacts
                   = Cardinality(Group(SourceContacts(f), LeadKeyOf(SourceContacts(f), f), k))
             /\ rows[k].leads
                  = Cardinality(Group(SourceLeads(f), SourceKeyOf(SourceLeads(f), f), k))
             /\ rows[k].orders_created
                  = Cardinality(Group(SourceCreated(f), SourceKeyOf(SourceCreated(f), f), k))
             /\ rows[k].orders_paid
                  = Cardinality(Group(InCurrency(SourcePaid(f)),
                                  SourceKeyOf(InCurrency(SourcePaid(f)), f), k))
             /\ rows[k].manual_sales
                  = Cardinality(Group(InCurrency(SourceSales(f)),
                                  SourceKeyOf(InCurrency(SourceSales(f)), f), k))
  BY <1>2, RowOfSource
<1> HIDE DEF rows
<1>5. Total(rows, "visitors") = Cardinality(SourceVisitors(f))
  BY <1>1, <1>2, <1>4, TotalCounts
<1>6. Total(rows, "sessions") = Cardinality(SourceSessions(f))
  BY <1>1, <1>2, <1>4, TotalCounts
<1>7. Total(rows, "contacts") = Cardinality(SourceContacts(f))
  BY <1>1, <1>2, <1>4, TotalCounts
<1>8. Total(rows, "leads") = Cardinality(SourceLeads(f))
  BY <1>1, <1>2, <1>4, TotalCounts
<1>9. Total(rows, "orders_created") = Cardinality(SourceCreated(f))
  BY <1>1, <1>2, <1>4, TotalCounts
<1>10. Total(rows, "orders_paid") = Cardinality(InCurrency(SourcePaid(f)))
  BY <1>1, <1>2, <1>4, TotalCounts
<1>11. Total(rows, "manual_sales") = Cardinality(InCurrency(SourceSales(f)))
  BY <1>1, <1>2, <1>4, TotalCounts
<1> QED
  BY <1>3, <1>5, <1>6, <1>7, <1>8, <1>9, <1>10, <1>11, OverviewFigures DEF rows, SourceFigures

\* The money of the overview.
LEMMA PaidMoney ==
  ASSUME AllValued(db), NEW f
  PROVE  /\ Charged(OrdersPaid(f)) /\ Charged(ManualSales(f)) /\ Charged(AttributedRefunds(f))
         /\ Overview(f).money
              = Breakdown(Buckets(OrdersPaid(f), ManualSales(f), AttributedRefunds(f)))
<1>1. InCurrency(OrdersPaid(f)) = OrdersPaid(f) /\ InCurrency(ManualSales(f)) = ManualSales(f)
  BY PaidInCurrency
<1>2. Overview(f).money = Money(f)
  BY DEF Overview
<1> QED BY <1>1, <1>2, MoneyCharged DEF Money, InCurrency

\* Money is of currencies.
LEMMA CoinsNamed == \A O, S, R, c : c \in DOMAIN Breakdown(Buckets(O, S, R)) => c # Null
BY DEF Breakdown, Buckets

\* Rows whose money is that of the rows of their key have all the money.
LEMMA MoneySame ==
  ASSUME NEW rows, IsFiniteSet(DOMAIN rows),
         NEW O, Charged(O), NEW S, Charged(S), NEW R, Charged(R),
         NEW kO \in [O -> DOMAIN rows], NEW kS \in [S -> DOMAIN rows],
         NEW kR \in [R -> DOMAIN rows],
         NEW M, MoneyOf(M, DOMAIN rows, O, kO, S, kS, R, kR),
         \A x \in DOMAIN rows : rows[x].money = M[x],
         NEW money, money = Breakdown(Buckets(O, S, R))
  PROVE  SameMoney(rows, money, Amounts)
<1>1. \A c, a : c # Null /\ a \in Amounts => TotalMoney(rows, c, a) = Figure(money, c, a)
  BY TotalWorth
<1>3. \A k \in DOMAIN rows : \A c \in DOMAIN rows[k].money : c # Null
  BY CoinsNamed DEF MoneyOf
<1>4. \A c : c \in (UNION {DOMAIN rows[k].money : k \in DOMAIN rows}) \cup DOMAIN money
               => c # Null
  BY CoinsNamed, <1>3
<1> QED BY <1>1, <1>4 DEF SameMoney

\* So does their money.
LEMMA SourceMoney ==
  ASSUME Inv, AllValued(db), NEW f, f.channel = Null, f.source # "direct"
  PROVE  SameMoney(Sources(f), Overview(f).money, Amounts)
<1> DEFINE rows == Sources(f)
           O == OrdersPaid(f)
           S == ManualSales(f)
           R == AttributedRefunds(f)
           kO == SourceKeyOf(O, f)
           kS == SourceKeyOf(S, f)
           kR == OrderKeyOf(R, f)
           M == [k \in DOMAIN rows |-> rows[k].money]
<1>1. InCurrency(SourcePaid(f)) = O /\ InCurrency(SourceSales(f)) = S /\ SourceRefunds(f) = R
  BY SourceSets
<1>2. Charged(O) /\ Charged(S) /\ Charged(R) /\ Overview(f).money = Breakdown(Buckets(O, S, R))
  BY PaidMoney
<1>3. /\ IsFiniteSet(DOMAIN rows) /\ \A k \in DOMAIN rows : rows[k] = SourceRow(f, k)
      /\ kO \in [O -> DOMAIN rows] /\ kS \in [S -> DOMAIN rows] /\ kR \in [R -> DOMAIN rows]
  BY <1>1, KeysFinite, KeysOfRows
<1>4. \A k \in DOMAIN rows :
        rows[k].money = Breakdown(Buckets(Group(O, kO, k), Group(S, kS, k), Group(R, kR, k)))
  BY <1>1, <1>3, RowOfSource
<1>5. MoneyOf(M, DOMAIN rows, O, kO, S, kS, R, kR) /\ \A k \in DOMAIN rows : rows[k].money = M[k]
  BY <1>4 DEF MoneyOf
<1> HIDE DEF rows, O, S, R, kO, kS, kR, M
<1> QED BY <1>2, <1>3, <1>5, MoneySame DEF rows

\* A row of a source and campaign is the overview of its own filters.
LEMMA OwnOverview ==
  ASSUME Inv, AllValued(db), NEW f, DOMAIN f = FilterKeys, f.channel = Null, f.source # "direct",
         NEW k, KeyOf(f, k), k[1] # "direct", k[2] # Null
  PROVE  \A c \in DOMAIN SourceRow(f, k) : SourceRow(f, k)[c] = Overview(Own(f, k))[c]
<1> DEFINE g == Own(f, k)
           leads == {l \in SourceLeads(f) : SourceKey(l, f) = k}
           visitors == {v \in SourceVisitors(f) : SourceKey(v, f) = k}
           sessions == {s \in SourceSessions(f) : VisitorKey(s, f) = k}
           contacts == {c \in SourceContacts(f) : LeadKey(c, f) = k}
           created == {o \in SourceCreated(f) : SourceKey(o, f) = k}
           orders == {o \in InCurrency(SourcePaid(f)) : SourceKey(o, f) = k}
           sales == {s \in InCurrency(SourceSales(f)) : SourceKey(s, f) = k}
           refunds == {r \in SourceRefunds(f) : OrderKey(r, f) = k}
           linked == Cardinality({r \in orders : r.lead # Null})
                     + Cardinality({r \in sales : r.lead # Null})
           n == Cardinality(leads)
           m == Cardinality(sessions)
           p == Cardinality(orders)
           q == Cardinality(sales)
           row == [visitors |-> Cardinality(visitors), sessions |-> m,
                   contacts |-> Cardinality(contacts), leads |-> n,
                   orders_created |-> Cardinality(created), orders_paid |-> p,
                   manual_sales |-> q, money |-> Breakdown(Buckets(orders, sales, refunds)),
                   session_to_lead |-> Rate(n, m), session_to_paid_sale |-> Rate(p + q, m),
                   lead_to_paid_sale |-> Rate(linked, n),
                   first_visit_to_lead |-> WaitToLead(leads),
                   first_visit_to_paid_sale |-> WaitToPaid(orders, sales)]
<1>1. SourceRow(f, k) = row
  BY Zenon DEF SourceRow
<1>2. /\ visitors = NewVisitors(g) /\ sessions = SessionRows(g) /\ contacts = ContactRows(g)
      /\ leads = LeadRows(g) /\ created = OrdersCreated(g) /\ orders = OrdersPaid(g)
      /\ sales = ManualSales(g) /\ refunds = AttributedRefunds(g)
  BY Zenon, OwnSets
<1>3. g.channel = Null /\ AnyChannel(g) = g
  BY OwnColumns
<1>4. InCurrency(OrdersPaid(g)) = OrdersPaid(g) /\ InCurrency(ManualSales(g)) = ManualSales(g)
  BY PaidInCurrency
<1>5. linked = LeadSales(g)
  <2>1. \A rows : LeadLinked(rows, g) = {r \in rows : r.lead # Null}
    BY <1>3 DEF LeadLinked, OfChannel
  <2> HIDE DEF orders, sales, g
  <2> QED BY <1>2, <2>1 DEF LeadSales
<1>6. Breakdown(Buckets(orders, sales, refunds)) = Money(g)
  <2>1. Money(g) = Breakdown(Buckets(InCurrency(OrdersPaid(g)), InCurrency(ManualSales(g)),
                                     AttributedRefunds(g)))
    BY Zenon DEF Money, InCurrency
  <2> HIDE DEF orders, sales, refunds, g
  <2> QED BY <1>2, <1>4, <2>1
<1> DEFINE o == Overview(g)
<1>7. /\ o.visitors = Cardinality(NewVisitors(g)) /\ o.sessions = Cardinality(SessionRows(g))
      /\ o.contacts = Cardinality(ContactRows(g)) /\ o.leads = Cardinality(LeadRows(g))
      /\ o.orders_created = Cardinality(OrdersCreated(g))
      /\ o.orders_paid = Cardinality(OrdersPaid(g))
      /\ o.manual_sales = Cardinality(ManualSales(g)) /\ o.money = Money(g)
      /\ o.session_to_lead = Rate(Cardinality(LeadRows(g)), Cardinality(SessionRows(g)))
      /\ o.session_to_paid_sale
           = Rate(Cardinality(OrdersPaid(g)) + Cardinality(ManualSales(g)),
                  Cardinality(SessionRows(g)))
      /\ o.lead_to_paid_sale = Rate(LeadSales(g), Cardinality(LeadRows(g)))
      /\ o.first_visit_to_lead = WaitToLead(LeadRows(AnyChannel(g)))
      /\ o.first_visit_to_paid_sale = WaitToPaid(OrdersPaid(g), ManualSales(g))
  BY DEF Overview
<1> HIDE DEF g, leads, visitors, sessions, contacts, created, orders, sales, refunds, linked
<1>8. \A c \in DOMAIN row : row[c] = o[c]
  <2> HIDE DEF o
  <2>1. /\ row.visitors = o.visitors /\ row.sessions = o.sessions /\ row.contacts = o.contacts
        /\ row.leads = o.leads /\ row.orders_created = o.orders_created
        /\ row.orders_paid = o.orders_paid /\ row.manual_sales = o.manual_sales
    BY <1>2, <1>7
  <2>2. row.money = o.money /\ row.lead_to_paid_sale = o.lead_to_paid_sale
    BY <1>2, <1>5, <1>6, <1>7
  <2>3. /\ row.session_to_lead = o.session_to_lead
        /\ row.session_to_paid_sale = o.session_to_paid_sale
    BY <1>2, <1>7
  <2>4. /\ row.first_visit_to_lead = o.first_visit_to_lead
        /\ row.first_visit_to_paid_sale = o.first_visit_to_paid_sale
    BY <1>2, <1>3, <1>7
  <2>5. DOMAIN row = {"visitors", "sessions", "contacts", "leads", "orders_created",
                      "orders_paid", "manual_sales", "money", "session_to_lead",
                      "session_to_paid_sale", "lead_to_paid_sale", "first_visit_to_lead",
                      "first_visit_to_paid_sale"}
    OBVIOUS
  <2> HIDE DEF row
  <2> QED BY <2>1, <2>2, <2>3, <2>4, <2>5
<1> HIDE DEF row
<1> QED BY <1>1, <1>8 DEF g, o

\* The report by source and the overview count the same rows there.
LEMMA ValuedAgree == Inv /\ AllValued(db) => SourcesAgree
<1> SUFFICES ASSUME Inv, AllValued(db), NEW f \in Filters, f.channel = Null, f.source # "direct"
             PROVE  /\ \A k \in SourceFigures : Total(Sources(f), k) = Overview(f)[k]
                    /\ SameMoney(Sources(f), Overview(f).money, Amounts)
                    /\ \A k \in DOMAIN Sources(f) : k[1] # "direct" /\ k[2] # Null =>
                         \A c \in DOMAIN Sources(f)[k] : Sources(f)[k][c] = Overview(Own(f, k))[c]
  BY DEF SourcesAgree, Own
<1>1. DOMAIN f = FilterKeys
  BY FiltersAssumption
<1>2. \A k \in DOMAIN Sources(f) : Sources(f)[k] = SourceRow(f, k) /\ KeyOf(f, k)
  BY KeysOfRows, KeysFinite
<1>3. ASSUME NEW k \in DOMAIN Sources(f), k[1] # "direct", k[2] # Null
      PROVE  \A c \in DOMAIN Sources(f)[k] : Sources(f)[k][c] = Overview(Own(f, k))[c]
  BY <1>1, <1>2, <1>3, OwnOverview
<1> QED BY <1>3, SourceTotals, SourceMoney

\* The report by source and the overview count the same rows: whatever events arrived
\* and in whatever order, and whatever the filters, but for one on a contact channel
\* or on direct visits, its rows come to the overview, in every count and every
\* currency, and a row of a source and campaign is the overview of these alone
\* (sources.py:75, overview.py:24, money_agg.py:178).
THEOREM SourcesAgreeAlways == Spec => []SourcesAgree
<1>1. Init => Inv /\ AllValued(db)
  BY InitInv, InitValued
<1>2. Inv /\ AllValued(db) /\ [Next]_vars => (Inv /\ AllValued(db))'
  BY StepInv, StepValued
<1>3. Inv /\ AllValued(db) => SourcesAgree
  BY ValuedAgree
<1> QED BY <1>1, <1>2, <1>3, PTL DEF Spec

-----------------------------------------------------------------------------
(* By day, payment method, contact channel and product *)

\* Days are in the order of their instants.
LEMMA DaysInOrder ==
  ASSUME NEW a \in Int, NEW b \in Int, a <= b, NEW d \in Nat \ {0}
  PROVE  a \div d \in Int /\ b \div d \in Int /\ a \div d <= b \div d
<1> DEFINE p == a \div d
           q == b \div d
<1>1. /\ p \in Int /\ q \in Int
      /\ d * p <= a /\ a < d * (p + 1) /\ d * q <= b /\ b < d * (q + 1)
  OBVIOUS
<1> HIDE DEF p, q
<1>2. ASSUME q + 1 <= p PROVE FALSE
  <2>1. d * (q + 1) <= d * p
    BY <1>1, <1>2
  <2> QED BY <1>1, <2>1
<1> QED BY <1>1, <1>2 DEF p, q

\* A figure that counts the rows of a key comes to no more than the rows, of which
\* some may have no key of the report.
Within(T, key, K) == {r \in T : key[r] \in K}

LEMMA TotalWithin ==
  ASSUME NEW rows, IsFiniteSet(DOMAIN rows), NEW T, IsFiniteSet(T), NEW key, NEW figure,
         \A x \in DOMAIN rows : rows[x][figure] = Cardinality(Group(T, key, x))
  PROVE  /\ Cardinality(T) \in Nat /\ Total(rows, figure) \in Nat
         /\ Total(rows, figure) <= Cardinality(T)
<1> DEFINE K == DOMAIN rows
           W == Within(T, key, K)
           k == [r \in W |-> key[r]]
<1>1. W \subseteq T /\ k \in [W -> K]
  BY DEF Within
<1>2. /\ IsFiniteSet(W) /\ Cardinality(W) \in Nat /\ Cardinality(T) \in Nat
      /\ Cardinality(W) <= Cardinality(T)
  BY <1>1, FS_Subset, FS_CardinalityType
<1>3. \A x \in K : Group(T, key, x) = Group(W, k, x)
  BY DEF Group, Within
<1>4. \A x \in K : rows[x][figure] = Cardinality(Group(W, k, x))
  BY <1>3
<1> HIDE DEF W, k
<1>5. Total(rows, figure) = Cardinality(W)
  BY <1>1, <1>2, <1>4, TotalCounts
<1> QED BY <1>2, <1>5

\* A figure that is what two others come to.
LEMMA TotalOfTwo ==
  ASSUME NEW rows, IsFiniteSet(DOMAIN rows), NEW one, NEW two, NEW both,
         \A x \in DOMAIN rows : /\ rows[x][one] \in Int /\ rows[x][two] \in Int
                                /\ rows[x][both] = rows[x][one] + rows[x][two]
  PROVE  Total(rows, both) = Total(rows, one) + Total(rows, two)
<1> DEFINE K == DOMAIN rows
           f == [x \in K |-> rows[x][one]]
           h == [x \in K |-> rows[x][two]]
           p == [x \in K |-> rows[x][both]]
           d == [x \in K |-> rows[x][one] - rows[x][two]]
<1>1. /\ f \in [K -> Int] /\ h \in [K -> Int] /\ p \in [K -> Int] /\ d \in [K -> Int]
      /\ \A x \in K : p[x] = f[x] + h[x]
      /\ \A x \in K : d[x] = f[x] - h[x]
  OBVIOUS
<1>2. /\ Total(rows, one) = SumFunctionOnSet(f, K) /\ Total(rows, two) = SumFunctionOnSet(h, K)
      /\ Total(rows, both) = SumFunctionOnSet(p, K)
  BY DEF Total, SumFunction
<1> HIDE DEF f, h, p, d, K
<1>3. IsFiniteSet(K)
  BY DEF K
<1> QED BY <1>1, <1>2, <1>3, SumOfSums

\* Rows have no more values than there are rows.
LEMMA ValuesCounted ==
  ASSUME NEW S, IsFiniteSet(S), NEW val, NEW V, V \subseteq {val[r] : r \in S}
  PROVE  /\ IsFiniteSet(V) /\ Cardinality(V) \in Nat /\ Cardinality(S) \in Nat
         /\ Cardinality(V) <= Cardinality(S)
<1> DEFINE g == [r \in S |-> val[r]]
           I == {val[r] : r \in S}
<1>1. g \in Surjection(S, I)
  BY DEF Surjection
<1> HIDE DEF g
<1>2. IsFiniteSet(I) /\ Cardinality(I) <= Cardinality(S)
  BY <1>1, FS_Surjection
<1>3. /\ IsFiniteSet(V) /\ Cardinality(V) <= Cardinality(I)
  BY <1>2, FS_Subset
<1>4. Cardinality(V) \in Nat /\ Cardinality(I) \in Nat /\ Cardinality(S) \in Nat
  BY <1>2, <1>3, FS_CardinalityType
<1> HIDE DEF I
<1> QED BY <1>2, <1>3, <1>4

\* Some of the rows come to no more than all of them.
LEMMA WorthWithin ==
  ASSUME NEW S, Charged(S), NEW A, A \subseteq S, NEW c, c # Null
  PROVE  /\ Worth(A, c) \in Int /\ Worth(S, c) \in Int
         /\ 0 <= Worth(A, c) /\ Worth(A, c) <= Worth(S, c)
<1>1. ASSUME NEW T, Charged(T) PROVE Worth(T, c) \in Int /\ 0 <= Worth(T, c)
  <2> DEFINE U == OfCurrency(T, c)
             f == [r \in U |-> r.amount]
             z == [r \in U |-> 0]
             p == [r \in U |-> f[r] + f[r]]
  <2>1. IsFiniteSet(U) /\ f \in [U -> Int] /\ Worth(T, c) \in Int
    BY <1>1, WorthTyped
  <2>2. \A r \in U : f[r] \in Nat
    BY <1>1 DEF Charged, OfCurrency
  <2>3. Worth(T, c) = SumFunctionOnSet(f, U)
    BY DEF Worth, SumFunction
  <2> HIDE DEF f, U
  <2>4. /\ z \in [U -> Int] /\ p \in [U -> Int]
        /\ \A r \in U : p[r] = f[r] + f[r]
        /\ \A r \in U : z[r] = f[r] - f[r]
        /\ \A r \in U : z[r] <= f[r]
    BY <2>1, <2>2
  <2> HIDE DEF z, p
  <2>5. SumFunctionOnSet(z, U) = SumFunctionOnSet(f, U) - SumFunctionOnSet(f, U)
    BY <2>1, <2>4, SumOfSums
  <2>6. SumFunctionOnSet(z, U) <= SumFunctionOnSet(f, U)
    BY <2>1, <2>4, SumOrder
  <2> QED BY <2>1, <2>3, <2>5, <2>6
<1>2. Parts(S, A, S \ A)
  BY DEF Parts, Charged
<1>3. /\ Charged(A) /\ Charged(S \ A) /\ Worth(S, c) = Worth(A, c) + Worth(S \ A, c)
  BY <1>2, WorthAdds
<1> QED BY <1>1, <1>3

\* The days of orders, and of sales or refunds.
PaidDayOf(T) == [o \in T |-> UtcDay(o.paidAt)]
DayOf(T) == [r \in T |-> UtcDay(r.at)]

\* What a day's row holds.
LEMMA RowOfDay ==
  ASSUME AllValued(db), NEW f \in Filters
  PROVE  /\ DOMAIN OverviewDaily(f) = DayRange(f)
         /\ \A x \in DayRange(f) :
              /\ OverviewDaily(f)[x].orders_paid
                   = Cardinality(Group(OrdersPaid(f), PaidDayOf(OrdersPaid(f)), x))
              /\ OverviewDaily(f)[x].manual_sales
                   = Cardinality(Group(ManualSales(f), DayOf(ManualSales(f)), x))
              /\ OverviewDaily(f)[x].paid_sales
                   = OverviewDaily(f)[x].orders_paid + OverviewDaily(f)[x].manual_sales
              /\ OverviewDaily(f)[x].money
                   = Breakdown(Buckets(
                       Group(OrdersPaid(f), PaidDayOf(OrdersPaid(f)), x),
                       Group(ManualSales(f), DayOf(ManualSales(f)), x),
                       Group(AttributedRefunds(f), DayOf(AttributedRefunds(f)), x)))
<1>1. DOMAIN OverviewDaily(f) = DayRange(f)
  BY DEF OverviewDaily
<1>2. ASSUME NEW x \in DayRange(f)
      PROVE  /\ OverviewDaily(f)[x].orders_paid
                   = Cardinality(Group(OrdersPaid(f), PaidDayOf(OrdersPaid(f)), x))
              /\ OverviewDaily(f)[x].manual_sales
                   = Cardinality(Group(ManualSales(f), DayOf(ManualSales(f)), x))
              /\ OverviewDaily(f)[x].paid_sales
                   = OverviewDaily(f)[x].orders_paid + OverviewDaily(f)[x].manual_sales
              /\ OverviewDaily(f)[x].money
                   = Breakdown(Buckets(
                       Group(OrdersPaid(f), PaidDayOf(OrdersPaid(f)), x),
                       Group(ManualSales(f), DayOf(ManualSales(f)), x),
                       Group(AttributedRefunds(f), DayOf(AttributedRefunds(f)), x)))
  <2> DEFINE O == {o \in InCurrency(OrdersPaid(f)) : UtcDay(o.paidAt) = x}
             S == {s \in InCurrency(ManualSales(f)) : UtcDay(s.at) = x}
             R == {r \in AttributedRefunds(f) : UtcDay(r.at) = x}
             row == [orders_paid |-> Cardinality(O), manual_sales |-> Cardinality(S),
                     paid_sales |-> Cardinality(O) + Cardinality(S),
                     money |-> Breakdown(Buckets(O, S, R))]
  <2>1. OverviewDaily(f)[x] = row
    BY Zenon DEF OverviewDaily
  <2>2. InCurrency(OrdersPaid(f)) = OrdersPaid(f) /\ InCurrency(ManualSales(f)) = ManualSales(f)
    BY PaidInCurrency
  <2>3. O = Group(OrdersPaid(f), PaidDayOf(OrdersPaid(f)), x)
    BY Zenon, <2>2 DEF Group, PaidDayOf
  <2>4. S = Group(ManualSales(f), DayOf(ManualSales(f)), x)
    BY Zenon, <2>2 DEF Group, DayOf
  <2>5. R = Group(AttributedRefunds(f), DayOf(AttributedRefunds(f)), x)
    BY Zenon DEF Group, DayOf
  <2> HIDE DEF O, S, R
  <2> QED BY <2>1, <2>3, <2>4, <2>5
<1> QED BY <1>1, <1>2

\* Days of UTC have every sale and refund of the period in a row.
LEMMA DaysOfPeriod ==
  ASSUME AllValued(db), NEW f \in Filters
  PROVE  /\ IsFiniteSet(DayRange(f))
         /\ f.offset = 0 =>
              /\ PaidDayOf(OrdersPaid(f)) \in [OrdersPaid(f) -> DayRange(f)]
              /\ DayOf(ManualSales(f)) \in [ManualSales(f) -> DayRange(f)]
              /\ DayOf(AttributedRefunds(f)) \in [AttributedRefunds(f) -> DayRange(f)]
<1>1. /\ DayLength \in Nat \ {0} /\ f.from \in Int /\ f.to \in Int /\ f.offset \in Int
  BY FiltersAssumption
<1>2. IsFiniteSet(DayRange(f))
  <2>1. (f.from + f.offset) \div DayLength \in Int /\ (f.to + f.offset) \div DayLength \in Int
    BY <1>1
  <2> QED BY <2>1, FS_Interval DEF DayRange
<1>3. ASSUME f.offset = 0, NEW at \in Nat, InPeriod(at, f) PROVE UtcDay(at) \in DayRange(f)
  <2>1. at \in Int /\ f.from <= at /\ at <= f.to
    BY <1>3 DEF InPeriod
  <2>2. /\ f.from \div DayLength \in Int /\ at \div DayLength \in Int /\ f.to \div DayLength \in Int
        /\ f.from \div DayLength <= at \div DayLength /\ at \div DayLength <= f.to \div DayLength
    BY <1>1, <2>1, DaysInOrder
  <2>3. f.from + f.offset = f.from /\ f.to + f.offset = f.to
    BY <1>1, <1>3
  <2> QED BY <2>2, <2>3 DEF DayRange, UtcDay
<1>4. /\ \A o \in OrdersPaid(f) : o.paidAt \in Nat /\ InPeriod(o.paidAt, f)
      /\ \A s \in ManualSales(f) : s.at \in Nat /\ InPeriod(s.at, f)
      /\ \A r \in AttributedRefunds(f) : r.at \in Nat /\ InPeriod(r.at, f)
  <2>1. /\ \A o \in db["orders"] : o.paidAt \in Nat \cup {Null}
        /\ \A s \in db["sales"] : s.at \in Nat \cup {Null}
        /\ \A r \in db["refunds"] : r.at \in Nat \cup {Null}
    BY TimesOf DEF Tables, Timeless
  <2>2. /\ \A o \in OrdersPaid(f) : o \in db["orders"] /\ InPeriod(o.paidAt, f)
        /\ \A s \in ManualSales(f) : s \in db["sales"] /\ InPeriod(s.at, f)
        /\ \A r \in AttributedRefunds(f) : r \in db["refunds"] /\ InPeriod(r.at, f)
    BY DEF OrdersPaid, ManualSales, AttributedRefunds, Refunds, Scoped
  <2>3. \A x : InPeriod(x, f) => x # Null
    BY DEF InPeriod
  <2> QED BY <2>1, <2>2, <2>3
<1> QED BY <1>2, <1>3, <1>4 DEF PaidDayOf, DayOf

\* The rows by day come to the overview with days of UTC, and to no more otherwise.
LEMMA DaysAgree ==
  ASSUME AllValued(db), NEW f \in Filters
  PROVE  /\ f.offset = 0 =>
              /\ Total(OverviewDaily(f), "orders_paid") = Overview(f).orders_paid
              /\ Total(OverviewDaily(f), "manual_sales") = Overview(f).manual_sales
              /\ SameMoney(OverviewDaily(f), Overview(f).money, Amounts)
         /\ Total(OverviewDaily(f), "paid_sales")
              <= Overview(f).orders_paid + Overview(f).manual_sales
<1> DEFINE rows == OverviewDaily(f)
           O == OrdersPaid(f)
           S == ManualSales(f)
           R == AttributedRefunds(f)
           kO == PaidDayOf(O)
           kS == DayOf(S)
           kR == DayOf(R)
           M == [k \in DOMAIN rows |-> rows[k].money]
<1>1. /\ IsFiniteSet(DOMAIN rows)
      /\ f.offset = 0 => /\ kO \in [O -> DOMAIN rows] /\ kS \in [S -> DOMAIN rows]
                         /\ kR \in [R -> DOMAIN rows]
  BY DaysOfPeriod, RowOfDay
<1>2. \A x \in DOMAIN rows :
        /\ rows[x].orders_paid = Cardinality(Group(O, kO, x))
        /\ rows[x].manual_sales = Cardinality(Group(S, kS, x))
        /\ rows[x].paid_sales = rows[x].orders_paid + rows[x].manual_sales
        /\ rows[x].money = Breakdown(Buckets(Group(O, kO, x), Group(S, kS, x), Group(R, kR, x)))
  BY RowOfDay
<1>3. IsFiniteSet(O) /\ IsFiniteSet(S)
  BY TimesOf, FS_Subset DEF OrdersPaid, ManualSales, Tables
<1>4. /\ Overview(f).orders_paid = Cardinality(O) /\ Overview(f).manual_sales = Cardinality(S)
  BY OverviewFigures
<1>5. Charged(O) /\ Charged(S) /\ Charged(R) /\ Overview(f).money = Breakdown(Buckets(O, S, R))
  BY PaidMoney
<1>6. MoneyOf(M, DOMAIN rows, O, kO, S, kS, R, kR) /\ \A k \in DOMAIN rows : rows[k].money = M[k]
  BY <1>2 DEF MoneyOf
<1> HIDE DEF rows, O, S, R, kO, kS, kR, M
<1>7. /\ Total(rows, "orders_paid") <= Cardinality(O)
      /\ Total(rows, "orders_paid") \in Nat /\ Cardinality(O) \in Nat
      /\ f.offset = 0 => Total(rows, "orders_paid") = Cardinality(O)
  <2>1. \A x \in DOMAIN rows : rows[x]["orders_paid"] = Cardinality(Group(O, kO, x))
    BY <1>2
  <2>2. f.offset = 0 => Total(rows, "orders_paid") = Cardinality(O)
    BY <1>1, <1>3, <2>1, TotalCounts
  <2> QED BY <1>1, <1>3, <2>1, <2>2, TotalWithin
<1>8. /\ Total(rows, "manual_sales") <= Cardinality(S)
      /\ Total(rows, "manual_sales") \in Nat /\ Cardinality(S) \in Nat
      /\ f.offset = 0 => Total(rows, "manual_sales") = Cardinality(S)
  <2>1. \A x \in DOMAIN rows : rows[x]["manual_sales"] = Cardinality(Group(S, kS, x))
    BY <1>2
  <2>2. f.offset = 0 => Total(rows, "manual_sales") = Cardinality(S)
    BY <1>1, <1>3, <2>1, TotalCounts
  <2> QED BY <1>1, <1>3, <2>1, <2>2, TotalWithin
<1>9. Total(rows, "paid_sales") = Total(rows, "orders_paid") + Total(rows, "manual_sales")
  <2>1. \A x : Group(O, kO, x) \subseteq O /\ Group(S, kS, x) \subseteq S
    BY DEF Group
  <2>2. \A x \in DOMAIN rows : rows[x]["orders_paid"] \in Int /\ rows[x]["manual_sales"] \in Int
    BY <1>2, <1>3, <2>1, FS_Subset, FS_CardinalityType
  <2> QED BY <1>1, <1>2, <2>2, TotalOfTwo
<1>10. f.offset = 0 => SameMoney(rows, Overview(f).money, Amounts)
  BY <1>1, <1>5, <1>6, MoneySame
<1> QED BY <1>1, <1>4, <1>7, <1>8, <1>9, <1>10 DEF rows

\* Rows with a payment method, and their methods.
WithMethod(S) == {r \in S : r.method # Null}
MethodOf(T) == [r \in T |-> r.method]

\* A refund has the method of its order.
LEMMA RefundsHaveMethods ==
  ASSUME AllValued(db), NEW f
  PROVE  \A r \in AttributedRefunds(f) : r.method # Null
BY DEF AttributedRefunds, Refunds, AllValued, TableValued, Valued, Tables

\* What a payment method's row holds.
LEMMA RowOfMethod ==
  ASSUME AllValued(db), NEW f
  PROVE  \A m \in DOMAIN PaymentMethods(f) :
           /\ PaymentMethods(f)[m].orders_created
                = Cardinality(Group(WithMethod(OrdersCreated(f)),
                                    MethodOf(WithMethod(OrdersCreated(f))), m))
           /\ PaymentMethods(f)[m].orders_paid
                = Cardinality(Group(WithMethod(OrdersPaid(f)),
                                    MethodOf(WithMethod(OrdersPaid(f))), m))
           /\ PaymentMethods(f)[m].money
                = Breakdown(Buckets(
                    Group(WithMethod(OrdersPaid(f)), MethodOf(WithMethod(OrdersPaid(f))), m),
                    {},
                    Group(AttributedRefunds(f), MethodOf(AttributedRefunds(f)), m)))
<1> DEFINE with(S, m) == {r \in S : r.method = m}
           created == {o \in OrdersCreated(f) : o.method # Null}
           paid == {o \in InCurrency(OrdersPaid(f)) : o.method # Null}
           refunds == {r \in AttributedRefunds(f) : r.method # Null}
           kind(m, k) == {p \in with(PaymentRows(f), m) : p.kind = k}
           shown(m) == Cardinality({CheckoutId(p) : p \in kind(m, "shown")})
           selected(m) == Cardinality({CheckoutId(p) : p \in kind(m, "selected")})
           keys == {p.method : p \in PaymentRows(f)}
                     \cup {r.method : r \in created \cup paid \cup refunds}
           row(m) == [shown |-> shown(m), selected |-> selected(m),
                      failed |-> Cardinality(kind(m, "failed")),
                      selected_rate |-> Rate(selected(m), shown(m)),
                      orders_created |-> Cardinality(with(created, m)),
                      orders_paid |-> Cardinality(with(paid, m)),
                      selected_to_paid |-> Rate(Cardinality(with(paid, m)), selected(m)),
                      money |-> Breakdown(Buckets(with(paid, m), {}, with(refunds, m)))]
<1>1. PaymentMethods(f) = [m \in keys |-> row(m)]
  BY DEF PaymentMethods
<1>2. /\ created = WithMethod(OrdersCreated(f)) /\ paid = WithMethod(OrdersPaid(f))
      /\ refunds = AttributedRefunds(f)
  <2>1. InCurrency(OrdersPaid(f)) = OrdersPaid(f)
    BY PaidInCurrency
  <2>2. \A r \in AttributedRefunds(f) : r.method # Null
    BY RefundsHaveMethods
  <2> QED BY <2>1, <2>2, Zenon DEF WithMethod
<1>3. \A S, m : with(S, m) = Group(S, MethodOf(S), m)
  BY Zenon DEF Group, MethodOf
<1> HIDE DEF keys, shown, selected, kind, with, created, paid, refunds
<1>4. \A m : /\ row(m).orders_created = Cardinality(with(created, m))
             /\ row(m).orders_paid = Cardinality(with(paid, m))
             /\ row(m).money = Breakdown(Buckets(with(paid, m), {}, with(refunds, m)))
  OBVIOUS
<1> HIDE DEF row
<1>5. ASSUME NEW m \in DOMAIN PaymentMethods(f)
      PROVE  /\ PaymentMethods(f)[m].orders_created = Cardinality(with(created, m))
             /\ PaymentMethods(f)[m].orders_paid = Cardinality(with(paid, m))
             /\ PaymentMethods(f)[m].money = Breakdown(Buckets(with(paid, m), {}, with(refunds, m)))
  BY <1>1, <1>4
<1> QED BY <1>2, <1>3, <1>5

\* Every method of an order or refund has a row; they are finitely many.
LEMMA MethodsThere ==
  ASSUME AllValued(db), NEW f
  PROVE  /\ IsFiniteSet(DOMAIN PaymentMethods(f))
         /\ MethodOf(WithMethod(OrdersCreated(f)))
              \in [WithMethod(OrdersCreated(f)) -> DOMAIN PaymentMethods(f)]
         /\ MethodOf(WithMethod(OrdersPaid(f)))
              \in [WithMethod(OrdersPaid(f)) -> DOMAIN PaymentMethods(f)]
         /\ MethodOf(AttributedRefunds(f)) \in [AttributedRefunds(f) -> DOMAIN PaymentMethods(f)]
<1> DEFINE A == PaymentRows(f)
           C == WithMethod(OrdersCreated(f))
           P == WithMethod(OrdersPaid(f))
           R == AttributedRefunds(f)
           T == A \cup C \cup P \cup R
           K == DOMAIN PaymentMethods(f)
<1>1. InCurrency(OrdersPaid(f)) = OrdersPaid(f)
  BY PaidInCurrency
<1>2. \A r \in R : r.method # Null
  BY RefundsHaveMethods
<1>3. K = {r.method : r \in T}
  <2>1. K = MethodsOf(f)
    BY MethodRows
  <2>2. \A o \in OrdersPaid(f) : o.currency # Null
    BY <1>1 DEF InCurrency
  <2> HIDE DEF K, A, R
  <2>3. \A m : m \in MethodsOf(f) <=> m \in {r.method : r \in T}
    BY <1>2, <2>2 DEF MethodsOf, A, R, WithMethod
  <2> QED BY <2>1, <2>3
<1>4. IsFiniteSet(T)
  <2>1. /\ A \subseteq db["payments"] /\ C \subseteq db["orders"] /\ P \subseteq db["orders"]
        /\ R \subseteq db["refunds"]
    BY DEF PaymentRows, FactRows, OrdersCreated, OrdersPaid, AttributedRefunds, Refunds, WithMethod
  <2>2. IsFiniteSet(db["payments"]) /\ IsFiniteSet(db["orders"]) /\ IsFiniteSet(db["refunds"])
    BY TimesOf DEF Tables
  <2> HIDE DEF A, C, P, R
  <2>3. IsFiniteSet(A) /\ IsFiniteSet(C) /\ IsFiniteSet(P) /\ IsFiniteSet(R)
    BY <2>1, <2>2, FS_Subset
  <2> QED BY <2>3, FS_Union
<1>5. \A r \in T : r.method \in K
  BY <1>3
<1>6. MethodOf(T) \in Surjection(T, K)
  BY <1>3 DEF Surjection, MethodOf
<1> HIDE DEF A, C, P, R, K
<1>7. MethodOf(C) \in [C -> K] /\ MethodOf(P) \in [P -> K] /\ MethodOf(R) \in [R -> K]
  BY <1>5 DEF MethodOf
<1> HIDE DEF T
<1>8. IsFiniteSet(K)
  BY <1>4, <1>6, FS_Surjection
<1> QED BY <1>7, <1>8 DEF C, P, R, K

\* The rows by payment method come to the orders and refunds that have one.
LEMMA MethodsAgree ==
  ASSUME AllValued(db), NEW f
  PROVE  /\ Total(PaymentMethods(f), "orders_created")
              = Cardinality({r \in OrdersCreated(f) : r.method # Null})
         /\ Total(PaymentMethods(f), "orders_paid")
              = Cardinality({r \in OrdersPaid(f) : r.method # Null})
         /\ \A c \in DOMAIN Overview(f).money :
              /\ TotalMoney(PaymentMethods(f), c, "refunds") = Overview(f).money[c].refunds
              /\ TotalMoney(PaymentMethods(f), c, "gross") <= Overview(f).money[c].gross
<1> DEFINE rows == PaymentMethods(f)
           C == WithMethod(OrdersCreated(f))
           P == WithMethod(OrdersPaid(f))
           O == OrdersPaid(f)
           S == ManualSales(f)
           R == AttributedRefunds(f)
           kC == MethodOf(C)
           kP == MethodOf(P)
           kR == MethodOf(R)
           N == {}
           kN == [r \in N |-> r]
           M == [k \in DOMAIN rows |-> rows[k].money]
           money == Overview(f).money
<1>1. /\ IsFiniteSet(DOMAIN rows)
      /\ kC \in [C -> DOMAIN rows] /\ kP \in [P -> DOMAIN rows] /\ kR \in [R -> DOMAIN rows]
  BY MethodsThere
<1>2. \A x \in DOMAIN rows :
        /\ rows[x].orders_created = Cardinality(Group(C, kC, x))
        /\ rows[x].orders_paid = Cardinality(Group(P, kP, x))
        /\ rows[x].money = Breakdown(Buckets(Group(P, kP, x), {}, Group(R, kR, x)))
  BY RowOfMethod
<1>3. C = {r \in OrdersCreated(f) : r.method # Null} /\ P = {r \in O : r.method # Null}
  BY DEF WithMethod
<1>4. Charged(O) /\ Charged(S) /\ Charged(R) /\ money = Breakdown(Buckets(O, S, R))
  BY PaidMoney
<1>5. IsFiniteSet(C)
  BY <1>3, TimesOf, FS_Subset DEF OrdersCreated, Tables
<1>6. kN \in [N -> DOMAIN rows] /\ \A x : Group(N, kN, x) = {}
  BY DEF Group
<1> HIDE DEF kN
<1>7. MoneyOf(M, DOMAIN rows, P, kP, N, kN, R, kR) /\ \A k \in DOMAIN rows : rows[k].money = M[k]
  BY <1>2, <1>6 DEF MoneyOf
<1> HIDE DEF rows, C, P, O, S, R, N, kC, kP, kR, M, money
<1>8. P \subseteq O /\ Charged(P) /\ Charged(N) /\ IsFiniteSet(P)
  <2>1. P \subseteq O
    BY <1>3
  <2>2. Charged(N)
    BY FS_EmptySet DEF Charged, N
  <2>3. Charged(P)
    BY <1>4, <2>1, ChargedPart
  <2> QED BY <2>1, <2>2, <2>3 DEF Charged
<1>9. Total(rows, "orders_created") = Cardinality(C)
  <2>1. \A x \in DOMAIN rows : rows[x]["orders_created"] = Cardinality(Group(C, kC, x))
    BY <1>2
  <2> QED BY <1>1, <1>5, <2>1, TotalCounts
<1>10. Total(rows, "orders_paid") = Cardinality(P)
  <2>1. \A x \in DOMAIN rows : rows[x]["orders_paid"] = Cardinality(Group(P, kP, x))
    BY <1>2
  <2> QED BY <1>1, <1>8, <2>1, TotalCounts
<1>11. ASSUME NEW c \in DOMAIN money
       PROVE  /\ TotalMoney(rows, c, "refunds") = money[c].refunds
              /\ TotalMoney(rows, c, "gross") <= money[c].gross
  <2>1. c # Null
    BY <1>4, <1>11, CoinsNamed
  <2>2. \A a \in Amounts : TotalMoney(rows, c, a) = Figure(Breakdown(Buckets(P, N, R)), c, a)
    BY <1>1, <1>4, <1>6, <1>7, <1>8, <2>1, TotalWorth
  <2>3. /\ Figure(Breakdown(Buckets(P, N, R)), c, "gross") = Worth(P, c) + Worth(N, c)
        /\ Figure(Breakdown(Buckets(P, N, R)), c, "refunds") = Worth(R, c)
    BY <1>4, <1>8, <2>1, BreakdownFigures
  <2>4. /\ Figure(Breakdown(Buckets(O, S, R)), c, "gross") = Worth(O, c) + Worth(S, c)
        /\ Figure(Breakdown(Buckets(O, S, R)), c, "refunds") = Worth(R, c)
    BY <1>4, <2>1, BreakdownFigures
  <2>5. /\ Worth(P, c) \in Int /\ Worth(O, c) \in Int /\ Worth(P, c) <= Worth(O, c)
    BY <1>4, <1>8, <2>1, WorthWithin
  <2>6. /\ Worth(N, c) \in Int /\ Worth(S, c) \in Int /\ Worth(N, c) <= Worth(S, c)
    <3>1. N \subseteq S
      BY DEF N
    <3> QED BY <1>4, <2>1, <3>1, WorthWithin
  <2>7. money[c].gross = Figure(money, c, "gross") /\ money[c].refunds = Figure(money, c, "refunds")
    BY <1>11 DEF Figure
  <2>8. /\ TotalMoney(rows, c, "refunds") = Worth(R, c)
        /\ TotalMoney(rows, c, "gross") = Worth(P, c) + Worth(N, c)
    BY <2>2, <2>3 DEF Amounts
  <2>9. money[c].gross = Worth(O, c) + Worth(S, c) /\ money[c].refunds = Worth(R, c)
    BY <1>4, <2>4, <2>7
  <2> QED BY <2>5, <2>6, <2>8, <2>9
<1> QED BY <1>3, <1>9, <1>10, <1>11 DEF rows, money, O

\* The visitors' rows with a contact channel, and their channels; those of leads.
IntentRows(f) == {i \in Via(FactRows(db.intents, f), f) : Live(i)}
ChannelOf(T) == [r \in T |-> r.channel]
LeadChannelOf(T) == [r \in T |-> LeadChannel(r)]

\* The report, of statements that all read the same tables.
Channels(f) == ContactChannels([i \in ChannelStatements |-> ChannelStatement(i, f)], f)

\* What each statement counts.
LEMMA StatementCounts ==
  ASSUME NEW f
  PROVE  /\ \A k : Of(ChannelStatement(1, f), k)
                      = Cardinality(Group(IntentRows(f), ChannelOf(IntentRows(f)), k))
         /\ \A k : Of(ChannelStatement(2, f), k)
                      = Cardinality(Group(ContactRows(f), ChannelOf(ContactRows(f)), k))
         /\ \A k : Of(ChannelStatement(4, f), k)
                      = Cardinality(Group(LeadsVia(f), ChannelOf(LeadsVia(f)), k))
         /\ \A k : Of(ChannelStatement(5, f), k)
                      = Cardinality(Group(OrdersVia(f), LeadChannelOf(OrdersVia(f)), k))
         /\ \A k : Of(ChannelStatement(6, f), k)
                      = Cardinality(Group(SalesVia(f), LeadChannelOf(SalesVia(f)), k))
<1>1. ASSUME NEW k
      PROVE  Of(ChannelStatement(1, f), k)
               = Cardinality(Group(IntentRows(f), ChannelOf(IntentRows(f)), k))
  <2>1. ChannelStatement(1, f)
          = [x \in {r.channel : r \in IntentRows(f)} |->
               Cardinality({r \in IntentRows(f) : r.channel = x})]
    BY DEF ChannelStatement, IntentsVia, Tally, IntentRows
  <2>2. Group(IntentRows(f), ChannelOf(IntentRows(f)), k) = {r \in IntentRows(f) : r.channel = k}
    BY Zenon DEF Group, ChannelOf
  <2> QED BY <2>1, <2>2, FS_EmptySet DEF Of
<1>2. ASSUME NEW k
      PROVE  Of(ChannelStatement(2, f), k)
               = Cardinality(Group(ContactRows(f), ChannelOf(ContactRows(f)), k))
  <2>1. ChannelStatement(2, f)
          = [x \in {r.channel : r \in ContactRows(f)} |->
               Cardinality({r \in ContactRows(f) : r.channel = x})]
    BY DEF ChannelStatement, ContactsVia, Tally
  <2>2. Group(ContactRows(f), ChannelOf(ContactRows(f)), k) = {r \in ContactRows(f) : r.channel = k}
    BY Zenon DEF Group, ChannelOf
  <2> QED BY <2>1, <2>2, FS_EmptySet DEF Of
<1>3. ASSUME NEW k
      PROVE  Of(ChannelStatement(4, f), k)
               = Cardinality(Group(LeadsVia(f), ChannelOf(LeadsVia(f)), k))
  <2>1. ChannelStatement(4, f)
          = [x \in {r.channel : r \in LeadsVia(f)} |->
               Cardinality({r \in LeadsVia(f) : r.channel = x})]
    BY DEF ChannelStatement, Tally
  <2>2. Group(LeadsVia(f), ChannelOf(LeadsVia(f)), k) = {r \in LeadsVia(f) : r.channel = k}
    BY Zenon DEF Group, ChannelOf
  <2> QED BY <2>1, <2>2, FS_EmptySet DEF Of
<1>4. ASSUME NEW k
      PROVE  Of(ChannelStatement(5, f), k)
               = Cardinality(Group(OrdersVia(f), LeadChannelOf(OrdersVia(f)), k))
  <2>1. ChannelStatement(5, f)
          = [x \in {LeadChannel(r) : r \in OrdersVia(f)} |->
               Cardinality({r \in OrdersVia(f) : LeadChannel(r) = x})]
    BY DEF ChannelStatement, Tally
  <2>2. Group(OrdersVia(f), LeadChannelOf(OrdersVia(f)), k)
           = {r \in OrdersVia(f) : LeadChannel(r) = k}
    BY Zenon DEF Group, LeadChannelOf
  <2> QED BY <2>1, <2>2, FS_EmptySet DEF Of
<1>5. ASSUME NEW k
      PROVE  Of(ChannelStatement(6, f), k)
               = Cardinality(Group(SalesVia(f), LeadChannelOf(SalesVia(f)), k))
  <2>1. ChannelStatement(6, f)
          = [x \in {LeadChannel(r) : r \in SalesVia(f)} |->
               Cardinality({r \in SalesVia(f) : LeadChannel(r) = x})]
    BY DEF ChannelStatement, Tally
  <2>2. Group(SalesVia(f), LeadChannelOf(SalesVia(f)), k) = {r \in SalesVia(f) : LeadChannel(r) = k}
    BY Zenon DEF Group, LeadChannelOf
  <2> QED BY <2>1, <2>2, FS_EmptySet DEF Of
<1> QED BY <1>1, <1>2, <1>3, <1>4, <1>5

\* The channels that statements tell: finitely many, each with a row.
LEMMA ChannelsThere ==
  ASSUME AllValued(db), NEW f
  PROVE  /\ IsFiniteSet(DOMAIN Channels(f))
         /\ ChannelOf(IntentRows(f)) \in [IntentRows(f) -> DOMAIN Channels(f)]
         /\ ChannelOf(ContactRows(f)) \in [ContactRows(f) -> DOMAIN Channels(f)]
         /\ ChannelOf(LeadsVia(f)) \in [LeadsVia(f) -> DOMAIN Channels(f)]
         /\ LeadChannelOf(OrdersVia(f)) \in [OrdersVia(f) -> DOMAIN Channels(f)]
         /\ LeadChannelOf(SalesVia(f)) \in [SalesVia(f) -> DOMAIN Channels(f)]
         /\ IsFiniteSet(IntentRows(f)) /\ IsFiniteSet(ContactRows(f)) /\ IsFiniteSet(LeadsVia(f))
         /\ IsFiniteSet(OrdersVia(f)) /\ IsFiniteSet(SalesVia(f))
<1> DEFINE A == IntentRows(f) \cup ContactRows(f) \cup LeadsVia(f) \cup ConvertingLeads(f)
           B == OrdersVia(f) \cup SalesVia(f)
           R == RefundsVia(f)
           kA == {r.channel : r \in A}
           kB == {LeadChannel(r) : r \in B}
           kR == {LeadChannel(OrderOf(r)) : r \in R}
           K == DOMAIN Channels(f)
<1>1. \A S, T : S \subseteq T /\ IsFiniteSet(T) => IsFiniteSet(S)
  BY FS_Subset
<1>2. /\ IntentRows(f) \subseteq db["intents"] /\ ContactRows(f) \subseteq db["contacts"]
      /\ LeadsVia(f) \subseteq db["leads"] /\ ConvertingLeads(f) \subseteq db["leads"]
      /\ OrdersVia(f) \subseteq db["orders"] /\ SalesVia(f) \subseteq db["sales"]
      /\ R \subseteq db["refunds"]
  BY DEF IntentRows, Via, FactRows, ContactRows, LeadsVia, LeadRows, ConvertingLeads, OrdersVia,
         OrdersPaid, SalesVia, ManualSales, InCurrency, RefundsVia, AttributedRefunds, Refunds
<1>3. /\ IsFiniteSet(db["intents"]) /\ IsFiniteSet(db["contacts"]) /\ IsFiniteSet(db["leads"])
      /\ IsFiniteSet(db["orders"]) /\ IsFiniteSet(db["sales"]) /\ IsFiniteSet(db["refunds"])
  BY TimesOf DEF Tables
<1>4. /\ IsFiniteSet(IntentRows(f)) /\ IsFiniteSet(ContactRows(f)) /\ IsFiniteSet(LeadsVia(f))
      /\ IsFiniteSet(OrdersVia(f)) /\ IsFiniteSet(SalesVia(f))
      /\ IsFiniteSet(ConvertingLeads(f)) /\ IsFiniteSet(R)
  BY <1>1, <1>2, <1>3
<1>5. IsFiniteSet(A) /\ IsFiniteSet(B)
  BY <1>4, FS_Union
<1>6. /\ ChannelOf(A) \in Surjection(A, kA) /\ LeadChannelOf(B) \in Surjection(B, kB)
      /\ [r \in R |-> LeadChannel(OrderOf(r))] \in Surjection(R, kR)
  BY DEF Surjection, ChannelOf, LeadChannelOf
<1>7. K = UNION {DOMAIN ChannelStatement(i, f) : i \in ChannelStatements}
  <2> DEFINE part == [i \in ChannelStatements |-> ChannelStatement(i, f)]
  <2>1. K = UNION {DOMAIN part[i] : i \in ChannelStatements}
    BY DEF Channels, ContactChannels
  <2> QED BY <2>1
<1>8. \A i : i \in ChannelStatements <=> i \in {1, 2, 3, 4, 5, 6, 7, 8}
  BY DEF ChannelStatements
<1>9. /\ DOMAIN ChannelStatement(1, f) = {r.channel : r \in IntentRows(f)}
      /\ DOMAIN ChannelStatement(2, f) = {r.channel : r \in ContactRows(f)}
      /\ DOMAIN ChannelStatement(4, f) = {r.channel : r \in LeadsVia(f)}
  BY DEF ChannelStatement, IntentsVia, ContactsVia, Tally, IntentRows
<1>10. DOMAIN ChannelStatement(3, f) = {r.channel : r \in ContactRows(f)}
  <2>1. DOMAIN ChannelStatement(3, f)
           = {p[1] : p \in {<<c.channel, c.lead>> : c \in ContactRows(f)}}
    BY DEF ChannelStatement, LeadsFromContacts, Tally
  <2> DEFINE pair(c) == <<c.channel, c.lead>>
             P == {pair(c) : c \in ContactRows(f)}
  <2>2. \A c : pair(c)[1] = c.channel
    OBVIOUS
  <2> HIDE DEF pair
  <2>3. {p[1] : p \in P} = {pair(c)[1] : c \in ContactRows(f)}
    BY Zenon
  <2>4. {pair(c)[1] : c \in ContactRows(f)} = {c.channel : c \in ContactRows(f)}
    BY <2>2
  <2> QED BY <2>1, <2>3, <2>4 DEF pair
<1>11. /\ DOMAIN ChannelStatement(5, f) = {LeadChannel(r) : r \in OrdersVia(f)}
       /\ DOMAIN ChannelStatement(6, f) = {LeadChannel(r) : r \in SalesVia(f)}
  BY DEF ChannelStatement, Tally
<1>12. DOMAIN ChannelStatement(7, f) = {r.channel : r \in ConvertingLeads(f)}
  BY DEF ChannelStatement, Tally
<1>13. DOMAIN ChannelStatement(8, f) = kR
  BY DEF ChannelStatement, Tally
<1>14. \A k : k \in K <=> k \in kA \cup kB \cup kR
  <2>1. \A k : k \in K <=> \E i \in {1, 2, 3, 4, 5, 6, 7, 8} : k \in DOMAIN ChannelStatement(i, f)
    BY <1>7, <1>8
  <2> HIDE DEF K, kR
  <2> QED BY <1>9, <1>10, <1>11, <1>12, <1>13, <2>1
<1>15. /\ \A r \in A : r.channel \in kA
       /\ \A r \in B : LeadChannel(r) \in kB
  OBVIOUS
<1>16. /\ \A r \in IntentRows(f) : r.channel \in K
       /\ \A r \in ContactRows(f) : r.channel \in K
       /\ \A r \in LeadsVia(f) : r.channel \in K
       /\ \A r \in OrdersVia(f) : LeadChannel(r) \in K
       /\ \A r \in SalesVia(f) : LeadChannel(r) \in K
  <2> HIDE DEF K, kA, kB, kR
  <2> QED BY <1>14, <1>15
<1> HIDE DEF A, B, R, kA, kB, kR, K
<1>17. IsFiniteSet(kA) /\ IsFiniteSet(kB) /\ IsFiniteSet(kR)
  BY <1>4, <1>5, <1>6, FS_Surjection
<1>18. IsFiniteSet(kA \cup kB \cup kR)
  BY <1>17, FS_Union
<1>19. IsFiniteSet(K)
  <2>1. K = kA \cup kB \cup kR
    BY <1>14
  <2> QED BY <1>18, <2>1
<1> QED BY <1>4, <1>16, <1>19 DEF K, ChannelOf, LeadChannelOf

\* What a channel's row holds.
LEMMA RowOfChannel ==
  ASSUME NEW f
  PROVE  \A k \in DOMAIN Channels(f) :
           /\ Channels(f)[k].intents
                 = Cardinality(Group(IntentRows(f), ChannelOf(IntentRows(f)), k))
           /\ Channels(f)[k].contacts
                 = Cardinality(Group(ContactRows(f), ChannelOf(ContactRows(f)), k))
           /\ Channels(f)[k].leads = Cardinality(Group(LeadsVia(f), ChannelOf(LeadsVia(f)), k))
           /\ Channels(f)[k].orders_paid
                 = Cardinality(Group(OrdersVia(f), LeadChannelOf(OrdersVia(f)), k))
           /\ Channels(f)[k].manual_sales
                 = Cardinality(Group(SalesVia(f), LeadChannelOf(SalesVia(f)), k))
<1> DEFINE part == [i \in ChannelStatements |-> ChannelStatement(i, f)]
           money(k) == Breakdown(Buckets(
             {o \in OrdersVia(f) : LeadChannel(o) = k},
             {s \in SalesVia(f) : LeadChannel(s) = k},
             {r \in RefundsVia(f) : LeadChannel(OrderOf(r)) = k}))
           row(k) == [intents |-> Of(part[1], k), contacts |-> Of(part[2], k),
                      leads |-> Of(part[4], k), orders_paid |-> Of(part[5], k),
                      manual_sales |-> Of(part[6], k), money |-> money(k),
                      contact_to_lead |-> Rate(Of(part[3], k), Of(part[2], k)),
                      lead_to_paid_sale |-> Rate(Of(part[7], k), Of(part[4], k))]
           keys == UNION {DOMAIN part[i] : i \in ChannelStatements}
<1>1. Channels(f) = [k \in keys |-> row(k)]
  BY Zenon DEF Channels, ContactChannels
<1>2. /\ part[1] = ChannelStatement(1, f) /\ part[2] = ChannelStatement(2, f)
      /\ part[4] = ChannelStatement(4, f) /\ part[5] = ChannelStatement(5, f)
      /\ part[6] = ChannelStatement(6, f)
  BY DEF ChannelStatements
<1> HIDE DEF part, money, keys
<1>3. \A k : /\ row(k).intents = Of(part[1], k) /\ row(k).contacts = Of(part[2], k)
             /\ row(k).leads = Of(part[4], k) /\ row(k).orders_paid = Of(part[5], k)
             /\ row(k).manual_sales = Of(part[6], k)
  OBVIOUS
<1> HIDE DEF row
<1>4. ASSUME NEW k \in DOMAIN Channels(f)
      PROVE  /\ Channels(f)[k].intents = Of(part[1], k) /\ Channels(f)[k].contacts = Of(part[2], k)
             /\ Channels(f)[k].leads = Of(part[4], k) /\ Channels(f)[k].orders_paid = Of(part[5], k)
             /\ Channels(f)[k].manual_sales = Of(part[6], k)
  BY <1>1, <1>3
<1> QED BY <1>2, <1>4, StatementCounts

\* The rows by contact channel come to the leads, contacts and sales that have one.
LEMMA ChannelsAgree ==
  ASSUME AllValued(db), NEW f
  PROVE  /\ Total(Channels(f), "leads") = Cardinality({l \in LeadRows(f) : l.channel # Null})
         /\ Total(Channels(f), "contacts") = Overview(f).contacts
         /\ Total(Channels(f), "orders_paid")
              = Cardinality({r \in LeadLinked(OrdersPaid(f), f) : LeadChannel(r) # Null})
         /\ Total(Channels(f), "manual_sales")
              = Cardinality({r \in LeadLinked(ManualSales(f), f) : LeadChannel(r) # Null})
         /\ Total(Channels(f), "intents") = Cardinality(IntentRows(f))
         /\ Total(Channels(f), "orders_paid") + Total(Channels(f), "manual_sales")
              <= LeadSales(f)
<1> DEFINE rows == Channels(f)
           I == IntentRows(f)
           C == ContactRows(f)
           L == LeadsVia(f)
           O == OrdersVia(f)
           S == SalesVia(f)
           LO == LeadLinked(OrdersPaid(f), f)
           LS == LeadLinked(ManualSales(f), f)
<1>1. /\ IsFiniteSet(DOMAIN rows)
      /\ ChannelOf(I) \in [I -> DOMAIN rows] /\ ChannelOf(C) \in [C -> DOMAIN rows]
      /\ ChannelOf(L) \in [L -> DOMAIN rows] /\ LeadChannelOf(O) \in [O -> DOMAIN rows]
      /\ LeadChannelOf(S) \in [S -> DOMAIN rows]
      /\ IsFiniteSet(I) /\ IsFiniteSet(C) /\ IsFiniteSet(L) /\ IsFiniteSet(O) /\ IsFiniteSet(S)
  BY ChannelsThere
<1>2. /\ \A x \in DOMAIN rows : rows[x]["intents"] = Cardinality(Group(I, ChannelOf(I), x))
      /\ \A x \in DOMAIN rows : rows[x]["contacts"] = Cardinality(Group(C, ChannelOf(C), x))
      /\ \A x \in DOMAIN rows : rows[x]["leads"] = Cardinality(Group(L, ChannelOf(L), x))
      /\ \A x \in DOMAIN rows : rows[x]["orders_paid"] = Cardinality(Group(O, LeadChannelOf(O), x))
      /\ \A x \in DOMAIN rows : rows[x]["manual_sales"] = Cardinality(Group(S, LeadChannelOf(S), x))
  BY RowOfChannel
<1>3. Overview(f).contacts = Cardinality(C)
  BY OverviewFigures
<1>4. L = {l \in LeadRows(f) : l.channel # Null}
  BY DEF LeadsVia
<1>5. O = {r \in LO : LeadChannel(r) # Null} /\ S = {r \in LS : LeadChannel(r) # Null}
  <2>1. InCurrency(OrdersPaid(f)) = OrdersPaid(f) /\ InCurrency(ManualSales(f)) = ManualSales(f)
    BY PaidInCurrency
  <2>2. \A r : HasLeadChannel(r, f) <=> r.lead # Null /\ OfChannel(r, f) /\ LeadChannel(r) # Null
    BY DEF HasLeadChannel, OfChannel, Selects
  <2> QED BY <2>1, <2>2, Zenon DEF OrdersVia, SalesVia, LeadLinked
<1>6. LeadSales(f) = Cardinality(LO) + Cardinality(LS)
  BY DEF LeadSales
<1>7. IsFiniteSet(LO) /\ IsFiniteSet(LS)
  BY TimesOf, FS_Subset DEF LeadLinked, OrdersPaid, ManualSales, Tables
<1> HIDE DEF rows, I, C, L, O, S, LO, LS
<1>8. Total(rows, "intents") = Cardinality(I)
  BY <1>1, <1>2, TotalCounts
<1>9. Total(rows, "contacts") = Cardinality(C)
  BY <1>1, <1>2, TotalCounts
<1>10. Total(rows, "leads") = Cardinality(L)
  BY <1>1, <1>2, TotalCounts
<1>11. Total(rows, "orders_paid") = Cardinality(O)
  BY <1>1, <1>2, TotalCounts
<1>12. Total(rows, "manual_sales") = Cardinality(S)
  BY <1>1, <1>2, TotalCounts
<1>13. /\ Cardinality(O) \in Nat /\ Cardinality(LO) \in Nat /\ Cardinality(O) <= Cardinality(LO)
       /\ Cardinality(S) \in Nat /\ Cardinality(LS) \in Nat /\ Cardinality(S) <= Cardinality(LS)
  BY <1>1, <1>5, <1>7, FS_Subset, FS_CardinalityType
<1>14. Cardinality(O) + Cardinality(S) <= Cardinality(LO) + Cardinality(LS)
  BY <1>13
<1> QED BY <1>3, <1>4, <1>5, <1>6, <1>8, <1>9, <1>10, <1>11, <1>12, <1>14 DEF rows, I, LO, LS

\* The views and carts of visitors that came, with their products; the paid lines.
LiveViews(f) == {v \in OfSku(FactRows(db.views, f), f) : Live(v)}
LiveCarts(f) == {c \in OfSku(FactRows(db.carts, f), f) : Live(c)}
PaidLines(f) == LinesOf(OrdersPaid(f), TRUE, f)
SkuOf(T) == [r \in T |-> r.sku]

\* What a product's row holds.
LEMMA RowOfProduct ==
  ASSUME NEW f
  PROVE  /\ DOMAIN Products(f)
              = {r.sku : r \in LiveViews(f) \cup LiveCarts(f)}
                \cup {l.sku : l \in LinesOf(OrdersCreated(f), FALSE, f) \cup PaidLines(f)
                                    \cup RefundLines(f)}
         /\ \A s \in DOMAIN Products(f) :
              /\ Products(f)[s].views = Cardinality(Group(LiveViews(f), SkuOf(LiveViews(f)), s))
              /\ Products(f)[s].cart_adds
                   = Cardinality(Group(LiveCarts(f), SkuOf(LiveCarts(f)), s))
              /\ Products(f)[s].orders_paid
                   = Cardinality({l.order : l \in {r \in PaidLines(f) : r.sku = s}})
<1> DEFINE views == {v \in OfSku(FactRows(db.views, f), f) : Live(v)}
           carts == {c \in OfSku(FactRows(db.carts, f), f) : Live(c)}
           created == LinesOf(OrdersCreated(f), FALSE, f)
           paid == LinesOf(OrdersPaid(f), TRUE, f)
           refunded == RefundLines(f)
           at(S, s) == {r \in S : r.sku = s}
           orders(S, s) == {l.order : l \in at(S, s)}
           total(l) == [amount |-> l.total] @@ l
           ids(s) == orders(paid, s)
           buckets(s) == Buckets(
              {total(l) @@ [currency |-> Row(db.orders, l.order).currency] :
                 l \in at(paid, s)}, {},
              {total(l) @@ [currency |-> Row(db.refunds, l.refund).currency] :
                 l \in at(refunded, s)})
           sold(s, c) == {i \in ids(s) : Row(db.orders, i).currency = c}
           row(s) == [views |-> Cardinality(at(views, s)),
              cart_adds |-> Cardinality(at(carts, s)),
              orders_created |-> Cardinality(orders(created, s)),
              orders_paid |-> Cardinality(ids(s)),
              paid_quantity |-> SumFunction([l \in at(paid, s) |-> l.quantity]),
              money |-> Breakdown([c \in DOMAIN buckets(s) |->
                          [buckets(s)[c] EXCEPT !.count = Cardinality(sold(s, c))]]),
              view_to_paid_order |-> Rate(Cardinality(ids(s)), Cardinality(at(views, s))),
              payment_methods |-> {Row(db.orders, i).method : i \in ids(s)} \ {Null}]
           keys == {r.sku : r \in views \cup carts}
                     \cup {l.sku : l \in created \cup paid \cup refunded}
<1>1. Products(f) = [s \in keys |-> row(s)]
  BY Zenon DEF Products
<1>2. /\ views = LiveViews(f) /\ carts = LiveCarts(f) /\ paid = PaidLines(f)
      /\ keys = {r.sku : r \in LiveViews(f) \cup LiveCarts(f)}
                  \cup {l.sku : l \in LinesOf(OrdersCreated(f), FALSE, f) \cup PaidLines(f)
                                      \cup RefundLines(f)}
  BY Zenon DEF LiveViews, LiveCarts, PaidLines
<1>3. \A S, s : at(S, s) = Group(S, SkuOf(S), s)
  BY Zenon DEF Group, SkuOf
<1>4. \A s : ids(s) = {l.order : l \in {r \in paid : r.sku = s}}
  OBVIOUS
<1> HIDE DEF keys, views, carts, paid, created, refunded, at, orders, ids, buckets, sold, total
<1>5. \A s : /\ row(s).views = Cardinality(at(views, s))
             /\ row(s).cart_adds = Cardinality(at(carts, s))
             /\ row(s).orders_paid = Cardinality(ids(s))
  OBVIOUS
<1> HIDE DEF row
<1>6. DOMAIN Products(f) = keys
  BY <1>1
<1>7. ASSUME NEW s \in DOMAIN Products(f)
      PROVE  /\ Products(f)[s].views = Cardinality(at(views, s))
             /\ Products(f)[s].cart_adds = Cardinality(at(carts, s))
             /\ Products(f)[s].orders_paid = Cardinality(ids(s))
  BY <1>1, <1>5
<1> QED BY <1>2, <1>3, <1>4, <1>6, <1>7

\* Every product of a view or cart has a row; they are finitely many.
LEMMA ProductsThere ==
  ASSUME AllValued(db), NEW f
  PROVE  /\ IsFiniteSet(DOMAIN Products(f))
         /\ IsFiniteSet(LiveViews(f)) /\ IsFiniteSet(LiveCarts(f))
         /\ SkuOf(LiveViews(f)) \in [LiveViews(f) -> DOMAIN Products(f)]
         /\ SkuOf(LiveCarts(f)) \in [LiveCarts(f) -> DOMAIN Products(f)]
<1> DEFINE V == LiveViews(f)
           C == LiveCarts(f)
           A == LinesOf(OrdersCreated(f), FALSE, f)
           P == PaidLines(f)
           R == RefundLines(f)
           T == V \cup C \cup A \cup P \cup R
           K == DOMAIN Products(f)
<1>1. K = {r.sku : r \in V \cup C} \cup {l.sku : l \in A \cup P \cup R}
  BY RowOfProduct
<1>2. /\ V \subseteq db["views"] /\ C \subseteq db["carts"] /\ A \subseteq db["lines"]
      /\ P \subseteq db["lines"] /\ R \subseteq db["refundLines"]
  BY DEF LiveViews, LiveCarts, PaidLines, LinesOf, RefundLines, OfSku, FactRows
<1>3. /\ IsFiniteSet(db["views"]) /\ IsFiniteSet(db["carts"]) /\ IsFiniteSet(db["lines"])
      /\ IsFiniteSet(db["refundLines"])
  BY TimesOf DEF Tables
<1> HIDE DEF V, C, A, P, R, K
<1>4. IsFiniteSet(V) /\ IsFiniteSet(C) /\ IsFiniteSet(A) /\ IsFiniteSet(P) /\ IsFiniteSet(R)
  BY <1>2, <1>3, FS_Subset
<1>5. IsFiniteSet(T)
  BY <1>4, FS_Union
<1>6. \A k : k \in K <=> k \in {r.sku : r \in T}
  BY <1>1
<1>7. SkuOf(T) \in Surjection(T, {r.sku : r \in T})
  BY DEF Surjection, SkuOf
<1>8. /\ \A r \in V : r.sku \in K
      /\ \A r \in C : r.sku \in K
  BY <1>6
<1> HIDE DEF T
<1>9. IsFiniteSet({r.sku : r \in T})
  BY <1>5, <1>7, FS_Surjection
<1>10. K = {r.sku : r \in T}
  BY <1>6
<1>11. IsFiniteSet(K)
  BY <1>9, <1>10
<1> QED BY <1>4, <1>8, <1>11 DEF K, V, C, SkuOf

\* The rows by product count the views and carts of visitors that came, and each
\* no more orders than there are.
LEMMA ProductsAgree ==
  ASSUME AllValued(db), NEW f
  PROVE  /\ Total(Products(f), "views") = Cardinality(LiveViews(f))
         /\ Total(Products(f), "cart_adds") = Cardinality(LiveCarts(f))
         /\ Cardinality(LiveViews(f)) <= Overview(f).product_views
         /\ (\A r \in db.views \cup db.carts : Live(r)) =>
              /\ Cardinality(LiveViews(f)) = Overview(f).product_views
              /\ Cardinality(LiveCarts(f)) = Overview(f).cart_adds
         /\ \A s \in DOMAIN Products(f) : Products(f)[s].orders_paid <= Overview(f).orders_paid
<1> DEFINE rows == Products(f)
           V == LiveViews(f)
           C == LiveCarts(f)
           W == OfSku(FactRows(db.views, f), f)
           B == OfSku(FactRows(db.carts, f), f)
           O == OrdersPaid(f)
           P == PaidLines(f)
           allLive == \A r \in db.views \cup db.carts : Live(r)
<1>1. /\ IsFiniteSet(DOMAIN rows) /\ IsFiniteSet(V) /\ IsFiniteSet(C)
      /\ SkuOf(V) \in [V -> DOMAIN rows] /\ SkuOf(C) \in [C -> DOMAIN rows]
  BY ProductsThere
<1>2. /\ \A x \in DOMAIN rows : rows[x]["views"] = Cardinality(Group(V, SkuOf(V), x))
      /\ \A x \in DOMAIN rows : rows[x]["cart_adds"] = Cardinality(Group(C, SkuOf(C), x))
      /\ \A x \in DOMAIN rows :
           rows[x].orders_paid = Cardinality({l.order : l \in {r \in P : r.sku = x}})
  BY RowOfProduct
<1>3. /\ Overview(f).product_views = Cardinality(W) /\ Overview(f).cart_adds = Cardinality(B)
      /\ Overview(f).orders_paid = Cardinality(O)
  BY OverviewFigures
<1>4. /\ V \subseteq W /\ W \subseteq db.views /\ B \subseteq db.carts
      /\ V = {v \in W : Live(v)} /\ C = {c \in B : Live(c)}
  BY DEF LiveViews, LiveCarts, OfSku, FactRows
<1>5. IsFiniteSet(W) /\ IsFiniteSet(O)
  BY TimesOf, FS_Subset DEF OfSku, FactRows, OrdersPaid, Tables
<1>6. \A l \in P : \E o \in O : o.id = l.order
  BY DEF PaidLines, LinesOf
<1>7. allLive => V = W /\ C = B
  BY <1>4
<1> HIDE DEF rows, V, C, W, B, O, P, allLive
<1>8. Total(rows, "views") = Cardinality(V)
  BY <1>1, <1>2, TotalCounts
<1>9. Total(rows, "cart_adds") = Cardinality(C)
  BY <1>1, <1>2, TotalCounts
<1>10. Cardinality(V) <= Cardinality(W)
  BY <1>4, <1>5, FS_Subset
<1>11. ASSUME NEW x \in DOMAIN rows PROVE rows[x].orders_paid <= Cardinality(O)
  <2> DEFINE idOf == [o \in O |-> o.id]
             ids == {l.order : l \in {r \in P : r.sku = x}}
  <2>1. ids \subseteq {idOf[o] : o \in O}
    BY <1>6
  <2>2. rows[x].orders_paid = Cardinality(ids)
    BY <1>2
  <2> HIDE DEF idOf, ids
  <2>3. Cardinality(ids) <= Cardinality(O)
    BY <1>5, <2>1, ValuesCounted
  <2> QED BY <2>2, <2>3
<1> QED BY <1>3, <1>7, <1>8, <1>9, <1>10, <1>11 DEF rows, V, C, allLive

\* The visitors of rows are no more than the rows of visitors that came.
LEMMA VisitorsCounted ==
  ASSUME NEW rows, NEW f, IsFiniteSet(FactRows(rows, f))
  PROVE  Cardinality(FactVisitors(rows, f)) <= Cardinality({r \in FactRows(rows, f) : Live(r)})
<1> DEFINE S == {x \in FactRows(rows, f) : Live(x)}
           val == [r \in S |-> r.visitor]
           V == FactVisitors(rows, f)
<1>1. V \subseteq {val[r] : r \in S}
  BY DEF FactVisitors
<1>2. IsFiniteSet(S)
  BY FS_Subset
<1> HIDE DEF S, val, V
<1>3. Cardinality(V) <= Cardinality(S)
  BY <1>1, <1>2, ValuesCounted
<1> QED BY <1>3 DEF V, S

\* What the steps of the funnel count.
LEMMA FunnelCounts ==
  ASSUME NEW f
  PROVE  /\ Funnel(f).ecommerce[2].count = Cardinality(FactVisitors(OfSku(db.views, f), f))
         /\ Funnel(f).ecommerce[3].count = Cardinality(FactVisitors(OfSku(db.carts, f), f))
         /\ Funnel(f).ecommerce[4].count = Cardinality(FactVisitors(db.checkouts, f))
         /\ Funnel(f).lead[2].count = Cardinality(FactVisitors(Via(db.intents, f), f))
         /\ Funnel(f).lead[6].count = LeadSales(f)
<1>1. ASSUME NEW a, NEW b, NEW c, NEW d, NEW e, NEW g
      PROVE  /\ Steps(<<a, b, c, d, e, g>>)[2].count = b /\ Steps(<<a, b, c, d, e, g>>)[3].count = c
             /\ Steps(<<a, b, c, d, e, g>>)[4].count = d /\ Steps(<<a, b, c, d, e, g>>)[6].count = g
  <2> DEFINE t == <<a, b, c, d, e, g>>
  <2>1. /\ DOMAIN t = 1 .. 6 /\ t[2] = b /\ t[3] = c /\ t[4] = d /\ t[6] = g
    OBVIOUS
  <2> HIDE DEF t
  <2>2. \A i \in 1 .. 6 : Steps(t)[i].count = t[i]
    BY <2>1 DEF Steps
  <2>3. /\ Steps(t)[2].count = b /\ Steps(t)[3].count = c /\ Steps(t)[4].count = d
        /\ Steps(t)[6].count = g
    BY <2>1, <2>2
  <2> QED BY <2>3 DEF t
<1> DEFINE m == Cardinality(SessionRows(f))
           v == Cardinality(FactVisitors(OfSku(db.views, f), f))
           w == Cardinality(FactVisitors(OfSku(db.carts, f), f))
           x == Cardinality(FactVisitors(db.checkouts, f))
           y == Cardinality(OrdersCreated(f))
           z == Cardinality(OrdersPaid(f))
           i == Cardinality(FactVisitors(Via(db.intents, f), f))
           n == Cardinality(ContactRows(f))
           p == Cardinality(LeadRows(f))
           q == Cardinality(LeadsWon(f))
           s == LeadSales(f)
<1>2. Funnel(f) = [ecommerce |-> Steps(<<m, v, w, x, y, z>>), lead |-> Steps(<<m, i, n, p, q, s>>)]
  BY Zenon DEF Funnel
<1> HIDE DEF m, v, w, x, y, z, i, n, p, q, s
<1>3. /\ Funnel(f).ecommerce = Steps(<<m, v, w, x, y, z>>)
      /\ Funnel(f).lead = Steps(<<m, i, n, p, q, s>>)
  BY <1>2
<1>4. /\ Funnel(f).ecommerce[2].count = v /\ Funnel(f).ecommerce[3].count = w
      /\ Funnel(f).ecommerce[4].count = x
  BY <1>1, <1>3
<1>5. Funnel(f).lead[2].count = i /\ Funnel(f).lead[6].count = s
  BY <1>1, <1>3
<1> QED BY <1>4, <1>5 DEF v, w, x, i, s

\* The visitors of a step are no more than the rows that other reports count.
LEMMA FunnelAgrees ==
  ASSUME AllValued(db), NEW f
  PROVE  /\ Funnel(f).ecommerce[2].count <= Cardinality(LiveViews(f))
         /\ Funnel(f).ecommerce[3].count <= Cardinality(LiveCarts(f))
         /\ Funnel(f).ecommerce[4].count <= Overview(f).checkouts
         /\ Funnel(f).lead[2].count <= Cardinality(IntentRows(f))
         /\ Funnel(f).lead[6].count = LeadSales(f)
<1>1. \A rows, g : /\ FactRows(OfSku(rows, g), g) = OfSku(FactRows(rows, g), g)
                   /\ FactRows(Via(rows, g), g) = Via(FactRows(rows, g), g)
                   /\ FactRows(rows, g) \subseteq rows
                   /\ OfSku(rows, g) \subseteq rows /\ Via(rows, g) \subseteq rows
  BY DEF FactRows, OfSku, Via
<1>2. /\ IsFiniteSet(db["views"]) /\ IsFiniteSet(db["carts"]) /\ IsFiniteSet(db["checkouts"])
      /\ IsFiniteSet(db["intents"])
  BY TimesOf DEF Tables
<1>3. \A S, T : S \subseteq T /\ IsFiniteSet(T) => IsFiniteSet(S)
  BY FS_Subset
<1>4. /\ IsFiniteSet(FactRows(OfSku(db.views, f), f))
      /\ IsFiniteSet(FactRows(OfSku(db.carts, f), f))
      /\ IsFiniteSet(FactRows(db.checkouts, f)) /\ IsFiniteSet(FactRows(Via(db.intents, f), f))
  BY <1>1, <1>2, <1>3
<1>5. Cardinality(FactVisitors(OfSku(db.views, f), f)) <= Cardinality(LiveViews(f))
  BY <1>1, <1>4, VisitorsCounted DEF LiveViews
<1>6. Cardinality(FactVisitors(OfSku(db.carts, f), f)) <= Cardinality(LiveCarts(f))
  BY <1>1, <1>4, VisitorsCounted DEF LiveCarts
<1>7. Cardinality(FactVisitors(Via(db.intents, f), f)) <= Cardinality(IntentRows(f))
  BY <1>1, <1>4, VisitorsCounted DEF IntentRows
<1>8. Cardinality(FactVisitors(db.checkouts, f)) <= Cardinality(FactRows(db.checkouts, f))
  <2> DEFINE S == FactRows(db.checkouts, f)
             T == {r \in S : Live(r)}
             V == FactVisitors(db.checkouts, f)
  <2>1. Cardinality(V) <= Cardinality(T)
    BY <1>4, VisitorsCounted
  <2>2. T \subseteq S /\ IsFiniteSet(S)
    BY <1>4
  <2>3. IsFiniteSet(T) /\ Cardinality(T) <= Cardinality(S)
    BY <2>2, FS_Subset
  <2>4. IsFiniteSet(V)
    <3> DEFINE val == [r \in T |-> r.visitor]
    <3>1. V \subseteq {val[r] : r \in T}
      BY DEF FactVisitors
    <3> HIDE DEF T, V, val
    <3> QED BY <2>3, <3>1, ValuesCounted
  <2>5. Cardinality(V) \in Nat /\ Cardinality(T) \in Nat /\ Cardinality(S) \in Nat
    BY <2>2, <2>3, <2>4, FS_CardinalityType
  <2> HIDE DEF S, T, V
  <2> QED BY <2>1, <2>3, <2>5 DEF V, S
<1>9. Overview(f).checkouts = Cardinality(FactRows(db.checkouts, f))
  BY OverviewFigures
<1> QED BY <1>5, <1>6, <1>7, <1>8, <1>9, FunnelCounts

\* The parts of the overview come to it, in a state of which the invariants hold.
LEMMA ValuedBreaks == AllValued(db) => BreakdownsAgree
<1> SUFFICES ASSUME AllValued(db), NEW f \in Filters
             PROVE
    /\ f.offset = 0 =>
         /\ Total(OverviewDaily(f), "orders_paid") = Overview(f).orders_paid
         /\ Total(OverviewDaily(f), "manual_sales") = Overview(f).manual_sales
         /\ SameMoney(OverviewDaily(f), Overview(f).money, Amounts)
    /\ f.offset # 0 => Total(OverviewDaily(f), "paid_sales")
                         <= Overview(f).orders_paid + Overview(f).manual_sales
    /\ Total(PaymentMethods(f), "orders_created")
         = Cardinality({r \in OrdersCreated(f) : r.method # Null})
    /\ Total(PaymentMethods(f), "orders_paid")
         = Cardinality({r \in OrdersPaid(f) : r.method # Null})
    /\ \A c \in DOMAIN Overview(f).money :
         /\ TotalMoney(PaymentMethods(f), c, "refunds") = Overview(f).money[c].refunds
         /\ TotalMoney(PaymentMethods(f), c, "gross") <= Overview(f).money[c].gross
    /\ Total(Channels(f), "leads") = Cardinality({l \in LeadRows(f) : l.channel # Null})
    /\ Total(Channels(f), "contacts") = Overview(f).contacts
    /\ Total(Channels(f), "orders_paid") + Total(Channels(f), "manual_sales")
         = Cardinality({r \in LeadLinked(OrdersPaid(f), f) : LeadChannel(r) # Null})
           + Cardinality({r \in LeadLinked(ManualSales(f), f) : LeadChannel(r) # Null})
    /\ Total(Products(f), "views") <= Overview(f).product_views
    /\ (\A r \in db.views \cup db.carts : Live(r)) =>
         /\ Total(Products(f), "views") = Overview(f).product_views
         /\ Total(Products(f), "cart_adds") = Overview(f).cart_adds
    /\ \A sku \in DOMAIN Products(f) : Products(f)[sku].orders_paid <= Overview(f).orders_paid
    /\ Funnel(f).ecommerce[2].count <= Total(Products(f), "views")
    /\ Funnel(f).ecommerce[3].count <= Total(Products(f), "cart_adds")
    /\ Funnel(f).ecommerce[4].count <= Overview(f).checkouts
    /\ Funnel(f).lead[2].count <= Total(Channels(f), "intents")
    /\ Total(Channels(f), "orders_paid") + Total(Channels(f), "manual_sales")
         <= Funnel(f).lead[6].count
  BY Zenon DEF BreakdownsAgree, Channels
<1> QED BY DaysAgree, MethodsAgree, ChannelsAgree, ProductsAgree, FunnelAgrees

\* What is broken down comes to what is told as a whole: whatever events arrived and
\* in whatever order, and whatever the filters, the rows by day, payment method,
\* contact channel and product are parts of the overview, and the visitors the funnel
\* counts are no more than the rows the other reports count (overview_daily.py:45,
\* payment_methods.py:48, contact_channels.py:86, products.py:53, funnel.py:56).
THEOREM BreakdownsAgreeAlways == Spec => []BreakdownsAgree
<1>1. Init => Inv /\ AllValued(db)
  BY InitInv, InitValued
<1>2. Inv /\ AllValued(db) /\ [Next]_vars => (Inv /\ AllValued(db))'
  BY StepInv, StepValued
<1>3. AllValued(db) => BreakdownsAgree
  BY ValuedBreaks
<1> QED BY <1>1, <1>2, <1>3, PTL DEF Spec

\* Nothing is lost or told twice where one period ends and the next begins: a period
\* compared with its second part differs from it by its first, in every count, every
\* currency and every payment method (filters.py:44, period_comparison.py:62-110, :201).
THEOREM PeriodsAddUpAlways == Spec => []PeriodsAddUp
<1>1. Init => Inv /\ AllValued(db)
  BY InitInv, InitValued
<1>2. Inv /\ AllValued(db) /\ [Next]_vars => (Inv /\ AllValued(db))'
  BY StepInv, StepValued
<1>3. AllValued(db) => PeriodsAddUp
  BY ValuedAddsUp
<1> QED BY <1>1, <1>2, <1>3, PTL DEF Spec
=============================================================================
