--------------------------- MODULE DemoSupportProofs ---------------------------
(***************************************************************************)
(* Support in the demo's backend keeps both ends of its links, for any     *)
(* number of licenses, records, lines and changes.  Every handler is built *)
(* from adding a record and linking one, so it is enough that these two    *)
(* keep what holds of a store (SupportInv), whatever store they are given. *)
(***************************************************************************)
EXTENDS DemoSupport, TLAPS

Covers == {"unknown", "included", "separately_tracked"}
Supported == [active : Nat, linked : SUBSET Nat, has : BOOLEAN, coverage : Covers, term : Terms \cup {0}]
Record ==
    [term : Terms, parents : SUBSET Parents, primary : Parents \cup {Null}, retired : BOOLEAN,
     lifecycle : {"none", "pending", "renewed"}, to : Nat, source : Nat]
Line ==
    [parent : Parents \cup {Null}, renews : Nat, status : {"sourcing", "converted", "cancelled"}]
Store ==
    [parents : UNION {[ps -> Supported] : ps \in SUBSET Parents},
     records : UNION {[ms -> Record] : ms \in SUBSET Nat}, lines : Seq(Line), made : Nat]

(* Ids are handed out once, so what a license points to was made.           *)
IdsWereMade(s) ==
    /\ DOMAIN s.records \subseteq 1..s.made
    /\ \A p \in DOMAIN s.parents :
         s.parents[p].active \in 0..s.made /\ s.parents[p].linked \subseteq 1..s.made

Agrees(q, p, records) ==
    /\ \A m \in DOMAIN records : m \in q.linked <=> p \in records[m].parents
    /\ q.active \in DOMAIN records => q.active \in q.linked
    /\ q.has <=> q.active # Null
    /\ q.active # Null => q.coverage = "separately_tracked"

LinksAgree(s) == \A p \in DOMAIN s.parents : Agrees(s.parents[p], p, s.records)

SupportInv(s) == s \in Store /\ IdsWereMade(s) /\ LinksAgree(s)

-----------------------------------------------------------------------------
(* What the handlers are built from.                                        *)

(* The parts of a store.                                                    *)
LEMMA Parts ==
    ASSUME NEW s \in Store
    PROVE  /\ DOMAIN s.parents \subseteq Parents
           /\ \A p \in DOMAIN s.parents : s.parents[p] \in Supported
           /\ DOMAIN s.records \subseteq Nat
           /\ \A m \in DOMAIN s.records : s.records[m] \in Record
           /\ s.lines \in Seq(Line) /\ s.made \in Nat
BY DEF Store

LEMMA Assembled ==
    ASSUME NEW s \in Store,
           NEW ps \in SUBSET Parents, NEW f, f = [p \in ps |-> f[p]], \A p \in ps : f[p] \in Supported,
           NEW ms \in SUBSET Nat, NEW g, g = [m \in ms |-> g[m]], \A m \in ms : g[m] \in Record,
           NEW ls \in Seq(Line), NEW n \in Nat
    PROVE  [s EXCEPT !.parents = f, !.records = g, !.lines = ls, !.made = n] \in Store
<1>1. f \in [ps -> Supported] /\ g \in [ms -> Record]
  OBVIOUS
<1>2. /\ f \in UNION {[qs -> Supported] : qs \in SUBSET Parents}
      /\ g \in UNION {[qs -> Record] : qs \in SUBSET Nat}
  BY <1>1
<1> QED
  BY <1>2 DEF Store

LEMMA LinkKeeps ==
    ASSUME NEW s, SupportInv(s), NEW m \in DOMAIN s.records, NEW ps \in SUBSET DOMAIN s.parents
    PROVE  /\ SupportInv(Link(s, m, ps))
           /\ DOMAIN Link(s, m, ps).parents = DOMAIN s.parents
           /\ DOMAIN Link(s, m, ps).records = DOMAIN s.records
           /\ \A n \in DOMAIN s.records : Link(s, m, ps).records[n].term = s.records[n].term
           /\ \A p \in ps : m \in Link(s, m, ps).parents[p].linked
<1> DEFINE t == Link(s, m, ps)
           r == LinkRecord(s.records[m], ps)
           f == [p \in DOMAIN s.parents |-> IF p \in ps THEN [s.parents[p] EXCEPT !.linked = @ \cup {m}]
                                            ELSE s.parents[p]]
           g == [s.records EXCEPT ![m] = r]
<1>0. s \in Store
  BY DEF SupportInv
<1>1. t = [s EXCEPT !.parents = f, !.records = g]
  <2>1. t = [s EXCEPT !.records[m] = r, !.parents = f]
    BY DEF Link
  <2> HIDE DEF t, f, r
  <2> QED
    BY <1>0, <2>1 DEF Store
<1>3. r \in Record /\ r.parents = s.records[m].parents \cup ps /\ r.term = s.records[m].term
  <2>1. AnyOf(ps) \in Parents \/ ps = {}
    BY <1>0, Parts DEF AnyOf
  <2> QED
    BY <1>0, <2>1, Parts DEF LinkRecord, Record
<1>4. m \in Nat
  BY <1>0, Parts
<1>5. \A p \in DOMAIN s.parents :
        /\ f[p] \in Supported /\ f[p].active = s.parents[p].active /\ f[p].has = s.parents[p].has
        /\ f[p].coverage = s.parents[p].coverage
        /\ f[p].linked = IF p \in ps THEN s.parents[p].linked \cup {m} ELSE s.parents[p].linked
  BY <1>0, <1>4, Parts DEF Supported
<1>6. /\ DOMAIN f = DOMAIN s.parents /\ DOMAIN g = DOMAIN s.records /\ g[m] = r
      /\ \A n \in DOMAIN s.records : n # m => g[n] = s.records[n]
  OBVIOUS
<1> HIDE DEF f, g, r
<1>7. t.parents = f /\ t.records = g /\ t.lines = s.lines /\ t.made = s.made /\ t \in Store
  <2>1. \A n \in DOMAIN s.records : g[n] \in Record
    BY <1>0, <1>3, <1>6, Parts
  <2>2. f = [p \in DOMAIN s.parents |-> f[p]] /\ g = [n \in DOMAIN s.records |-> g[n]]
    BY <1>0, Parts DEF f, g
  <2>3. [s EXCEPT !.parents = f, !.records = g, !.lines = s.lines, !.made = s.made] \in Store
    BY <1>0, <1>5, <2>1, <2>2, Parts, Assembled
  <2>4. t = [s EXCEPT !.parents = f, !.records = g, !.lines = s.lines, !.made = s.made]
    BY <1>0, <1>1 DEF Store
  <2> QED
    BY <1>0, <1>1, <2>3, <2>4 DEF Store
<1> HIDE DEF t
<1>8. IdsWereMade(t)
  <2>1. m \in 1..s.made
    BY DEF SupportInv, IdsWereMade
  <2>2. \A p \in DOMAIN s.parents : f[p].active \in 0..s.made /\ f[p].linked \subseteq 1..s.made
    BY <1>5, <2>1 DEF SupportInv, IdsWereMade
  <2> QED
    BY <1>6, <1>7, <2>2 DEF SupportInv, IdsWereMade
<1>9. ASSUME NEW p \in DOMAIN s.parents
      PROVE  Agrees(f[p], p, g)
  <2>1. Agrees(s.parents[p], p, s.records)
    BY DEF SupportInv, LinksAgree
  <2>2. ASSUME NEW n \in DOMAIN g
        PROVE  n \in f[p].linked <=> p \in g[n].parents
    <3>1. CASE n = m
      BY <1>3, <1>5, <1>6, <2>1, <3>1 DEF Agrees
    <3>2. CASE n # m
      <4>1. n \in f[p].linked <=> n \in s.parents[p].linked
        BY <1>5, <3>2
      <4> QED
        BY <1>6, <2>1, <3>2, <4>1 DEF Agrees
    <3> QED
      BY <3>1, <3>2
  <2> QED
    BY <1>5, <1>6, <2>1, <2>2 DEF Agrees
<1>10. \A n \in DOMAIN s.records : t.records[n].term = s.records[n].term
  BY <1>3, <1>6, <1>7
<1>11. \A p \in ps : m \in t.parents[p].linked
  BY <1>5, <1>7
<1> QED
  BY <1>6, <1>7, <1>8, <1>9, <1>10, <1>11 DEF SupportInv, LinksAgree, t

(* A record becomes active for licenses it is linked to.                    *)
LEMMA ActivateKeeps ==
    ASSUME NEW s, SupportInv(s), NEW m \in DOMAIN s.records, NEW ps \in SUBSET DOMAIN s.parents
    PROVE  SupportInv(Activate(s, m, ps))
<1> DEFINE l == Link(s, m, ps)
           t == Activate(s, m, ps)
           f == [p \in DOMAIN l.parents |->
                    IF p \in ps THEN [l.parents[p] EXCEPT !.active = m, !.has = TRUE,
                                         !.coverage = "separately_tracked", !.term = s.records[m].term]
                    ELSE l.parents[p]]
<1>1. t = [l EXCEPT !.parents = f]
  BY DEF Activate
<1>2. /\ SupportInv(l) /\ DOMAIN l.parents = DOMAIN s.parents /\ DOMAIN l.records = DOMAIN s.records
      /\ \A p \in ps : m \in l.parents[p].linked
  BY LinkKeeps
<1> HIDE DEF l
<1>3. m \in Nat \ {0} /\ s.records[m].term \in Terms \cup {0}
  BY Parts DEF SupportInv, IdsWereMade, Record
<1>4. \A p \in DOMAIN l.parents :
        /\ f[p] \in Supported /\ f[p].linked = l.parents[p].linked
        /\ p \in ps => f[p].active = m /\ f[p].has = TRUE /\ f[p].coverage = "separately_tracked"
        /\ p \notin ps => f[p] = l.parents[p]
  <2> SUFFICES ASSUME NEW p \in DOMAIN l.parents
               PROVE  /\ f[p] \in Supported /\ f[p].linked = l.parents[p].linked
                      /\ p \in ps => /\ f[p].active = m /\ f[p].has = TRUE
                                      /\ f[p].coverage = "separately_tracked"
                      /\ p \notin ps => f[p] = l.parents[p]
    OBVIOUS
  <2>1. l.parents[p] \in Supported
    BY <1>2, Parts DEF SupportInv
  <2>2. CASE p \in ps
    <3>1. f[p] = [l.parents[p] EXCEPT !.active = m, !.has = TRUE, !.coverage = "separately_tracked",
                                      !.term = s.records[m].term]
      BY <2>2
    <3> QED
      BY <1>3, <2>1, <2>2, <3>1 DEF Supported, Covers
  <2>3. CASE p \notin ps
    BY <2>1, <2>3
  <2> QED
    BY <2>2, <2>3
<1>5. t.parents = f /\ t.records = l.records /\ t.lines = l.lines /\ t.made = l.made /\ t \in Store
  <2>0. l \in Store /\ f = [p \in DOMAIN l.parents |-> f[p]]
    BY <1>2 DEF SupportInv
  <2> HIDE DEF f
  <2>1. t = [l EXCEPT !.parents = f, !.records = l.records, !.lines = l.lines, !.made = l.made]
    BY <1>1, <2>0 DEF Store
  <2>2. l.records = [n \in DOMAIN l.records |-> l.records[n]]
    BY <2>0 DEF Store
  <2>4. /\ DOMAIN l.parents \in SUBSET Parents /\ DOMAIN l.records \in SUBSET Nat
        /\ \A n \in DOMAIN l.records : l.records[n] \in Record
        /\ l.lines \in Seq(Line) /\ l.made \in Nat
    BY <2>0, Parts
  <2>5. \A p \in DOMAIN l.parents : f[p] \in Supported
    BY <1>4
  <2>6. [l EXCEPT !.parents = f, !.records = l.records, !.lines = l.lines, !.made = l.made] \in Store
    BY <2>0, <2>2, <2>4, <2>5, Assembled
  <2>3. t \in Store
    BY <2>1, <2>6
  <2> QED
    BY <1>1, <2>0, <2>3 DEF Store
<1> HIDE DEF f, t
<1>6. DOMAIN f = DOMAIN l.parents
  BY DEF f
<1>7. m \in 1..l.made
  BY <1>2 DEF SupportInv, IdsWereMade
<1>8. IdsWereMade(t)
  BY <1>2, <1>4, <1>5, <1>6, <1>7 DEF SupportInv, IdsWereMade
<1>9. ASSUME NEW p \in DOMAIN l.parents
      PROVE  Agrees(f[p], p, l.records)
  <2>1. Agrees(l.parents[p], p, l.records)
    BY <1>2 DEF SupportInv, LinksAgree
  <2>2. CASE p \in ps
    <3>1. f[p].active = m /\ f[p].has = TRUE /\ f[p].coverage = "separately_tracked" /\ m # Null
      BY <1>3, <1>4, <2>2 DEF Null
    <3>2. f[p].linked = l.parents[p].linked /\ m \in f[p].linked
      BY <1>2, <1>4, <2>2
    <3> QED
      BY <2>1, <3>1, <3>2 DEF Agrees
  <2>3. CASE p \notin ps
    BY <1>4, <2>1, <2>3
  <2> QED
    BY <2>2, <2>3
<1> QED
  BY <1>5, <1>6, <1>8, <1>9 DEF SupportInv, LinksAgree, t

LEMMA LinkOrActivateKeeps ==
    ASSUME NEW s, SupportInv(s), NEW m \in DOMAIN s.records, NEW ps \in SUBSET DOMAIN s.parents
    PROVE  SupportInv(LinkOrActivate(s, m, ps))
<1>1. /\ SupportInv(Link(s, m, ps)) /\ DOMAIN Link(s, m, ps).parents = DOMAIN s.parents
      /\ DOMAIN Link(s, m, ps).records = DOMAIN s.records
  BY LinkKeeps
<1> QED
  BY <1>1, ActivateKeeps DEF LinkOrActivate

(* A new record is linked to nothing, and no license knows its id.          *)
LEMMA AddKeeps ==
    ASSUME NEW s, SupportInv(s), NEW r \in Record, r.parents = {}
    PROVE  /\ SupportInv(AddRecord(s, r))
           /\ AddRecord(s, r).made = s.made + 1
           /\ AddRecord(s, r).parents = s.parents
           /\ DOMAIN AddRecord(s, r).records = DOMAIN s.records \cup {s.made + 1}
           /\ \A n \in DOMAIN s.records : AddRecord(s, r).records[n] = s.records[n]
<1> DEFINE m == s.made + 1
           g == [n \in DOMAIN s.records \cup {m} |-> IF n = m THEN r ELSE s.records[n]]
           t == AddRecord(s, r)
<1>1. s \in Store /\ m \in Nat /\ m \notin DOMAIN s.records
  BY Parts DEF SupportInv, IdsWereMade
<1>2. t = [s EXCEPT !.made = m, !.records = g]
  BY DEF AddRecord
<1>3. g[m] = r /\ \A n \in DOMAIN s.records : g[n] = s.records[n]
  BY <1>1
<1>4. DOMAIN g = DOMAIN s.records \cup {m} /\ g = [n \in DOMAIN s.records \cup {m} |-> g[n]]
  OBVIOUS
<1> HIDE DEF g
<1>5. t.parents = s.parents /\ t.records = g /\ t.lines = s.lines /\ t.made = m /\ t \in Store
  <2> HIDE DEF m
  <2>1. /\ DOMAIN s.parents \in SUBSET Parents /\ (DOMAIN s.records \cup {m}) \in SUBSET Nat
        /\ \A p \in DOMAIN s.parents : s.parents[p] \in Supported
        /\ s.lines \in Seq(Line)
    BY <1>1, Parts
  <2>2. s.parents = [p \in DOMAIN s.parents |-> s.parents[p]]
    BY <1>1 DEF Store
  <2>3. \A n \in DOMAIN s.records \cup {m} : g[n] \in Record
    BY <1>1, <1>3, Parts
  <2>4. [s EXCEPT !.parents = s.parents, !.records = g, !.lines = s.lines, !.made = m] \in Store
    BY <1>1, <1>4, <2>1, <2>2, <2>3, Assembled
  <2>5. t = [s EXCEPT !.parents = s.parents, !.records = g, !.lines = s.lines, !.made = m]
    BY <1>1, <1>2 DEF Store
  <2> QED
    BY <1>1, <1>2, <2>4, <2>5 DEF Store
<1> HIDE DEF t
<1>6. IdsWereMade(t)
  BY <1>1, <1>4, <1>5, Parts DEF SupportInv, IdsWereMade
<1>7. ASSUME NEW p \in DOMAIN s.parents
      PROVE  Agrees(s.parents[p], p, g)
  <2>1. /\ Agrees(s.parents[p], p, s.records) /\ s.parents[p].linked \subseteq 1..s.made
        /\ s.parents[p].active \in 0..s.made
    BY DEF SupportInv, LinksAgree, IdsWereMade
  <2>2. m \notin s.parents[p].linked /\ m # s.parents[p].active
    BY <1>1, <2>1, Parts
  <2> HIDE DEF m
  <2> QED
    BY <1>3, <1>4, <2>1, <2>2 DEF Agrees
<1> QED
  BY <1>3, <1>4, <1>5, <1>6, <1>7 DEF SupportInv, LinksAgree, t

(* A record that goes on supporting the same licenses.                      *)
LEMMA EditKeeps ==
    ASSUME NEW s, SupportInv(s), NEW m \in DOMAIN s.records, NEW r \in Record,
           r.parents = s.records[m].parents
    PROVE  /\ SupportInv([s EXCEPT !.records[m] = r])
           /\ DOMAIN [s EXCEPT !.records[m] = r].records = DOMAIN s.records
           /\ [s EXCEPT !.records[m] = r].parents = s.parents
           /\ [s EXCEPT !.records[m] = r].made = s.made
<1> DEFINE g == [s.records EXCEPT ![m] = r]
           t == [s EXCEPT !.records[m] = r]
<1>1. s \in Store
  BY DEF SupportInv
<1>2. DOMAIN g = DOMAIN s.records /\ g[m] = r /\ \A n \in DOMAIN s.records : n # m => g[n] = s.records[n]
  OBVIOUS
<1>3. t = [s EXCEPT !.records = g] /\ g = [n \in DOMAIN s.records |-> g[n]]
  BY <1>1 DEF Store
<1> HIDE DEF g, t
<1>4. t.parents = s.parents /\ t.records = g /\ t.lines = s.lines /\ t.made = s.made /\ t \in Store
  <2>1. /\ DOMAIN s.parents \in SUBSET Parents /\ DOMAIN s.records \in SUBSET Nat
        /\ \A p \in DOMAIN s.parents : s.parents[p] \in Supported
        /\ s.lines \in Seq(Line) /\ s.made \in Nat
    BY <1>1, Parts
  <2>2. s.parents = [p \in DOMAIN s.parents |-> s.parents[p]]
    BY <1>1 DEF Store
  <2>3. \A n \in DOMAIN s.records : g[n] \in Record
    BY <1>1, <1>2, Parts
  <2>4. [s EXCEPT !.parents = s.parents, !.records = g, !.lines = s.lines, !.made = s.made] \in Store
    BY <1>1, <1>3, <2>1, <2>2, <2>3, Assembled
  <2>5. t = [s EXCEPT !.parents = s.parents, !.records = g, !.lines = s.lines, !.made = s.made]
    BY <1>1, <1>3 DEF Store
  <2> QED
    BY <1>1, <1>3, <2>4, <2>5 DEF Store
<1>5. IdsWereMade(t)
  BY <1>2, <1>4 DEF SupportInv, IdsWereMade
<1>6. \A n \in DOMAIN s.records : g[n].parents = s.records[n].parents
  BY <1>2
<1>7. ASSUME NEW p \in DOMAIN s.parents
      PROVE  Agrees(s.parents[p], p, g)
  <2>1. Agrees(s.parents[p], p, s.records)
    BY DEF SupportInv, LinksAgree
  <2> QED
    BY <1>2, <1>6, <2>1 DEF Agrees
<1> QED
  BY <1>2, <1>4, <1>5, <1>7 DEF SupportInv, LinksAgree, t

(* A license that agrees with the records as before.                        *)
LEMMA LicenseKeeps ==
    ASSUME NEW s, SupportInv(s), NEW p \in DOMAIN s.parents, NEW q \in Supported,
           q.active \in 0..s.made, q.linked \subseteq 1..s.made, Agrees(q, p, s.records)
    PROVE  SupportInv([s EXCEPT !.parents[p] = q])
<1> DEFINE f == [s.parents EXCEPT ![p] = q]
           t == [s EXCEPT !.parents[p] = q]
<1>1. s \in Store
  BY DEF SupportInv
<1>2. DOMAIN f = DOMAIN s.parents /\ f[p] = q /\ \A o \in DOMAIN s.parents : o # p => f[o] = s.parents[o]
  OBVIOUS
<1>3. t = [s EXCEPT !.parents = f] /\ f = [o \in DOMAIN s.parents |-> f[o]]
  BY <1>1 DEF Store
<1> HIDE DEF f, t
<1>4. t.parents = f /\ t.records = s.records /\ t.lines = s.lines /\ t.made = s.made /\ t \in Store
  <2>1. /\ DOMAIN s.parents \in SUBSET Parents /\ DOMAIN s.records \in SUBSET Nat
        /\ \A n \in DOMAIN s.records : s.records[n] \in Record
        /\ s.lines \in Seq(Line) /\ s.made \in Nat
    BY <1>1, Parts
  <2>2. s.records = [n \in DOMAIN s.records |-> s.records[n]]
    BY <1>1 DEF Store
  <2>3. \A o \in DOMAIN s.parents : f[o] \in Supported
    BY <1>1, <1>2, Parts
  <2>4. [s EXCEPT !.parents = f, !.records = s.records, !.lines = s.lines, !.made = s.made] \in Store
    BY <1>1, <1>3, <2>1, <2>2, <2>3, Assembled
  <2>5. t = [s EXCEPT !.parents = f, !.records = s.records, !.lines = s.lines, !.made = s.made]
    BY <1>1, <1>3 DEF Store
  <2> QED
    BY <1>1, <1>3, <2>4, <2>5 DEF Store
<1>5. IdsWereMade(t)
  BY <1>2, <1>4 DEF SupportInv, IdsWereMade
<1>6. \A o \in DOMAIN s.parents : Agrees(f[o], o, s.records)
  BY <1>2 DEF SupportInv, LinksAgree
<1> QED
  BY <1>2, <1>4, <1>5, <1>6 DEF SupportInv, LinksAgree, t

(* Fewer licenses or records, and other lines.                              *)
LEMMA DropKeeps ==
    ASSUME NEW s, SupportInv(s)
    PROVE  /\ \A m : SupportInv([s EXCEPT !.records = [n \in DOMAIN @ \ {m} |-> @[n]]])
           /\ \A p : SupportInv([s EXCEPT !.parents = [o \in DOMAIN @ \ {p} |-> @[o]]])
           /\ \A ls \in Seq(Line) : SupportInv([s EXCEPT !.lines = ls])
<1>1. s \in Store
  BY DEF SupportInv
<1>2. ASSUME NEW m
      PROVE  SupportInv([s EXCEPT !.records = [n \in DOMAIN s.records \ {m} |-> s.records[n]]])
  <2> DEFINE g == [n \in DOMAIN s.records \ {m} |-> s.records[n]]
             t == [s EXCEPT !.records = g]
  <2>1. g \in UNION {[ms -> Record] : ms \in SUBSET Nat}
    <3>1. g \in [DOMAIN s.records \ {m} -> Record] /\ DOMAIN s.records \ {m} \in SUBSET Nat
      BY <1>1, Parts
    <3> QED
      BY <3>1
  <2>2. DOMAIN g = DOMAIN s.records \ {m} /\ \A n \in DOMAIN g : g[n] = s.records[n]
    OBVIOUS
  <2> HIDE DEF g
  <2>3. t \in Store /\ t.records = g /\ t.parents = s.parents /\ t.made = s.made
    BY <1>1, <2>1 DEF Store
  <2> HIDE DEF t
  <2>4. \A p \in DOMAIN s.parents : Agrees(s.parents[p], p, g)
    BY <2>2 DEF SupportInv, LinksAgree, Agrees
  <2> QED
    BY <2>2, <2>3, <2>4 DEF SupportInv, LinksAgree, IdsWereMade, t, g
<1>3. ASSUME NEW p
      PROVE  SupportInv([s EXCEPT !.parents = [o \in DOMAIN s.parents \ {p} |-> s.parents[o]]])
  <2> DEFINE f == [o \in DOMAIN s.parents \ {p} |-> s.parents[o]]
             t == [s EXCEPT !.parents = f]
  <2>1. f \in UNION {[ps -> Supported] : ps \in SUBSET Parents}
    <3>1. f \in [DOMAIN s.parents \ {p} -> Supported] /\ DOMAIN s.parents \ {p} \in SUBSET Parents
      BY <1>1, Parts
    <3> QED
      BY <3>1
  <2>2. DOMAIN f = DOMAIN s.parents \ {p} /\ \A o \in DOMAIN f : f[o] = s.parents[o]
    OBVIOUS
  <2> HIDE DEF f
  <2>3. t \in Store /\ t.parents = f /\ t.records = s.records /\ t.made = s.made
    BY <1>1, <2>1 DEF Store
  <2> HIDE DEF t
  <2> QED
    BY <2>2, <2>3 DEF SupportInv, LinksAgree, IdsWereMade, t, f
<1>4. ASSUME NEW ls \in Seq(Line)
      PROVE  SupportInv([s EXCEPT !.lines = ls])
  <2> DEFINE t == [s EXCEPT !.lines = ls]
  <2>1. t \in Store /\ t.parents = s.parents /\ t.records = s.records /\ t.made = s.made
    BY <1>1 DEF Store
  <2> HIDE DEF t
  <2> QED
    BY <2>1 DEF SupportInv, LinksAgree, IdsWereMade, t
<1> QED
  BY <1>2, <1>3, <1>4

-----------------------------------------------------------------------------
(* The handlers.                                                            *)

LEMMA NewRecords ==
    ASSUME NEW term \in Terms, NEW primary \in Parents \cup {Null}, NEW source \in Nat
    PROVE  /\ [NewRecord EXCEPT !.term = term, !.source = source, !.primary = primary] \in Record
           /\ [NewRecord EXCEPT !.term = term, !.source = source, !.primary = primary].parents = {}
           /\ [NewRecord EXCEPT !.term = term, !.primary = primary] \in Record
           /\ [NewRecord EXCEPT !.term = term, !.primary = primary].parents = {}
           /\ [NewRecord EXCEPT !.term = term] \in Record
           /\ [NewRecord EXCEPT !.term = term].parents = {}
<1>1. NewRecord \in [term : Terms, parents : {{}}, primary : Parents \cup {Null}, retired : BOOLEAN,
                     lifecycle : {"none", "pending", "renewed"}, to : Nat, source : Nat]
  BY DEF NewRecord, Terms, Today, Null
<1> QED
  BY <1>1 DEF Record

LEMMA SupportStart == Init => SupportInv(support)
<1> SUFFICES ASSUME Init
             PROVE  SupportInv(support)
  OBVIOUS
<1> DEFINE bare == [active |-> Null, linked |-> {}, has |-> FALSE, coverage |-> "included", term |-> Today]
           empty == [parents |-> [p \in Parents |-> bare], records |-> <<>>, lines |-> <<>>, made |-> 0]
           first(term) == AddRecord(empty, [NewRecord EXCEPT !.term = term])
           seeded(term) == Activate(first(term), 1, Parents)
<1>1. PICK term \in Terms : support \in {empty, HandOver(seeded(term), 1)}
  BY DEF Init
<1>2. SupportInv(empty)
  <2>1. bare \in Supported
    BY DEF Supported, Covers, Terms, Today, Null
  <2>2. [p \in Parents |-> bare] \in UNION {[ps -> Supported] : ps \in SUBSET Parents}
    <3>1. [p \in Parents |-> bare] \in [Parents -> Supported]
      BY <2>1
    <3> QED
      BY <3>1
  <2>3. <<>> \in UNION {[ms -> Record] : ms \in SUBSET Nat}
    <3>1. <<>> \in [{} -> Record]
      OBVIOUS
    <3> QED
      BY <3>1
  <2>4. empty \in Store
    <3>1. <<>> \in Seq(Line) /\ 0 \in Nat
      OBVIOUS
    <3> HIDE DEF bare
    <3> QED
      BY <2>2, <2>3, <3>1 DEF Store
  <2> QED
    BY <2>4 DEF SupportInv, IdsWereMade, LinksAgree, Agrees, Null
<1>3. /\ SupportInv(first(term)) /\ DOMAIN first(term).parents = Parents
      /\ 1 \in DOMAIN first(term).records
  <2> HIDE DEF first
  <2>1. empty.made = 0 /\ DOMAIN empty.parents = Parents
    OBVIOUS
  <2> DEFINE r == [NewRecord EXCEPT !.term = term]
  <2>2. r \in Record /\ r.parents = {}
    BY NewRecords DEF Null
  <2> HIDE DEF empty, r
  <2>3. /\ SupportInv(AddRecord(empty, r)) /\ DOMAIN AddRecord(empty, r).parents = Parents
        /\ 1 \in DOMAIN AddRecord(empty, r).records
    BY <1>2, <2>1, <2>2, AddKeeps
  <2> QED
    BY <2>3 DEF first, r
<1>4. SupportInv(seeded(term)) /\ 1 \in DOMAIN seeded(term).records
  <2> HIDE DEF first
  <2>1. 1 \in DOMAIN Activate(first(term), 1, Parents).records
    BY <1>3, LinkKeeps DEF Activate
  <2> QED
    BY <1>3, <2>1, ActivateKeeps
<1>5. SupportInv(HandOver(seeded(term), 1))
  <2> HIDE DEF seeded
  <2> QED
    BY <1>4, ActivateKeeps DEF HandOver
<1> HIDE DEF empty, seeded
<1> QED
  BY <1>1, <1>2, <1>5

(* A new record is linked to licenses there are.                            *)
LEMMA AddLinkedKeeps ==
    ASSUME NEW s, SupportInv(s), NEW r \in Record, r.parents = {}, NEW ps \in SUBSET DOMAIN s.parents
    PROVE  LET t == AddRecord(s, r) IN SupportInv(LinkOrActivate(t, t.made, ps))
<1> DEFINE t == AddRecord(s, r)
<1>1. SupportInv(t) /\ t.made \in DOMAIN t.records /\ DOMAIN t.parents = DOMAIN s.parents
  BY AddKeeps
<1> HIDE DEF t
<1>2. SupportInv(LinkOrActivate(t, t.made, ps))
  BY <1>1, LinkOrActivateKeeps
<1> QED
  BY <1>2 DEF t

LEMMA DisableKeeps ==
    ASSUME SupportInv(support), NEW p, Disable(p)
    PROVE  SupportInv(support')
<1> DEFINE m == support.parents[p].active
           rest == support.records[m].parents \ {p}
           q == [support.parents[p] EXCEPT !.linked = @ \ {m}, !.active = Null, !.has = FALSE, !.term = 0]
           r(primary) == [support.records[m] EXCEPT !.parents = rest, !.retired = @ \/ rest = {},
                                                    !.primary = IF @ = p THEN primary ELSE @]
<1>1. /\ support \in Store /\ p \in DOMAIN support.parents /\ m # Null
      /\ Agrees(support.parents[p], p, support.records) /\ support.parents[p] \in Supported
      /\ support.parents[p].active \in 0..support.made /\ support.parents[p].linked \subseteq 1..support.made
  BY Parts DEF Disable, Exists, SupportInv, LinksAgree, IdsWereMade
<1>2. /\ q \in Supported /\ q.linked = support.parents[p].linked \ {m} /\ q.active = Null /\ q.has = FALSE
      /\ q.active \in 0..support.made /\ q.linked \subseteq 1..support.made
  <2> HIDE DEF m
  <2>1. support.parents[p] \in Supported /\ 0 \in Terms \cup {0} /\ Null \in Nat
    BY <1>1 DEF Null
  <2>2. support.parents[p].linked \in SUBSET Nat
    BY <2>1 DEF Supported
  <2>3. q \in Supported
    BY <2>1, <2>2 DEF Supported
  <2>4. q.linked = support.parents[p].linked \ {m} /\ q.active = Null /\ q.has = FALSE
    BY <2>1 DEF Supported
  <2>5. Null \in 0..support.made
    BY <1>1 DEF Null, Store
  <2> HIDE DEF q
  <2> QED
    BY <1>1, <2>3, <2>4, <2>5
<1>3. CASE m \notin DOMAIN support.records
  <2>1. support' = [support EXCEPT !.parents[p] = q]
    BY <1>3 DEF Disable, Exists
  <2>2. Agrees(q, p, support.records)
    <3> HIDE DEF q
    <3>1. \A n \in DOMAIN support.records : n # m
      BY <1>3
    <3>2. Null \notin DOMAIN support.records
      BY DEF SupportInv, IdsWereMade, Null
    <3> HIDE DEF m
    <3> QED
      BY <1>1, <1>2, <3>1, <3>2 DEF Agrees
  <2> HIDE DEF q
  <2> QED
    BY <1>1, <1>2, <2>1, <2>2, LicenseKeeps
<1>4. CASE m \in DOMAIN support.records
  <2>1. PICK primary \in IF rest = {} THEN {Null} ELSE rest :
          support' = [support EXCEPT !.parents[p] = q, !.records[m] = r(primary)]
    BY <1>4 DEF Disable, Exists
  <2>2. support.records[m] \in Record /\ rest \subseteq Parents
    BY <1>1, <1>4, Parts DEF Record
  <2>3. r(primary) \in Record /\ r(primary).parents = rest
    BY <2>2 DEF Record
  <2> DEFINE x == r(primary)
             f == [support.parents EXCEPT ![p] = q]
             g == [support.records EXCEPT ![m] = x]
  <2>4. support' = [support EXCEPT !.parents = f, !.records = g]
    <3> HIDE DEF x, m, r, q
    <3> QED
      BY <1>1, <2>1 DEF x, Store
  <2>5. /\ DOMAIN f = DOMAIN support.parents /\ f[p] = q
        /\ \A o \in DOMAIN support.parents : o # p => f[o] = support.parents[o]
        /\ DOMAIN g = DOMAIN support.records /\ g[m] = x
        /\ \A n \in DOMAIN support.records : n # m => g[n] = support.records[n]
    <3> HIDE DEF q, x, m
    <3> QED
      BY <1>1, <1>4
  <2>6. f = [o \in DOMAIN support.parents |-> f[o]] /\ g = [n \in DOMAIN support.records |-> g[n]]
    <3> HIDE DEF q, x, m
    <3> QED
      BY <1>1 DEF Store
  <2> HIDE DEF f, g, q, x, m, r
  <2>7. support' \in Store /\ support'.parents = f /\ support'.records = g /\ support'.made = support.made
    <3>1. /\ DOMAIN support.parents \in SUBSET Parents /\ DOMAIN support.records \in SUBSET Nat
          /\ \A o \in DOMAIN support.parents : f[o] \in Supported
          /\ \A n \in DOMAIN support.records : g[n] \in Record
          /\ support.lines \in Seq(Line) /\ support.made \in Nat
      BY <1>1, <1>2, <2>3, <2>5, Parts DEF x
    <3>2. [support EXCEPT !.parents = f, !.records = g, !.lines = support.lines, !.made = support.made] \in Store
      BY <1>1, <2>6, <3>1, Assembled
    <3>3. support' = [support EXCEPT !.parents = f, !.records = g, !.lines = support.lines,
                                     !.made = support.made]
      BY <1>1, <2>4 DEF Store
    <3> QED
      BY <1>1, <2>4, <3>2, <3>3 DEF Store
  <2>8. IdsWereMade(support')
    BY <1>2, <2>5, <2>7 DEF SupportInv, IdsWereMade
  <2>9. ASSUME NEW o \in DOMAIN support.parents
        PROVE  Agrees(f[o], o, g)
    <3>1. Agrees(support.parents[o], o, support.records)
      BY DEF SupportInv, LinksAgree
    <3>2. g[m].parents = support.records[m].parents \ {p}
      BY <2>3, <2>5 DEF x
    <3>3. CASE o = p
      <4>1. \A n \in DOMAIN g : n \in f[o].linked <=> o \in g[n].parents
        BY <1>2, <2>5, <3>1, <3>2, <3>3 DEF Agrees
      <4>2. f[o].active = Null /\ ~f[o].has /\ Null \notin DOMAIN g
        BY <1>2, <2>5, <3>3 DEF SupportInv, IdsWereMade, Null
      <4> QED
        BY <4>1, <4>2 DEF Agrees
    <3>4. CASE o # p
      <4>1. \A n \in DOMAIN g : o \in g[n].parents <=> o \in support.records[n].parents
        BY <2>5, <3>2, <3>4
      <4> QED
        BY <2>5, <3>1, <3>4, <4>1 DEF Agrees
    <3> QED
      BY <3>3, <3>4
  <2> QED
    BY <2>5, <2>7, <2>8, <2>9 DEF SupportInv, LinksAgree
<1> QED
  BY <1>3, <1>4

LEMMA CoverageKeeps ==
    ASSUME SupportInv(support), NEW p, ChangeCoverage(p)
    PROVE  SupportInv(support')
<1> DEFINE old == support.parents[p]
<1>1. PICK coverage \in Covers, left \in {old, [old EXCEPT !.has = FALSE, !.term = 0]} :
        /\ left = old \/ (old.active = Null /\ left = [old EXCEPT !.has = FALSE, !.term = 0])
        /\ old.active # Null => coverage = "separately_tracked"
        /\ support' = [support EXCEPT !.parents[p] = [left EXCEPT !.coverage = coverage]]
  BY DEF ChangeCoverage, Covers
<1> DEFINE q == [left EXCEPT !.coverage = coverage]
<1>2. /\ p \in DOMAIN support.parents /\ old \in Supported /\ Agrees(old, p, support.records)
      /\ old.active \in 0..support.made /\ old.linked \subseteq 1..support.made
  BY Parts DEF ChangeCoverage, Exists, SupportInv, LinksAgree, IdsWereMade
<1> HIDE DEF old
<1>3. /\ left \in Supported /\ left.active = old.active /\ left.linked = old.linked
      /\ left.has = old.has \/ (old.active = Null /\ left.has = FALSE)
  BY <1>1, <1>2 DEF Supported
<1>4. q \in Supported /\ q.active = old.active /\ q.linked = old.linked /\ q.coverage = coverage /\ q.has = left.has
  BY <1>3 DEF Supported
<1> HIDE DEF q
<1>5. Agrees(q, p, support.records)
  BY <1>1, <1>2, <1>3, <1>4 DEF Agrees
<1> QED
  BY <1>1, <1>2, <1>4, <1>5, LicenseKeeps DEF q

LEMMA EditIncludedKeeps ==
    ASSUME SupportInv(support), NEW p, EditIncluded(p)
    PROVE  SupportInv(support')
<1> DEFINE old == support.parents[p]
<1>1. PICK term \in Terms \cup {0} : support' = [support EXCEPT !.parents[p].term = term]
  BY DEF EditIncluded
<1>2. /\ p \in DOMAIN support.parents /\ old \in Supported /\ Agrees(old, p, support.records)
      /\ old.active \in 0..support.made /\ old.linked \subseteq 1..support.made
  BY Parts DEF EditIncluded, Exists, SupportInv, LinksAgree, IdsWereMade
<1> DEFINE q == [old EXCEPT !.term = term]
<1>3. support' = [support EXCEPT !.parents[p] = q]
  BY <1>1
<1> HIDE DEF old
<1>4. /\ q \in Supported /\ q.active = old.active /\ q.linked = old.linked
      /\ q.coverage = old.coverage /\ q.has = old.has
  BY <1>1, <1>2 DEF Supported
<1> HIDE DEF q
<1>5. Agrees(q, p, support.records)
  BY <1>2, <1>4 DEF Agrees
<1> QED
  BY <1>2, <1>3, <1>4, <1>5, LicenseKeeps

LEMMA RecordEditsKeep ==
    ASSUME SupportInv(support), NEW m, EditRecordTerm(m) \/ RetireRecord(m)
    PROVE  SupportInv(support')
<1> DEFINE old == support.records[m]
<1>1. m \in DOMAIN support.records /\ old \in Record
  BY Parts DEF EditRecordTerm, RetireRecord, Exists, SupportInv
<1>2. CASE EditRecordTerm(m)
  <2>1. PICK term \in Terms : support' = [support EXCEPT !.records[m] = [old EXCEPT !.term = term]]
    BY <1>2 DEF EditRecordTerm
  <2>2. [old EXCEPT !.term = term] \in Record /\ [old EXCEPT !.term = term].parents = old.parents
    <3> HIDE DEF old
    <3> QED
      BY <1>1 DEF Record
  <2> QED
    BY <1>1, <2>1, <2>2, EditKeeps
<1>3. CASE RetireRecord(m)
  <2>1. support' = [support EXCEPT !.records[m] = [old EXCEPT !.retired = ~@]]
    BY <1>3 DEF RetireRecord
  <2>2. [old EXCEPT !.retired = ~@] \in Record /\ [old EXCEPT !.retired = ~@].parents = old.parents
    <3> HIDE DEF old
    <3> QED
      BY <1>1 DEF Record
  <2> QED
    BY <1>1, <2>1, <2>2, EditKeeps
<1> QED
  BY <1>2, <1>3

(* Renewals write the lifecycle of a record and a line.                     *)
LEMMA LineKeeps ==
    ASSUME NEW s, SupportInv(s), NEW l \in Line
    PROVE  SupportInv(AddLine(s, l))
<1>1. Append(s.lines, l) \in Seq(Line)
  BY Parts DEF SupportInv
<1> QED
  BY <1>1, DropKeeps DEF AddLine

LEMMA LifecycleKeeps ==
    ASSUME NEW s, SupportInv(s), NEW m \in DOMAIN s.records, NEW cycle \in {"none", "pending", "renewed"}
    PROVE  SupportInv([s EXCEPT !.records[m].lifecycle = cycle])
<1> DEFINE r == [s.records[m] EXCEPT !.lifecycle = cycle]
<1>1. s.records[m] \in Record
  BY Parts DEF SupportInv
<1>2. r \in Record /\ r.parents = s.records[m].parents
  BY <1>1 DEF Record
<1>3. [s EXCEPT !.records[m].lifecycle = cycle] = [s EXCEPT !.records[m] = r]
  OBVIOUS
<1> HIDE DEF r
<1> QED
  BY <1>2, <1>3, EditKeeps

LEMMA RenewalsKeep ==
    ASSUME SupportInv(support), NEW p, (p \in Parents /\ StartSupportRenewal(p)) \/ StartRecordRenewal(p)
    PROVE  SupportInv(support')
<1>1. CASE p \in Parents /\ StartSupportRenewal(p)
  <2>1. [parent |-> p, renews |-> Null, status |-> "sourcing"] \in Line
    BY <1>1 DEF Line, Null
  <2> QED
    BY <1>1, <2>1, LineKeeps DEF StartSupportRenewal
<1>2. CASE StartRecordRenewal(p)
  <2>1. p \in DOMAIN support.records /\ p \in Nat
    BY <1>2, Parts DEF StartRecordRenewal, Exists, SupportInv
  <2>2. [parent |-> Null, renews |-> p, status |-> "sourcing"] \in Line
    BY <2>1 DEF Line
  <2>3. SupportInv([support EXCEPT !.records[p].lifecycle = "pending"])
    BY <2>1, LifecycleKeeps
  <2> QED
    BY <1>2, <2>2, <2>3, LineKeeps DEF StartRecordRenewal
<1> QED
  BY <1>1, <1>2

(* A line of which only the status changes.                                 *)
LEMMA StatusKeeps ==
    ASSUME NEW s, SupportInv(s), NEW i \in DOMAIN s.lines, NEW status \in {"sourcing", "converted", "cancelled"}
    PROVE  /\ SupportInv([s EXCEPT !.lines[i].status = status])
           /\ [s EXCEPT !.lines[i].status = status].records = s.records
           /\ [s EXCEPT !.lines[i].status = status].parents = s.parents
           /\ [s EXCEPT !.lines[i].status = status].made = s.made
<1> DEFINE l == [s.lines[i] EXCEPT !.status = status]
           ls == [s.lines EXCEPT ![i] = l]
<1>1. s.lines \in Seq(Line) /\ s.lines[i] \in Line
  BY Parts DEF SupportInv
<1>2. l \in Line
  BY <1>1 DEF Line
<1> HIDE DEF l
<1>3. ls \in Seq(Line)
  BY <1>1, <1>2
<1>4. [s EXCEPT !.lines[i].status = status] = [s EXCEPT !.lines = ls]
  BY DEF l
<1> HIDE DEF ls
<1>5. SupportInv([s EXCEPT !.lines = ls])
  BY <1>3, DropKeeps
<1> QED
  BY <1>4, <1>5 DEF SupportInv, Store

LEMMA CancelLineKeeps ==
    ASSUME SupportInv(support), NEW i, CancelLine(i)
    PROVE  SupportInv(support')
<1> DEFINE s == [support EXCEPT !.lines[i].status = "cancelled"]
           m == support.lines[i].renews
<1>1. i \in DOMAIN support.lines
  BY DEF CancelLine
<1>2. SupportInv(s)
  BY <1>1, StatusKeeps
<1>3. \/ support' = s
      \/ m \in DOMAIN s.records /\ support' = [s EXCEPT !.records[m].lifecycle = "none"]
  BY DEF CancelLine, Exists
<1> HIDE DEF s, m
<1>4. CASE support' = s
  BY <1>2, <1>4
<1>5. CASE m \in DOMAIN s.records /\ support' = [s EXCEPT !.records[m].lifecycle = "none"]
  <2>1. SupportInv([s EXCEPT !.records[m].lifecycle = "none"])
    BY <1>2, <1>5, LifecycleKeeps
  <2> QED
    BY <1>5, <2>1
<1> QED
  BY <1>3, <1>4, <1>5

(* A successor takes over the licenses of the record it renews.             *)
LEMMA SuccessorKeeps ==
    ASSUME NEW s, SupportInv(s), NEW r \in Record, r.parents = {},
           NEW m \in DOMAIN s.records, NEW ps \in SUBSET DOMAIN s.parents
    PROVE  LET t == AddRecord(s, r)
               marked == [t EXCEPT !.records[m] = [@ EXCEPT !.lifecycle = "renewed", !.to = t.made]]
           IN SupportInv(LinkOrActivate(marked, t.made, ps))
<1> DEFINE t == AddRecord(s, r)
           old == [t.records[m] EXCEPT !.lifecycle = "renewed", !.to = t.made]
           marked == [t EXCEPT !.records[m] = old]
<1>1. /\ SupportInv(t) /\ t.made \in DOMAIN t.records /\ DOMAIN t.parents = DOMAIN s.parents
      /\ m \in DOMAIN t.records
  BY AddKeeps
<1> HIDE DEF t
<1>2. t.records[m] \in Record /\ t.made \in Nat
  BY <1>1, Parts DEF SupportInv
<1>3. old \in Record /\ old.parents = t.records[m].parents
  BY <1>2 DEF Record
<1> HIDE DEF old
<1>4. /\ SupportInv(marked) /\ DOMAIN marked.records = DOMAIN t.records /\ marked.parents = t.parents
  BY <1>1, <1>3, EditKeeps
<1> HIDE DEF marked
<1>5. SupportInv(LinkOrActivate(marked, t.made, ps))
  BY <1>1, <1>4, LinkOrActivateKeeps
<1> QED
  BY <1>5 DEF marked, old, t

LEMMA ConvertKeeps ==
    ASSUME SupportInv(support), NEW i, ConvertLine(i)
    PROVE  SupportInv(support')
<1> DEFINE l == support.lines[i]
           old == support.records[l.renews]
           done == [support EXCEPT !.lines[i].status = "converted"]
           First(term) == [NewRecord EXCEPT !.term = term, !.source = i, !.primary = l.parent]
           Renewing(term) == [NewRecord EXCEPT !.term = term, !.source = i, !.primary = old.primary]
           known == ({old.primary} \cup old.parents) \cap DOMAIN support.parents
<1>1. i \in DOMAIN support.lines /\ i \in Nat /\ l \in Line
  <2>1. i \in DOMAIN support.lines
    BY DEF ConvertLine
  <2> QED
    BY <2>1, Parts DEF SupportInv
<1>2. /\ SupportInv(done) /\ done.records = support.records /\ done.parents = support.parents
  BY <1>1, StatusKeeps
<1>3. PICK term \in Terms :
        \/ /\ l.renews = Null
           /\ LET s == AddRecord(done, First(term))
              IN support' = IF Exists(s.parents, l.parent)
                            THEN LinkOrActivate(s, s.made, {l.parent}) ELSE s
        \/ /\ Exists(support.records, l.renews) /\ old.to = Null
           /\ LET s == AddRecord(done, Renewing(term))
                  marked == [s EXCEPT !.records[l.renews] = [@ EXCEPT !.lifecycle = "renewed", !.to = s.made]]
              IN support' = LinkOrActivate(marked, s.made, known)
  BY DEF ConvertLine
<1> HIDE DEF done
<1>4. ASSUME l.renews = Null,
             LET s == AddRecord(done, First(term))
             IN support' = IF Exists(s.parents, l.parent)
                           THEN LinkOrActivate(s, s.made, {l.parent}) ELSE s
      PROVE  SupportInv(support')
  <2>1. First(term) \in Record /\ First(term).parents = {}
    BY <1>1, NewRecords DEF Line
  <2> DEFINE r == First(term)
             s == AddRecord(done, r)
  <2>2. support' = IF Exists(s.parents, l.parent) THEN LinkOrActivate(s, s.made, {l.parent}) ELSE s
    BY <1>4
  <2> HIDE DEF r, l
  <2>3. SupportInv(s) /\ s.parents = done.parents
    BY <1>2, <2>1, AddKeeps DEF r
  <2>4. CASE l.parent \in DOMAIN done.parents
    <3>1. {l.parent} \in SUBSET DOMAIN done.parents
      BY <2>4
    <3>2. SupportInv(LinkOrActivate(s, s.made, {l.parent}))
      BY <1>2, <2>1, <3>1, AddLinkedKeeps DEF r
    <3> QED
      BY <2>2, <2>3, <2>4, <3>2 DEF Exists
  <2>5. CASE l.parent \notin DOMAIN done.parents
    BY <2>2, <2>3, <2>5 DEF Exists
  <2> QED
    BY <2>4, <2>5
<1>5. ASSUME Exists(support.records, l.renews),
             LET s == AddRecord(done, Renewing(term))
                 marked == [s EXCEPT !.records[l.renews] = [@ EXCEPT !.lifecycle = "renewed", !.to = s.made]]
             IN support' = LinkOrActivate(marked, s.made, known)
      PROVE  SupportInv(support')
  <2>1. l.renews \in DOMAIN done.records /\ old \in Record
    BY <1>2, <1>5, Parts DEF Exists, SupportInv
  <2>2. known \in SUBSET DOMAIN done.parents
    BY <1>2
  <2>3. Renewing(term) \in Record /\ Renewing(term).parents = {}
    BY <1>1, <2>1, NewRecords DEF Record
  <2> HIDE DEF known, Renewing, old, l
  <2>4. LET s == AddRecord(done, Renewing(term))
            marked == [s EXCEPT !.records[l.renews] = [@ EXCEPT !.lifecycle = "renewed", !.to = s.made]]
        IN SupportInv(LinkOrActivate(marked, s.made, known))
    BY <1>2, <2>1, <2>2, <2>3, SuccessorKeeps
  <2> QED
    BY <1>5, <2>4
<1> QED
  BY <1>3, <1>4, <1>5

LEMMA LinksKeep ==
    ASSUME SupportInv(support), NEW p \in Parents, NEW m, CreateRecord(p) \/ LinkExisting(p, m)
    PROVE  SupportInv(support')
<1>1. p \in DOMAIN support.parents /\ {p} \in SUBSET DOMAIN support.parents
  BY DEF CreateRecord, LinkExisting, Exists
<1>2. CASE CreateRecord(p)
  <2>1. PICK term \in Terms :
          LET s == AddRecord(support, [NewRecord EXCEPT !.term = term, !.primary = p])
          IN support' = LinkOrActivate(s, s.made, {p})
    BY <1>2 DEF CreateRecord
  <2> DEFINE r == [NewRecord EXCEPT !.term = term, !.primary = p]
  <2>2. r \in Record /\ r.parents = {}
    BY NewRecords
  <2> HIDE DEF r
  <2>3. LET s == AddRecord(support, r) IN SupportInv(LinkOrActivate(s, s.made, {p}))
    BY <1>1, <2>2, AddLinkedKeeps
  <2> QED
    BY <2>1, <2>3 DEF r
<1>3. CASE LinkExisting(p, m)
  BY <1>1, <1>3, LinkOrActivateKeeps DEF LinkExisting, Exists
<1> QED
  BY <1>2, <1>3

LEMMA SupportStep ==
    ASSUME SupportInv(support), Next
    PROVE  SupportInv(support')
<1>1. ASSUME NEW p \in Parents, DeleteParent(p)
      PROVE  SupportInv(support')
  BY <1>1, DropKeeps DEF DeleteParent
<1>2. ASSUME NEW m, DeleteRecord(m)
      PROVE  SupportInv(support')
  BY <1>2, DropKeeps DEF DeleteRecord
<1>3. PICK p : \/ /\ p \in Parents
                  /\ \/ CreateRecord(p) \/ Disable(p) \/ ChangeCoverage(p) \/ EditIncluded(p)
                     \/ DeleteParent(p) \/ StartSupportRenewal(p)
                     \/ \E m \in 1..MaxRecords : LinkExisting(p, m)
               \/ EditRecordTerm(p) \/ RetireRecord(p) \/ DeleteRecord(p) \/ StartRecordRenewal(p)
               \/ CancelLine(p) \/ ConvertLine(p)
  BY DEF Next
<1>4. CASE /\ p \in Parents
           /\ \/ CreateRecord(p) \/ Disable(p) \/ ChangeCoverage(p) \/ EditIncluded(p)
              \/ DeleteParent(p) \/ StartSupportRenewal(p)
              \/ \E m \in 1..MaxRecords : LinkExisting(p, m)
  BY <1>1, <1>4, LinksKeep, DisableKeeps, CoverageKeeps, EditIncludedKeeps, RenewalsKeep
<1>5. CASE EditRecordTerm(p) \/ RetireRecord(p) \/ DeleteRecord(p) \/ StartRecordRenewal(p)
  BY <1>2, <1>5, RecordEditsKeep, RenewalsKeep
<1>6. CASE CancelLine(p) \/ ConvertLine(p)
  BY <1>6, CancelLineKeeps, ConvertKeeps
<1> QED
  BY <1>3, <1>4, <1>5, <1>6

-----------------------------------------------------------------------------
(* A store is a store in every state, and its links agree.                  *)
LEMMA SupportIsKept == Spec => []SupportInv(support)
<1>1. SupportInv(support) /\ [Next]_support => SupportInv(support)'
  BY SupportStep
<1> QED
  BY <1>1, SupportStart, PTL DEF Spec

(* Records and licenses have ids that were handed out, and the active       *)
(* record of a license one of them: deleting a record keeps its id in use.  *)
THEOREM SupportIsTyped == Spec => []TypeOK
<1>1. SupportInv(support) => TypeOK
  BY Parts DEF SupportInv, IdsWereMade, TypeOK
<1> QED
  BY <1>1, SupportIsKept, PTL

(* Linking, disabling, conversion and the daily hand-over write each end of *)
(* a support link by itself, and both ends agree after every request.       *)
THEOREM BothEndsOfSupportAgree == Spec => []SupportLinksAgree
<1>1. SupportInv(support) => SupportLinksAgree
  BY DEF SupportInv, LinksAgree, Agrees, SupportLinksAgree
<1> QED
  BY <1>1, SupportIsKept, PTL

=============================================================================
