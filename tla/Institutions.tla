---------------------------- MODULE Institutions ----------------------------
(***************************************************************************)
(* Who publishes a document and who buys (domain/institutions.py): a name  *)
(* is taken apart and resolved against the table of local governments, a   *)
(* provider's code keeps its own institution, and the ingest processes     *)
(* store such institutions in the database and keep them in the registry   *)
(* each has in its memory (pipeline/ingest.py resolve_institution).        *)
(*                                                                         *)
(* A name is the sequence of its words, a word what the expressions find   *)
(* in it.  The fuzzy match of rapidfuzz is external: it may offer anybody  *)
(* who is Similar, or nobody.                                              *)
(***************************************************************************)
EXTENDS Integers, Sequences, SequencesExt, FiniteSets

CONSTANTS Curated,   \* the institutions of the CSV: [code, kind, sido, place, aliases]
          Syllables, \* of the places: how long their names are
          Districts, \* the places that are a 구
          Process,   \* workers and command lines that ingest
          Published, \* what providers list: [name, provider], provider 0 without a code
          Similar(_, _), \* whom the fuzzy match may offer for a name
          MaxAborts  \* bound: transactions that fail, processes that start again

ASSUME InstitutionsAssumption ==
  /\ IsFiniteSet(Curated) /\ \A i, j \in Curated : i.code = j.code => i = j
  /\ \A i \in Curated :
       /\ i.code.by = "table" /\ i.sido # "none"
       /\ i.kind \in {"local_gov", "council", "education_office", "public_agency", "central"}
  /\ Districts \subseteq DOMAIN Syllables /\ MaxAborts \in Nat

(***************************************************************************)
(* parse_name.  A word: [alias, holds, place, dept, body, council,         *)
(* education, soldiers, nobody]: the 시도 it is, or has written in it, the *)
(* 시군구 it ends in, the department it is or ends in, and so on; "none"   *)
(* for what is not there.                                                  *)
(***************************************************************************)
Has(x) == x # "none"
SidoIn(name) ==
  LET with == {n \in 1 .. Len(name) : Has(name[n].holds)}
  IN IF with = {} THEN "none" ELSE name[Min(with)].holds
IsCouncil(name) == \E n \in 1 .. Len(name) : name[n].council
IsEducation(name) == \E n \in 1 .. Len(name) : name[n].education
IsOwnBody(name) == \E n \in 1 .. Len(name) : name[n].body

\* "경기도 광주시" is a 시 in 경기도; a department is no place.
ReadWord(parsed, w, sido) ==
  IF w.soldiers THEN parsed
  ELSE IF Has(w.alias)
  THEN IF w.alias # sido /\ Has(w.place) /\ ~Has(parsed.place) THEN [parsed EXCEPT !.place = w.place] ELSE parsed
  ELSE IF Has(w.dept) /\ ~Has(w.place)
  THEN IF Has(parsed.dept) THEN parsed ELSE [parsed EXCEPT !.dept = w.dept, !.deptIsBody = w.body]
  ELSE IF Has(w.place) /\ ~Has(parsed.place) THEN [parsed EXCEPT !.place = w.place] ELSE parsed

LeadingSido(name) == IF name = <<>> THEN "none" ELSE Head(name).alias

IsSidoOnly(name) ==
  /\ Has(SidoIn(name)) /\ LeadingSido(name) = SidoIn(name)
  /\ \A n \in 2 .. Len(name) : ~name[n].body /\ (Has(name[n].alias) => name[n].alias = SidoIn(name))

ParseName(name) ==
  FoldLeft(LAMBDA parsed, w : ReadWord(parsed, w, SidoIn(name)),
           [place |-> "none", dept |-> "none", deptIsBody |-> FALSE], name)

LooksLikeLocalGovernment(name) ==
  ~IsOwnBody(name) /\ (Has(ParseName(name).place) \/ IsSidoOnly(name) \/ IsCouncil(name))

NamesNoInstitution(name) == \E n \in 1 .. Len(name) : name[n].nobody

(***************************************************************************)
(* InstitutionRegistry.  known: the provider's institutions in the order   *)
(* they were added.  Of two with one name the first has it, and none takes *)
(* a name of the table's.                                                  *)
(***************************************************************************)
Coded(provider) == provider # 0
OwnCode(provider) == [by |-> "provider", id |-> provider]
IsOwn(code) == code.by = "provider"

TableAlias(name) == {i.code : i \in {c \in Curated : name \in c.aliases}}
CodeOfName(known, name) ==
  LET named == {n \in 1 .. Len(known) : known[n].name = name}
  IN IF TableAlias(name) # {} THEN TableAlias(name)
     ELSE IF named = {} THEN {} ELSE {known[Min(named)].code}
Knows(known, code) == \E n \in 1 .. Len(known) : known[n].code = code

Resolution(code, method) == [code |-> code, method |-> method]
NoCode == [by |-> "nobody", id |-> 0]
Unresolved == Resolution(NoCode, "none")
Ambiguous == Resolution(NoCode, "ambiguous")

WantedKind(name) == IF IsCouncil(name) THEN "council" ELSE "local_gov"

\* The institutions a 시군구 may mean, within the 시도 that the name says.
PoolOf(name) ==
  LET all == {i \in Curated : i.place = ParseName(name).place}
      wanted == {i \in all : i.kind = WantedKind(name)}
      pool == IF wanted = {} THEN all ELSE wanted
  IN IF Has(SidoIn(name)) THEN {i \in pool : i.sido = SidoIn(name)} ELSE pool

SidoLevel(name) ==
  {i \in Curated : ~Has(i.place) /\ i.sido = SidoIn(name) /\ i.kind = WantedKind(name)}

\* A 구 that differs from the name's in more than a misread syllable.
OtherDistrict(a, b) ==
  /\ {a, b} \subseteq Districts /\ a # b
  /\ Syllables[a] # Syllables[b] \/ Syllables[a] = 2

\* mutant: a body that carries a place's name may be taken for the place
MisreadOnly(name, i) == OtherDistrict(ParseName(name).place, i.place)
FuzzyRefused(name, i) ==
  \/ IsOwnBody(name) /\ i.kind \in {"local_gov", "council"}
  \/ ParseName(name).deptIsBody
  \/ Has(LeadingSido(name)) /\ i.sido # LeadingSido(name)
  \/ OtherDistrict(ParseName(name).place, i.place)

Fuzzy(name) == {Unresolved} \cup {Resolution(i.code, "fuzzy") : i \in {c \in Curated : Similar(name, c) /\ ~FuzzyRefused(name, c)}}

\* What is found by the name's parts; several results where the match is fuzzy.
ByParts(name, hint) ==
  LET pool == PoolOf(name)
      narrowed == {i \in pool : i.sido = (IF Has(SidoIn(name)) THEN SidoIn(name) ELSE hint)}
      Only(insts, method) == {Resolution(i.code, method) : i \in insts}
  IN IF Has(ParseName(name).place) /\ ~IsOwnBody(name) /\ pool # {}
     THEN IF Cardinality(pool) = 1 THEN Only(pool, "exact")
          ELSE IF Cardinality(narrowed) = 1 THEN Only(narrowed, "context") ELSE {Ambiguous}
     ELSE IF /\ ~Has(ParseName(name).place) \/ IsOwnBody(name)
             /\ IsSidoOnly(name) /\ ~IsEducation(name) /\ ~IsOwnBody(name)
             /\ Cardinality(SidoLevel(name)) = 1
     THEN Only(SidoLevel(name), "exact")
     ELSE Fuzzy(name)

\* mutant: a record takes the institution that has its name first
AnyOfName(known, name, provider) == CodeOfName(known, name)
\* Two codes of the provider with one name: each record keeps its own code's.
ByName(known, name, provider) ==
  {c \in CodeOfName(known, name) : IsOwn(c) /\ Coded(provider) => c = OwnCode(provider)}

Resolve(known, name, hint, provider) ==
  IF Coded(provider) /\ Knows(known, OwnCode(provider)) /\ ~(name # <<>> /\ LooksLikeLocalGovernment(name))
  THEN {Resolution(OwnCode(provider), "code")}
  ELSE IF name = <<>> THEN {Unresolved}
  ELSE IF ByName(known, name, provider) # {}
  THEN {Resolution(c, "exact") : c \in ByName(known, name, provider)}
  ELSE ByParts(name, hint)

(***************************************************************************)
(* Ingest.  A document's row names its institution (a foreign key), and a  *)
(* provider's institution is stored with the first document that needs it. *)
(***************************************************************************)
VARIABLES table,    \* the provider's institutions that are committed
          known,    \* of a process: the provider's institutions in its registry
          inserted, \* of a process: rows of institutions its transaction has inserted
          written,  \* of a process: [doc, code] that its transaction has written
          todo,     \* of a process: what `pipeline reresolve` has left to do
          filed,    \* of a published record: the institution of its committed row
          aborts

instVars == <<table, known, inserted, written, todo, filed, aborts>>

Unfiled == [by |-> "unfiled", id |-> 0]

InstitutionsInit ==
  /\ table = {} /\ aborts = 0 /\ filed = [d \in Published |-> Unfiled]
  /\ known = [w \in Process |-> <<>>] /\ todo = [w \in Process |-> {}]
  /\ inserted = [w \in Process |-> {}] /\ written = [w \in Process |-> {}]

InTable(w) == table \cup inserted[w]
CodeIds == {d.provider : d \in Published} \ {0}

\* _load_provider_institution_named: the lowest code of that name.
LoadedByName(w, d) ==
  {i \in InTable(w) : i.name = d.name /\ \A j \in InTable(w) : j.name = d.name => i.code.id <= j.code.id}

\* What a process knows when it resolves a record's name.
Registry(w, d) ==
  IF \/ Coded(d.provider) \/ d.name = <<>> \/ CodeOfName(known[w], d.name) # {}
     \/ LoadedByName(w, d) = {}
  THEN known[w]
  ELSE Append(known[w], CHOOSE i \in LoadedByName(w, d) : TRUE)

\* A coded record that the table cannot place is an institution of its own.
IsNew(d, method) ==
  /\ method = "none" /\ Coded(d.provider) /\ d.name # <<>>
  /\ ~LooksLikeLocalGovernment(d.name) /\ ~NamesNoInstitution(d.name)

\* provider_institution, unless a row with the code is there: that row wins.
ProviderRow(w, d) ==
  LET stored == {i \in InTable(w) : i.code = OwnCode(d.provider)}
  IN IF stored = {} THEN [code |-> OwnCode(d.provider), name |-> d.name] ELSE CHOOSE i \in stored : TRUE

\* A row that another transaction has written is waited for.
IsLocked(w, d) ==
  \E v \in Process \ {w} :
    \/ \E x \in written[v] : x.doc = d
    \/ \E i \in inserted[v] : i.code = OwnCode(d.provider)

Write(w, d, code) ==
  written' = [written EXCEPT ![w] = {x \in @ : x.doc # d} \cup {[doc |-> d, code |-> code]}]

\* The foreign key of documents.institution_code.
IsReal(w, code) == IsOwn(code) => \E i \in InTable(w) : i.code = code

\* The transaction is gone, the registry stays as it is.
RollBackIngest(w) ==
  /\ inserted' = [inserted EXCEPT ![w] = {}] /\ written' = [written EXCEPT ![w] = {}]
  /\ todo' = [todo EXCEPT ![w] = {}]

\* resolve_institution, and the row of the document with its result.
File(w, d, left) ==
  /\ ~IsLocked(w, d)
  /\ \E r \in Resolve(Registry(w, d), d.name, "none", d.provider) :
       IF IsNew(d, r.method)
       THEN /\ inserted' = [inserted EXCEPT ![w] = @ \cup ({ProviderRow(w, d)} \ table)]
            /\ known' = [known EXCEPT ![w] = Append(Registry(w, d), ProviderRow(w, d))]
            /\ Write(w, d, OwnCode(d.provider)) /\ todo' = [todo EXCEPT ![w] = left]
       ELSE /\ known' = [known EXCEPT ![w] = Registry(w, d)]
            /\ IF IsReal(w, r.code)
               THEN /\ Write(w, d, r.code) /\ todo' = [todo EXCEPT ![w] = left]
                    /\ UNCHANGED inserted
               ELSE RollBackIngest(w)
  /\ UNCHANGED <<table, filed, aborts>>

\* upsert_record: a new record, or one whose content has changed.
Ingest(w, d) == todo[w] = {} /\ File(w, d, {})

CommitIngest(w) ==
  /\ written[w] # {} /\ todo[w] = {}
  /\ table' = InTable(w)
  /\ filed' = [d \in Published |->
       IF \E x \in written[w] : x.doc = d THEN (CHOOSE x \in written[w] : x.doc = d).code ELSE filed[d]]
  /\ inserted' = [inserted EXCEPT ![w] = {}] /\ written' = [written EXCEPT ![w] = {}]
  /\ UNCHANGED <<known, todo, aborts>>

\* Any later record of the run fails.
AbortIngest(w) ==
  /\ written[w] # {} /\ aborts < MaxAborts /\ aborts' = aborts + 1
  /\ RollBackIngest(w) /\ UNCHANGED <<table, known, filed>>

\* A new process has the CSV only.
RestartIngest(w) ==
  /\ aborts < MaxAborts /\ aborts' = aborts + 1
  /\ known' = [known EXCEPT ![w] = <<>>]
  /\ RollBackIngest(w) /\ UNCHANGED <<table, filed>>

\* reresolve_institutions: all that has no institution, names with a code first.
StartReresolve(w) ==
  /\ written[w] = {} /\ todo[w] = {}
  /\ todo' = [todo EXCEPT ![w] = {d \in Published : filed[d] = NoCode}]
  /\ UNCHANGED <<table, known, inserted, written, filed, aborts>>
Reresolve(w) ==
  \E d \in todo[w] :
    /\ Coded(d.provider) \/ \A x \in todo[w] : ~Coded(x.provider)
    /\ File(w, d, todo[w] \ {d})

InstitutionsNext ==
  \E w \in Process :
    \/ CommitIngest(w) \/ AbortIngest(w) \/ RestartIngest(w) \/ StartReresolve(w) \/ Reresolve(w)
    \/ \E d \in Published : Ingest(w, d)

InstitutionsSpec == InstitutionsInit /\ [][InstitutionsNext]_instVars

(***************************************************************************)
(* Properties.                                                             *)
(***************************************************************************)
ProviderRows == {[code |-> OwnCode(d.provider), name |-> d.name] : d \in {x \in Published : Coded(x.provider)}}
Codes == {NoCode} \cup {i.code : i \in Curated} \cup {OwnCode(id) : id \in CodeIds}

\* Rows, registries and documents hold institutions the data can name.
InstitutionsTypeOK ==
  /\ table \subseteq ProviderRows /\ filed \in [Published -> Codes \cup {Unfiled}] /\ aborts \in 0 .. MaxAborts
  /\ known \in [Process -> Seq(ProviderRows)] /\ inserted \in [Process -> SUBSET ProviderRows]
  /\ written \in [Process -> SUBSET [doc : Published, code : Codes]]
  /\ todo \in [Process -> SUBSET Published]

\* A name is never guessed: a 시군구 that several 시도 have is ambiguous until
\* the name or the context says which, a body of its own is not the place that
\* it is named after, and nothing that starts with a 시도 lies in another one
\* (resolve, and the fuzzy match it refuses).
ResolvedRight(name, hint) ==
  LET place == ParseName(name).place
      sido == IF Has(SidoIn(name)) THEN SidoIn(name) ELSE hint
      Homonyms == {i \in Curated : i.place = place /\ i.kind = WantedKind(name)}
  IN \A r \in Resolve(<<>>, name, hint, 0) : TableAlias(name) = {} =>
       /\ IsOwnBody(name) \/ ~Has(place) \/ Has(sido) \/ Cardinality(Homonyms) < 2 \/ r = Ambiguous
       /\ \A i \in Curated : i.code = r.code =>
            /\ IsOwnBody(name) => i.kind \notin {"local_gov", "council"}
            /\ Has(LeadingSido(name)) => i.sido = LeadingSido(name)
            /\ i.place = place \/ r.method = "fuzzy" \/ ~Has(place)

\* A record that comes with a code is filed under that code or under a local
\* government of the table, and no local government becomes a second institution
\* by its code, whatever process stored what first (resolve_institution).
FiledRight ==
  /\ \A d \in Published : IsOwn(filed[d]) =>
       IF Coded(d.provider) THEN filed[d] = OwnCode(d.provider)
       ELSE \E i \in table : i.code = filed[d] /\ i.name = d.name
  /\ \A i \in table : ~LooksLikeLocalGovernment(i.name)
  /\ \A i, j \in table : i.code = j.code => i = j

\* What the code says of the registry (ingest.py): it holds, beside the CSV,
\* only what is stored.
KnownIsStored ==
  \A w \in Process : \A n \in 1 .. Len(known[w]) : known[w][n] \in InTable(w)
=============================================================================
