--------------------------- MODULE MCInstitutions ---------------------------
(* Two 중구, a 구 whose name holds another 시도, a 시 with the name of a 시도. *)
EXTENDS Institutions

PlainWord == [alias |-> "none", holds |-> "none", place |-> "none", dept |-> "none",
          body |-> FALSE, council |-> FALSE, education |-> FALSE, soldiers |-> FALSE, nobody |-> FALSE]
Seoul == [PlainWord EXCEPT !.alias = "Seoul", !.holds = "Seoul"]
Gyeonggi == [PlainWord EXCEPT !.alias = "Gyeonggi", !.holds = "Gyeonggi"]
Gwangju == [PlainWord EXCEPT !.alias = "Gwangju", !.holds = "Gwangju", !.place = "Gwangju-si"]
Jung == [PlainWord EXCEPT !.place = "Jung"]
JungCouncil == [Jung EXCEPT !.council = TRUE]
SeoulJung == [Jung EXCEPT !.holds = "Seoul"]
Haeundae == [PlainWord EXCEPT !.place = "Haeundae", !.holds = "Daegu"]
Section == [PlainWord EXCEPT !.dept = "section"]
Corporation == [PlainWord EXCEPT !.dept = "corporation", !.body = TRUE]
School == [PlainWord EXCEPT !.body = TRUE]
Education == [PlainWord EXCEPT !.education = TRUE]
Anyone == [PlainWord EXCEPT !.nobody = TRUE]
Sinan == [PlainWord EXCEPT !.place = "Sinan"]
Words == {Seoul, Gyeonggi, Gwangju, Jung, JungCouncil, SeoulJung, Haeundae, Section, Corporation, School, Education}
Names == UNION {[1 .. n -> Words] : n \in 1 .. 3}

Inst(id, kind, sido, place, aliases) ==
  [code |-> [by |-> "table", id |-> id], kind |-> kind, sido |-> sido, place |-> place, aliases |-> aliases]
MCCurated ==
  {Inst(1, "local_gov", "Seoul", "none", {<<Seoul>>}),
   Inst(2, "local_gov", "Seoul", "Jung", {<<Seoul, Jung>>}),
   Inst(3, "council", "Seoul", "Jung", {<<Seoul, JungCouncil>>}),
   Inst(4, "local_gov", "Busan", "Jung", {}),
   Inst(5, "local_gov", "Busan", "Haeundae", {<<Haeundae>>}),
   Inst(6, "local_gov", "Gyeonggi", "Gwangju-si", {<<Gyeonggi, Gwangju>>}),
   Inst(7, "education_office", "Gyeonggi", "none", {<<Gyeonggi, Education>>}),
   Inst(8, "public_agency", "Gyeonggi", "none", {})}
MCSyllables == [p \in {"Jung", "Haeundae", "Gwangju-si", "Sinan"} |-> IF p = "Jung" THEN 2 ELSE 4]
MCPublished ==
  {[name |-> <<School>>, provider |-> p] : p \in 0 .. 2}
  \cup {[name |-> <<Sinan>>, provider |-> 3]}
MCSimilar(name, i) == Len(name) > 1 \/ name[1] \in Words \ {School}
=============================================================================
