------------------------------- MODULE Records -------------------------------
(***************************************************************************)
(* What the adapters make of what the providers send: an item of the       *)
(* procurement services (sources/g2b.py, base.py), a post of a board and   *)
(* its attachments (sources/crawler.py); and by which numbers the signals  *)
(* made of them meet (pipeline/process.py, link.py).                       *)
(*                                                                         *)
(* A number is [core, shape, order]: its shape is "new" (R, year, kind,    *)
(* eight digits) or "old", and order says that three digits of an order    *)
(* are appended.  A field is the sequence of its values under the names it *)
(* may have; None and NoSum stand for missing, "" and " ".                 *)
(***************************************************************************)
EXTENDS Integers, Sequences, SequencesExt, FiniteSets

CONSTANTS MinAmount, \* MIN_AMOUNT_KRW
          PostParam, \* id_param: the query parameter that names a post
          MaxFile    \* max_bytes

ASSUME RecordsAssumption == MinAmount \in Nat \ {0} /\ MaxFile \in Nat

None == "none"
NoSum == -1
NoNumber == [core |-> None, shape |-> "old", order |-> FALSE]

Pick(fields, absent) ==
  LET there == SelectSeq(fields, LAMBDA v : v # absent)
  IN IF there = <<>> THEN absent ELSE Head(there)
PickNumber(fields) == Pick(fields, NoNumber)

\* A placeholder falls through to the next name.
Amount(fields) == Pick([n \in DOMAIN fields |-> IF fields[n] < MinAmount THEN NoSum ELSE fields[n]], NoSum)

\* A date as it comes: how many digits, and whether the calendar has it.  A month
\* that does not exist raises, and the run with it: none of digits 6 is one.
ParseCompactDate(v) == v.digits = 6 \/ (v.digits >= 8 /\ v.real)

\* mutant: numbers are compared as they come
KeptWhole(number) == number
TrimmedOrder(number) == IF number.shape = "new" THEN [number EXCEPT !.order = FALSE] ELSE number

BidNumbers(list) == {TrimmedOrder(number) : number \in ToSet(list)} \ {NoNumber}

\* The rows of an answer, and how many there are in all: what is under "items" is
\* a list, or a dict around a list or around one row; odd rows are left out.
ItemsOf(payload) ==
  [rows  |-> SelectSeq(payload.items, LAMBDA i : i # None),
   total |-> IF payload.total > 0 THEN payload.total ELSE Len(payload.items)]

\* map_item: what has no number, title or date is unusable.
Usable(item) == PickNumber(item.ids) # NoNumber /\ Pick(item.titles, None) # None /\ ParseCompactDate(item.date)

\* A missing order is the first.
OrderOf(item) == IF item.ord = None THEN "000" ELSE item.ord

MapItem(docType, item) ==
  LET id == PickNumber(item.ids)
  IN [docType |-> docType,
      ext     |-> <<id, IF docType = "bid_notice" THEN OrderOf(item) ELSE None>>,
      amount  |-> Amount(item.amounts),
      planNo  |-> IF docType = "order_plan" THEN id ELSE item.planNo,
      specNo  |-> CASE docType = "prespec"    -> id
                    [] docType = "bid_notice" -> item.specNo
                    [] docType = "order_plan" -> NoNumber,
      bidNo   |-> IF docType = "bid_notice" THEN id ELSE NoNumber,
      bidNos  |-> IF docType = "bid_notice" THEN {} ELSE BidNumbers(item.bidList),
      cancels |-> docType = "bid_notice" /\ item.kind = "cancel"]

(***************************************************************************)
(* _structured_signal and _reference_match: by a plan's or a              *)
(* prespecification's number, or by a notice's, given or listed.           *)
(***************************************************************************)
SameRef(a, b) == a # NoNumber /\ a = b
Meets(r, s) ==
  \/ SameRef(r.planNo, s.planNo) \/ SameRef(r.specNo, s.specNo) \/ SameRef(r.bidNo, s.bidNo)
  \/ r.bidNo \in s.bidNos \/ s.bidNo \in r.bidNos

(***************************************************************************)
(* The boards.  A link is [url, file, name], a URL [path, query].          *)
(***************************************************************************)
\* Rows that link to a post; the title is the text of the first such link.
ParseBoardRows(rows) ==
  LET LinkOf(row) == SelectSeq(row.links, LAMBDA link : link.detail /\ link.text # None)
      posts == SelectSeq(rows, LAMBDA row : LinkOf(row) # <<>>)
  IN [n \in DOMAIN posts |->
        [title |-> Head(LinkOf(posts[n])).text, url |-> Head(LinkOf(posts[n])).url, posted |-> posts[n].date]]

\* robots: what the host answered for robots.txt.
Allowed(robots, url) == robots = "missing" \/ (robots = "rules" /\ url.path # "private")

CanonicalUrl(url) ==
  [url EXCEPT !.query = [p \in DOMAIN url.query \cap {PostParam} |-> url.query[p]]]

PostId(url) ==
  IF PostParam \in DOMAIN url.query THEN [url |-> None, id |-> url.query[PostParam]]
  ELSE [url |-> CanonicalUrl(url).path, id |-> None]

SniffMime(file) ==
  CASE file.magic = "%PDF" -> "pdf"
    [] file.magic = "OLE2" -> "hwp"
    [] file.magic = "PK"   -> IF file.sections THEN "hwpx" ELSE None
    [] OTHER               -> None

\* What the title says of a budget book: its year, and which budget it is.
BudgetTitleFacts(title) ==
  [year |-> title.year,
   kind |-> CASE "supplement" \in title.words -> IF "first" \in title.words THEN "first supplement" ELSE "supplement"
              [] "supplement" \notin title.words /\ "book" \in title.words -> "main"
              [] OTHER -> None]

\* Download links, each URL once.
FirstOfUrl(links, n) == \A m \in 1 .. n - 1 : links[m].url # links[n].url
ParseAttachments(links) ==
  LET found == SelectSeq(links, LAMBDA link : link.download \/ link.named)
      once == SelectSeq([n \in DOMAIN found |-> n], LAMBDA n : FirstOfUrl(found, n))
  IN [n \in DOMAIN once |-> found[once[n]]]

Readable(robots, link) ==
  Allowed(robots, link.url) /\ link.file.size <= MaxFile /\ SniffMime(link.file) # None

\* The documents of a post: its id alone when there is one, numbered when there
\* are several.
CrawlPost(robots, post, title, links) ==
  LET readable == SelectSeq(ParseAttachments(links), LAMBDA link : Readable(robots, link))
  IN [n \in DOMAIN readable |->
        [ext |-> <<PostId(post), IF Len(readable) = 1 THEN 0 ELSE n>>, mime |-> SniffMime(readable[n].file),
         url |-> CanonicalUrl(post), from |-> readable[n].url, facts |-> BudgetTitleFacts(title)]]

(***************************************************************************)
(* Properties.                                                             *)
(***************************************************************************)
\* A plan or prespecification that lists a notice's number meets the notice,
\* whether or not an order is appended to the number; numbers that are not of
\* today's shape meet only as they stand, and other purchases never meet.
ListedMeets(listing, notice) ==
  LET r == MapItem("order_plan", listing)
      s == MapItem("bid_notice", notice)
      Same(a, b) == a.core = b.core /\ a.shape = b.shape /\ (a.shape = "new" \/ a.order = b.order)
  IN (Usable(listing) /\ Usable(notice)) =>
       /\ Meets(r, s) <=> \/ \E n \in DOMAIN listing.bidList : Same(listing.bidList[n], PickNumber(notice.ids))
                          \/ SameRef(PickNumber(listing.ids), notice.planNo)
       /\ Meets(r, s) <=> Meets(s, r)

\* A budget is real money, and real money under any name is found.
AmountIsReal(item) ==
  LET amount == MapItem("bid_notice", item).amount
  IN /\ amount # NoSum => amount >= MinAmount /\ amount \in ToSet(item.amounts)
     /\ (\E v \in ToSet(item.amounts) : v >= MinAmount) => amount # NoSum

\* Two orders of one notice are two documents about one purchase.
OrdersApart(a, b) ==
  LET r == MapItem("bid_notice", a)
      s == MapItem("bid_notice", b)
  IN PickNumber(a.ids) = PickNumber(b.ids) /\ PickNumber(a.ids) # NoNumber =>
       Meets(r, s) /\ (r.ext = s.ext <=> OrderOf(a) = OrderOf(b))

\* Every file of a post that may be read is one document under an id of its own,
\* the same whatever session the links belong to.
FilesKept(robots, post, again, title, links) ==
  LET docs == CrawlPost(robots, post, title, links)
      later == CrawlPost(robots, again, title, links)
      readable == {link \in ToSet(links) : (link.download \/ link.named) /\ Readable(robots, link)}
  IN /\ {docs[n].from : n \in DOMAIN docs} = {link.url : link \in readable}
     /\ IsInjective([n \in DOMAIN docs |-> docs[n].ext])
     /\ {d.ext : d \in ToSet(docs)} = {d.ext : d \in ToSet(later)}
     /\ Len(docs) = 1 => docs[1].ext = <<PostId(post), 0>>
=============================================================================
