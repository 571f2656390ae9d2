----------------------------- MODULE MCRelease -----------------------------
(* A build and its successor, one that edited an applied migration and one *)
(* with two files of one version.                                          *)
EXTENDS Release

MCFile(v, s) == [version |-> v, sum |-> s]
MCFiles ==
  [b \in Builds |->
    CASE b = "old"    -> {MCFile(1, "a")}
      [] b = "new"    -> {MCFile(1, "a"), MCFile(2, "b"), MCFile(3, "c")}
      [] b = "edited" -> {MCFile(1, "z"), MCFile(2, "b")}
      [] OTHER        -> {MCFile(1, "a"), MCFile(2, "b"), MCFile(2, "y")}]

-----------------------------------------------------------------------------
(* The request for information, and its successor without the free items. *)

MCField(type, required, default, options) ==
  [type |-> type, required |-> required, default |-> default, options |-> options, range |-> 1 .. 60]
MCItems == MCField("MULTISELECT", TRUE, <<>>, [receipt |-> "a receipt", delivery |-> "a delivery note"])
MCDays == MCField("NUMBER", TRUE, <<"10">>, <<>>)
MCOptional(type) == MCField(type, FALSE, <<>>, <<>>)

MCTemplate(fields, subject, paragraphs) ==
  [fields |-> fields, subject |-> subject, paragraphs |-> paragraphs]
MCReply == <<Lit("reply by"), Ph("dueDate"), Lit("in"), Ph("days")>>
MCBase ==
  [b \in Builds |->
    IF b = "old"
    THEN MCTemplate([items |-> MCItems, other |-> MCOptional("LIST"), days |-> MCDays],
                    <<Lit("we need more")>>,
                    <<<<Lit("about"), Ph("merchant")>>, <<Ph("items")>>, <<Ph("other")>>, MCReply>>)
    ELSE MCTemplate([items |-> MCItems, note |-> MCOptional("TEXT"), days |-> MCDays],
                    <<Lit("we need more")>>,
                    <<<<Ph("items")>>, <<Open("note"), Lit("note"), Ph("note"), Close("note")>>, MCReply>>)]

MCOverride(subject, paragraphs, texts) ==
  [subject |-> subject, paragraphs |-> paragraphs, texts |-> texts]
MCOverrides ==
  {MCOverride(<<>>, <<<<Open("other"), Lit("also"), Close("other")>>, <<Ph("other")>>>>, {}),
   MCOverride(<<Ph("days"), Lit("days left")>>, <<<<Ph("items")>>, MCReply>>, {<<"items", "receipt", "the slip">>}),
   MCOverride(<<>>, <<<<Lit("dear"), Ph("customer")>>, <<Open("dueDate"), Lit("by"), Ph("dueDate"), Close("dueDate")>>>>, {}),
   MCOverride(<<Lit("your dispute")>>, <<<<Lit("as of"), Ph("today")>>>>, {}),
   MCOverride(<<>>, <<<<Open("merchant"), Lit("paid"), Ph("merchant"), Close("merchant")>>>>, {}), \* a fact's section
   MCOverride(<<>>, <<<<Lit("send"), Open("items")>>>>, {}),                                       \* never closed
   MCOverride(<<Ph("items")>>, <<<<Ph("items")>>>>, {}),                                           \* a list as subject
   MCOverride(<<>>, <<<<Ph("receipts")>>>>, {}),                                                   \* no such field
   MCOverride(<<>>, <<>>, {<<"items", "invoice", "a bill">>})}                                     \* no such option

MCForms ==
  {[items |-> <<"receipt">>],
   [items |-> <<"receipt", "delivery">>, other |-> <<"serial", "colour">>, days |-> <<"5">>],
   [items |-> <<"receipt">>, note |-> <<"hello">>],
   [items |-> <<"receipt">>, note |-> <<"long">>],
   [items |-> <<"invoice">>, days |-> <<"5">>],
   [items |-> <<"delivery">>, days |-> <<"010">>],
   [items |-> <<"receipt">>, days |-> <<"0">>],
   [days |-> <<"5">>]}

MCDateText == [d \in 1 .. 20 |-> "day " \o ToString(d)]

-----------------------------------------------------------------------------
(* Offsets that change on Sunday, day 6: nowhere, at two in the morning    *)
(* (Berlin), at midnight east and west of Greenwich (Beirut, Santiago), at *)
(* one in the Azores and in Gaza; and back again.                          *)

MCZone(before, after, local) ==
  [before |-> before, after |-> after, change |-> 144 + local - before]
MCZones ==
  {MCZone(0, 0, 0), MCZone(1, 2, 2), MCZone(2, 1, 3), MCZone(2, 3, 0), MCZone(3, 2, 0),
   MCZone(-4, -3, 0), MCZone(-3, -4, 0), MCZone(-1, 0, 0), MCZone(0, -1, 1), MCZone(-5, -4, 2),
   MCZone(3, 2, 1)}
MCCalendars == [zone : Zones, holidays : {{}, {7}, {4, 8}}]
MCStarts == {24 * d + h : d \in 3 .. 8, h \in {0, 1, 3, 12, 20, 22, 23}}
MCClocks == [count : {1, 2, 5, 10}, unit : {"CALENDAR", "BUSINESS"}]

-----------------------------------------------------------------------------
(* The questions on a duplicate, and a later set with one more. *)

MCQuestion(type, required) == [type |-> type, required |-> required]
MCSets ==
  [b \in Builds |->
    IF b = "old"
    THEN [original_on |-> MCQuestion("DATE", TRUE), same_merchant |-> MCQuestion("YES_NO", TRUE)]
    ELSE [refunded |-> MCQuestion("YES_NO", TRUE), details |-> MCQuestion("TEXT", FALSE)]]

\* No answer; 25, 50 and 100 per cent for yes.
MCLevels == {-1, 1, 2, 4}

MCUnauthorised(merchant_, card, shared, police) ==
  [reason |-> "UNAUTHORISED",
   answers |-> [recognise_merchant |-> merchant_, card_in_possession |-> card,
                shared_credentials |-> shared, police_report |-> police]]
MCFacts ==
  [disputes |-> 0 .. 3, lost |-> 0 .. 2, age |-> {30, 31, 60, 61}, highRisk |-> BOOLEAN,
   amount |-> {499, 500, 999, 1000}, account |-> {89, 90, 364, 365}, known |-> BOOLEAN,
   claim |-> {MCUnauthorised("no", "no", "no", "no"), MCUnauthorised("yes", "yes", "no", "no"),
              MCUnauthorised("yes", "yes", "no", "yes"),
              [reason |-> "NOT_RECEIVED",
               answers |-> [contacted_merchant |-> "no", merchant_response |-> "a text"]],
              [reason |-> "DUPLICATE", answers |-> [same_merchant |-> "no"]],
              [reason |-> "AMOUNT_DIFFERS", answers |-> [receipt_available |-> "no"]]}]
=============================================================================
