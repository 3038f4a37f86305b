------------------------------- MODULE Syslog -------------------------------
(***************************************************************************)
(* Syslog matching in a test process (isyslog.c): the list of matches the  *)
(* test sets up, what becomes of a message sent to syslog(), and the       *)
(* counts.  A regular expression is the set of messages it matches, or the *)
(* value BadRegexp that regcomp() rejects.                                 *)
(***************************************************************************)
EXTENDS SeqOps

CONSTANTS
  Messages,   \* what syslog() may be called with, after vlogmsg()
  Tags,       \* tags given to np_syslog_match()
  BadRegexp,
  MaxMatches, \* bound: matches a test sets up
  MaxLogs     \* bound: messages it logs

VARIABLES
  slmatches,  \* the vector of slmatch_t
  thrown,     \* the event EV_SLMATCH has been thrown: the test function is over
  counted,    \* what the last np_syslog_count(tag) returned, per tag or -1
  logged      \* history: the messages logged, and what became of each

vars == <<slmatches, thrown, counted, logged>>

\* sldisposition_t; the ordinals decide between matches.
SL_UNKNOWN == 0
SL_IGNORE == 1
SL_COUNT == 2
SL_FAIL == 3

slmatch_t == [re : SUBSET Messages, dis : {SL_IGNORE, SL_COUNT, SL_FAIL},
              tag : Tags \cup {0}, count : Nat]

Init ==
  /\ slmatches = << >>
  /\ thrown = FALSE
  /\ counted = [t \in Tags \cup {-1} |-> 0]
  /\ logged = << >>

-----------------------------------------------------------------------------

\* add_slmatch: a bad regular expression throws before anything is appended.
add_slmatch(re, dis, tag) ==
  /\ ~thrown /\ Len(slmatches) < MaxMatches
  /\ IF re = BadRegexp
       THEN thrown' = TRUE /\ UNCHANGED slmatches
       ELSE /\ slmatches' = Append(slmatches, [re |-> re, dis |-> dis, tag |-> tag,
                                               count |-> 0])
            /\ UNCHANGED thrown
  /\ UNCHANGED <<counted, logged>>

np_syslog_fail(re) == add_slmatch(re, SL_FAIL, 0)
np_syslog_ignore(re) == add_slmatch(re, SL_IGNORE, 0)
np_syslog_match(re, tag) == add_slmatch(re, SL_COUNT, tag)

\* classifier_t::classify for a match's regular expression.
classify(slm, msg) == IF msg \in slm.re THEN slm.dis ELSE SL_UNKNOWN

\* find_slmatch: the first of the matches with the largest disposition.
Beats(dis, mostdis) == dis > mostdis
Better(list, msg, most, i) ==
  LET dis == classify(list[i], msg)
  IN IF dis # SL_UNKNOWN /\ (most = 0 \/ Beats(dis, list[most].dis)) THEN i ELSE most
Most(list, msg) ==
  Fold(LAMBDA most, i : Better(list, msg, most, i), 0, [i \in DOMAIN list |-> i])
Disposition(list, msg) ==
  IF Most(list, msg) = 0 THEN SL_FAIL ELSE list[Most(list, msg)].dis
Counts_AllMatching(list, msg) ==
  {i \in DOMAIN list : classify(list[i], msg) = SL_COUNT}
Counts(list, msg) ==
  IF Disposition(list, msg) = SL_COUNT THEN {Most(list, msg)} ELSE {}
find_slmatch(list, msg) ==
  [i \in DOMAIN list |->
     IF i \in Counts(list, msg) THEN [list[i] EXCEPT !.count = @ + 1] ELSE list[i]]

\* mock_syslog and mock___syslog_chk.
mock_syslog(msg) ==
  /\ ~thrown /\ Len(logged) < MaxLogs
  /\ slmatches' = find_slmatch(slmatches, msg)
  /\ thrown' = (Disposition(slmatches, msg) = SL_FAIL)
  /\ logged' = Append(logged, [msg |-> msg, list |-> slmatches,
                               dis |-> Disposition(slmatches, msg)])
  /\ UNCHANGED counted

\* np_syslog_count: a negative tag stands for all; throws when there is no match.
WithTag(tag) == {i \in DOMAIN slmatches : tag < 0 \/ slmatches[i].tag = tag}
np_syslog_count(tag) ==
  /\ ~thrown
  /\ IF WithTag(tag) = {}
       THEN thrown' = TRUE /\ UNCHANGED counted
       ELSE /\ counted' = [counted EXCEPT ![tag] =
                             Total([i \in DOMAIN slmatches |->
                                      IF i \in WithTag(tag) THEN slmatches[i].count ELSE 0])]
            /\ UNCHANGED thrown
  /\ UNCHANGED <<slmatches, logged>>

Next ==
  \/ \E re \in (SUBSET Messages) \cup {BadRegexp} :
       \/ np_syslog_fail(re) \/ np_syslog_ignore(re)
       \/ \E tag \in Tags : np_syslog_match(re, tag)
  \/ \E msg \in Messages : mock_syslog(msg)
  \/ \E tag \in Tags \cup {-1} : np_syslog_count(tag)

Spec == Init /\ [][Next]_vars

-----------------------------------------------------------------------------
(* Properties.                                                             *)

\* The matches are well formed and nothing is counted that was not set up to be.
TypeOK ==
  /\ slmatches \in Seq(slmatch_t)
  /\ thrown \in BOOLEAN
  /\ \A i \in DOMAIN slmatches : slmatches[i].count # 0 => slmatches[i].dis = SL_COUNT

\* A message passes in silence only if some match set up before it asks for that
\* and none asks for failure; every other message throws, and is the last thing
\* the test function does (find_slmatch and mock_syslog).
OnlyExpectedPass ==
  \A n \in DOMAIN logged :
    LET rec == logged[n]
        hits == {i \in DOMAIN rec.list : rec.msg \in rec.list[i].re}
        passes == /\ hits # {}
                  /\ \A i \in hits : rec.list[i].dis # SL_FAIL
    IN IF passes THEN rec.dis # SL_FAIL ELSE thrown /\ n = Len(logged)

\* Each message is counted at most once, however many matches it hits, and a
\* message that a COUNT match hits and no FAIL match hits is counted.
Asks(list, msg, dis) == \E i \in DOMAIN list : msg \in list[i].re /\ list[i].dis = dis
IsCounted(rec) == Asks(rec.list, rec.msg, SL_COUNT) /\ ~Asks(rec.list, rec.msg, SL_FAIL)
CountedOnce ==
  Total([i \in DOMAIN slmatches |-> slmatches[i].count])
    = Total([n \in DOMAIN logged |-> IF IsCounted(logged[n]) THEN 1 ELSE 0])

\* The matches decide what becomes of a message.
MatchesDecide == TypeOK /\ OnlyExpectedPass /\ CountedOnce

\* The inductive invariant: what became of a message is what the matches of
\* that moment made of it, and a message that failed was the last.
Logged == [msg : Messages, list : Seq(slmatch_t), dis : {SL_IGNORE, SL_COUNT, SL_FAIL}]
SyslogInv ==
  /\ TypeOK /\ CountedOnce
  /\ logged \in Seq(Logged)
  /\ \A n \in DOMAIN logged :
       /\ logged[n].dis = Disposition(logged[n].list, logged[n].msg)
       /\ logged[n].dis = SL_FAIL => thrown /\ n = Len(logged)

\* "Note that this is the default behaviour" (np.h, of np_syslog_ignore): a
\* message no regular expression matches has no effect.
\* The code does not keep this, and no run checks it.
DefaultIgnores ==
  \A n \in DOMAIN logged :
    (\A i \in DOMAIN logged[n].list : logged[n].msg \notin logged[n].list[i].re)
      => logged[n].dis # SL_FAIL

\* "order shouldn't matter due to the way we resolve multiple matches"
\* (isyslog.c): set up in the reverse order, the matches would count the same
\* messages under the same tags.
\* The code does not keep this, and no run checks it.
OrderIrrelevant ==
  \A msg \in Messages :
    LET tags(list) == {list[i].tag : i \in Counts(list, msg)}
    IN tags(slmatches) = tags([i \in DOMAIN slmatches |-> slmatches[Len(slmatches) + 1 - i]])

=============================================================================
