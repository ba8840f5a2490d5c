----------------------------- MODULE ThreadReading -----------------------------
(***************************************************************************)
(* Reading page by page and acting on what was read.  An agent walks       *)
(* through a conversation or a board with one of the read tools            *)
(* (tools/activity.py, tools/notes.py) while others add to it, reports     *)
(* entries it has seen as read, likes and deletes.  The tools keep no      *)
(* state: each sends one request, compares the answer with it and shows it *)
(* or raises.                                                              *)
(*                                                                         *)
(* The backend leaves out any optional field, and one thing may be wrong   *)
(* with an answer: it belongs to another request, one number or flag of    *)
(* its page data is wrong, an entry or a reply from elsewhere is mixed in, *)
(* or it is no successful collection at all.  What an entry says about     *)
(* itself is true; nothing else is trusted.                                *)
(***************************************************************************)
EXTENDS Integers, Sequences, FiniteSets

CONSTANTS
    Tool,     \* the read tools
    Dialect,  \* the sets of optional fields a backend may send
    Target,   \* what is read: posts, comments, note threads or boards
    Entry,    \* comments, replies, notes or posts
    Home,     \* the target each entry is listed under
    Before,   \* the entries of each target that are there at the start
    Replies,  \* the replies each entry is sent with, ids of their own
    SIZES,    \* page sizes an agent asks for
    MaxPage,  \* bound: last page an agent asks for
    None      \* an absent field

PageField == {"page", "size", "total_elements", "total_pages", "has_next", "is_last"}
Flag == {"has_next", "is_last"}

\* A note may say which thread it belongs to.
Optional == PageField \cup {"note_thread_id"}

ASSUME ReadingParameters ==
    /\ Tool \subseteq {"get_post_comments", "get_comment_replies",
                       "get_note_thread", "get_board_posts"}
    /\ Dialect \subseteq SUBSET Optional
    /\ Home \in [Entry -> Target]
    /\ Before \in [Target -> Seq(Entry)]
    /\ \A t \in Target : \A i \in DOMAIN Before[t] : Home[Before[t][i]] = t
    /\ SIZES \subseteq Nat \ {0} /\ MaxPage \in Nat
    /\ None \notin Target \cup Entry

VARIABLES
    tool,     \* the tool the agent reads with, fixed
    dialect,  \* the optional fields this backend sends, fixed
    list,     \* the entries of each target, in the backend's order
    unread,   \* the entries of each target the backend holds unread
    walk,     \* where the agent is on its way through a target
    shown,    \* history: the entries shown to the agent under each target
    nested,   \* history: the pairs of an entry and a reply shown below it
    deed      \* of the last step: whether the backend did what it was asked
              \* to, and whether the agent was told so

vars == <<tool, dialect, list, unread, walk, shown, nested, deed>>
fixed == <<tool, dialect>>

Listed(t) == {list[t][i] : i \in DOMAIN list[t]}

Request == [target: Target, page: 0..MaxPage, size: SIZES]

-------------------------------------------------------------------------------
(* The backend's answers to a read *)

CeilDiv(n, d) == (n + d - 1) \div d

Slice(q) ==
    LET last == (q.page + 1) * q.size
    IN  {list[q.target][i] : i \in {j \in DOMAIN list[q.target] :
                                      q.page * q.size < j /\ j <= last}}

PageData(q) ==
    LET total == Len(list[q.target])
        pages == CeilDiv(total, q.size)
    IN  [f \in dialect \cap PageField |->
           CASE f = "page" -> q.page
             [] f = "size" -> q.size
             [] f = "total_elements" -> total
             [] f = "total_pages" -> pages
             [] f = "has_next" -> q.page + 1 < pages
             [] f = "is_last" -> q.page + 1 >= pages]

\* What an entry and a reply sent with it say about themselves: the post,
\* thread or board they belong to and the comment they answer.  Bound: each
\* comment read with get_comment_replies is on a post of its own, and replies
\* come without replies.
Threaded == tool \in {"get_post_comments", "get_comment_replies"}
Reply(e, c) == [id |-> c, belongs |-> Home[e], parent |-> e]
Item(e) ==
    [id      |-> e,
     belongs |-> IF tool = "get_note_thread" /\ "note_thread_id" \notin dialect
                 THEN None ELSE Home[e],
     parent  |-> IF tool = "get_comment_replies" THEN Home[e] ELSE None,
     replies |-> IF Threaded THEN {Reply(e, c) : c \in Replies[e]} ELSE {}]

Answer(q) ==
    [ok    |-> TRUE,
     named |-> IF tool = "get_note_thread" THEN q.target ELSE None,
     meta  |-> PageData(q),
     items |-> {Item(e) : e \in Slice(q)}]

Wrong(f, v) == IF f \in Flag THEN {~v} ELSE {v - 1, v + 1}

\* Aliases that disagree, a wrong type and a number out of range are refused
\* alike: ok stands for their absence.
FaultyAnswers(r) ==
    LET a == Answer(r)
    IN  {[a EXCEPT !.ok = FALSE]}
        \cup {Answer(q) : q \in Request}
        \cup {[a EXCEPT !.meta[fv[1]] = fv[2]] :
                fv \in UNION {{f} \X Wrong(f, a.meta[f]) : f \in DOMAIN a.meta}}
        \cup {[a EXCEPT !.items = @ \cup {Item(e)}] :
                e \in UNION {Listed(t) : t \in Target \ {r.target}}}
        \cup {[a EXCEPT !.items = (@ \ {i}) \cup {[i EXCEPT !.replies = Item(e).replies]}] :
                i \in a.items, e \in Entry}

-------------------------------------------------------------------------------
(* The tools' checks *)

Says(meta, f) == f \in DOMAIN meta

\* Fault: the page of the answer is not compared with the page asked for.
PageUnchecked(meta, r) == Says(meta, "size") => meta["size"] = r.size
MatchesRequest(meta, r) ==
    /\ Says(meta, "page") => meta["page"] = r.page
    /\ Says(meta, "size") => meta["size"] = r.size

\* read_pagination, the fields with each other
Consistent(meta) ==
    /\ {"total_elements", "total_pages", "size"} \subseteq DOMAIN meta =>
         meta["total_pages"] = CeilDiv(meta["total_elements"], meta["size"])
    /\ Flag \subseteq DOMAIN meta => meta["has_next"] # meta["is_last"]
    /\ {"page", "total_pages"} \subseteq DOMAIN meta =>
         LET more == meta["page"] + 1 < meta["total_pages"]
         IN  /\ Says(meta, "has_next") => meta["has_next"] = more
             /\ Says(meta, "is_last") => meta["is_last"] # more

\* A number is in range; a size is not zero.
InRange(meta) ==
    \A f \in DOMAIN meta \ Flag : meta[f] >= (IF f = "size" THEN 1 ELSE 0)

\* has_next as the tool returns it; without one the agent has to go on.
HasNext(meta) ==
    CASE Says(meta, "has_next") -> meta["has_next"]
      [] ~Says(meta, "has_next") /\ Says(meta, "is_last") -> ~meta["is_last"]
      [] OTHER -> TRUE

TreeHolds(item) ==
    \A n \in item.replies : n.belongs = item.belongs /\ n.parent = item.id

CommentsOf(items, post) ==
    \A i \in items : i.belongs = post /\ i.parent = None /\ TreeHolds(i)

\* A reply page does not name the post; its entries must agree on one.
\* Fault: nor is it asked to name the comment.
AnyComment(items, comment) ==
    \A i, j \in items : TreeHolds(i) /\ i.belongs = j.belongs
RepliesOf(items, comment) ==
    \A i, j \in items :
        i.parent = comment /\ TreeHolds(i) /\ i.belongs = j.belongs

NotesOf(items, thread) == \A i \in items : i.belongs \in {None, thread}
PostsOf(items, board) == \A i \in items : i.belongs = board

OnTarget(a, t) ==
    CASE tool = "get_post_comments"   -> CommentsOf(a.items, t)
      [] tool = "get_comment_replies" -> RepliesOf(a.items, t)
      [] tool = "get_note_thread"     -> a.named = t /\ NotesOf(a.items, t)
      [] tool = "get_board_posts"     -> PostsOf(a.items, t)

Accepts(a, r) ==
    /\ a.ok /\ InRange(a.meta) /\ Consistent(a.meta)
    /\ MatchesRequest(a.meta, r)
    /\ OnTarget(a, r.target)

-------------------------------------------------------------------------------
(* Reading *)

Idle == [over |-> TRUE, missing |-> {}, identified |-> TRUE]
NoDeed == [done |-> FALSE, told |-> FALSE]

\* The agent starts at the first page, at any time; it misses what is listed
\* until it has seen it.
StartWalk(t, size) ==
    /\ walk' = [over |-> FALSE,
                next |-> [target |-> t, page |-> 0, size |-> size],
                missing |-> Listed(t), identified |-> TRUE]
    /\ deed' = NoDeed
    /\ UNCHANGED <<fixed, list, unread, shown, nested>>

\* The answer says of what it is a page, which one, and of how many.
Identifies(a) ==
    /\ {"page", "size", "total_pages"} \subseteq DOMAIN a.meta
    /\ a.named # None \/ a.items # {}

\* A page that passes is shown, and the agent goes on if there is another.  Any
\* other answer raises and leaves the agent where it was.
ReadPage ==
    /\ ~walk.over /\ walk.next.page <= MaxPage
    /\ \E a \in {Answer(walk.next)} \cup FaultyAnswers(walk.next) :
         LET r == walk.next
             ids == {i.id : i \in a.items}
         IN  /\ Accepts(a, r)
             /\ shown' = [shown EXCEPT ![r.target] = @ \cup ids]
             /\ nested' = nested \cup
                  UNION {{<<i.id, n.id>> : n \in i.replies} : i \in a.items}
             /\ walk' = [walk EXCEPT
                  !.over = ~HasNext(a.meta),
                  !.next.page = @ + 1,
                  !.missing = @ \ ids,
                  !.identified = @ /\ Identifies(a)]
    /\ deed' = NoDeed
    /\ UNCHANGED <<fixed, list, unread>>

\* Others add an entry, at the end or at the front.
Arrive(e) ==
    /\ unread' = [unread EXCEPT ![Home[e]] = @ \cup {e}]
    /\ unread' # unread /\ e \notin shown[Home[e]]
    /\ list' \in {[list EXCEPT ![Home[e]] = Append(@, e)],
                  [list EXCEPT ![Home[e]] = <<e>> \o @]}
    /\ deed' = NoDeed
    /\ UNCHANGED <<fixed, walk, shown, nested>>

-------------------------------------------------------------------------------
(* Acting: mark_post_activity_read, mark_note_read, like_comment, like_post, *)
(* delete_post *)

Deeds ==
    CASE tool = "get_post_comments"   -> {"mark_read", "like_comment"}
      [] tool = "get_comment_replies" -> {"like_comment"}
      [] tool = "get_note_thread"     -> {"mark_read"}
      [] tool = "get_board_posts"     -> {"like_post", "delete_post"}

\* The answer to a deed: whether it was done (marked_read, status, isLiked,
\* deleted), whether to the observed entries alone, and to what.
Confirmation == [done: BOOLEAN, bounded: BOOLEAN, named: Target \cup Entry]

\* It may be the answer for another target, but is true of the one it names.
Truthful(c, what, id, done) ==
    c.named = id => (c.done /\ (what = "mark_read" => c.bounded) => done)

\* Fault: the confirmed target is not compared.
Anyone(c, what, id) == c.done /\ (what = "mark_read" => c.bounded)
Confirms(c, what, id) ==
    c.named = id /\ c.done /\ (what = "mark_read" => c.bounded)

\* The backend has done it or not.  The agent is told that it is done, or it is
\* told that it is not, or an error.  A 204 without a body confirms a deletion
\* that was carried out.
Told(what, id, done) ==
    \/ \E told \in {Confirms(c, what, id) :
                       c \in {x \in Confirmation : Truthful(x, what, id, done)}} :
         deed' = [done |-> done, told |-> told]
    \/ /\ what = "delete_post" /\ done
       /\ deed' = [done |-> TRUE, told |-> TRUE]

\* What the backend marks of the ids it is sent: all of them, of a post's
\* comments perhaps a part.
\* Fault: the endpoint that takes no ids is called.
WholeThread(t, ids) == {unread[t]}
Observed(t, ids) == IF tool = "get_note_thread" THEN {ids} ELSE SUBSET ids

\* Only entries shown under the target are reported.
MarkRead(t, ids) ==
    /\ "mark_read" \in Deeds
    /\ ids # {} /\ ids \subseteq shown[t]
    /\ \/ /\ \E marked \in Observed(t, ids) :
               unread' = [unread EXCEPT ![t] = @ \ marked]
          /\ Told("mark_read", t, TRUE)
       \/ UNCHANGED unread /\ Told("mark_read", t, FALSE)
    /\ UNCHANGED <<fixed, list, walk, shown, nested>>

Like(e) ==
    /\ e \in Listed(Home[e])
    /\ \E what \in Deeds \cap {"like_comment", "like_post"}, done \in BOOLEAN :
         Told(what, e, done)
    /\ UNCHANGED <<fixed, list, unread, walk, shown, nested>>

\* The boards cache is dropped as well (BoardsCache!Invalidate).
DeletePost(e) ==
    /\ "delete_post" \in Deeds /\ e \in Listed(Home[e])
    /\ \/ /\ \E i \in DOMAIN list[Home[e]] :
               /\ list[Home[e]][i] = e
               /\ list' = [list EXCEPT ![Home[e]] =
                            SubSeq(@, 1, i - 1) \o SubSeq(@, i + 1, Len(@))]
          /\ Told("delete_post", e, TRUE)
       \/ UNCHANGED list /\ Told("delete_post", e, FALSE)
    /\ UNCHANGED <<fixed, unread, walk, shown, nested>>

-------------------------------------------------------------------------------

Init ==
    /\ tool \in Tool /\ dialect \in Dialect
    /\ list = Before
    /\ unread = [t \in Target |-> Listed(t)]
    /\ walk = Idle
    /\ shown = [t \in Target |-> {}]
    /\ nested = {}
    /\ deed = NoDeed

Next ==
    \/ \E t \in Target, size \in SIZES : StartWalk(t, size)
    \/ ReadPage
    \/ \E e \in Entry : Arrive(e) \/ Like(e) \/ DeletePost(e)
    \/ \E t \in Target : \E ids \in SUBSET shown[t] : MarkRead(t, ids)

Spec == Init /\ [][Next]_vars

-------------------------------------------------------------------------------
(* Properties *)

\* Whatever is mixed into an answer or answered by mistake, the agent sees under
\* a target only entries of that target, and below an entry only its own replies
\* (_sanitize_comment_tree, require_target_id).  Notes that do not name their
\* thread cannot be told apart and are excepted.
ViewGenuine ==
    (tool = "get_note_thread" => "note_thread_id" \in dialect) =>
       /\ \A t \in Target : \A e \in shown[t] : Home[e] = t
       /\ \A p \in nested : p[2] \in Replies[p[1]]

\* An agent that follows has_next to its end has seen every entry that was
\* listed when it began, although entries arrive between its pages and answers
\* go wrong, if each answer it got said what it was a page of (read_pagination).
\* Posts are excepted: they can be deleted, which moves others to an earlier
\* page; a comment keeps its place as a placeholder.
SeenWhole ==
    walk.over /\ walk.identified /\ tool # "get_board_posts" => walk.missing = {}

\* What the agent is told was done, the backend did, to that very target
\* (activity.py, notes.py: the confirmations the tools ask for).
ToldTruly == deed.told => deed.done

\* What the agent was not shown stays unread, also when it arrives between the
\* read and the acknowledgement: no tool acknowledges a thread as a whole.
UnseenStaysUnread ==
    \A t \in Target : Listed(t) \ shown[t] \subseteq unread[t]

===============================================================================
