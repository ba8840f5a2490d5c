-------------------------- MODULE ThreadReadingProofs --------------------------
(***************************************************************************)
(* Reading page by page, for any targets, entries, page sizes, backends    *)
(* and order of arrivals.  The properties of the views rest on what an     *)
(* answer that passes the checks can be, although one thing may be wrong   *)
(* with it.                                                                *)
(***************************************************************************)
EXTENDS ThreadReading, SequenceTheorems, TLAPS

Walk == [over: BOOLEAN, next: [target: Target, page: Nat, size: SIZES],
         missing: SUBSET Entry, identified: BOOLEAN]

TypeOK ==
    /\ tool \in Tool /\ dialect \in Dialect
    /\ list \in [Target -> Seq(Entry)]
    /\ unread \in [Target -> SUBSET Entry]
    /\ shown \in [Target -> SUBSET Entry]
    /\ walk = Idle \/ walk \in Walk

\* Every entry is listed where it belongs.
AtHome == \A t \in Target : \A e \in Listed(t) : Home[e] = t

IInv == TypeOK /\ AtHome /\ UnseenStaysUnread

-------------------------------------------------------------------------------
(* Lists *)

LEMMA ListedType ==
    ASSUME TypeOK, NEW t \in Target
    PROVE  Listed(t) \subseteq Entry
    BY ElementOfSeq DEF TypeOK, Listed

LEMMA Places == \A s \in Seq(Entry) : DOMAIN s \subseteq Int
    BY LenProperties

\* What a new entry, at either end, or a deletion leaves listed.
LEMMA Grows ==
    ASSUME NEW s \in Seq(Entry), NEW e \in Entry,
           NEW l \in {Append(s, e), <<e>> \o s}
    PROVE  /\ l \in Seq(Entry)
           /\ \A i \in DOMAIN l : l[i] = e \/ \E j \in DOMAIN s : l[i] = s[j]
    <1>1. CASE l = Append(s, e)
      BY <1>1, AppendProperties
    <1>2. CASE l = <<e>> \o s
      <2>1. <<e>> \in Seq(Entry) /\ Len(<<e>>) = 1 /\ <<e>>[1] = e
        OBVIOUS
      <2>2. QED
        BY <1>2, <2>1, ConcatProperties, LenProperties
    <1>3. QED
      BY <1>1, <1>2

LEMMA Shrinks ==
    ASSUME NEW s \in Seq(Entry), NEW i \in DOMAIN s
    PROVE  LET l == SubSeq(s, 1, i - 1) \o SubSeq(s, i + 1, Len(s))
           IN  /\ l \in Seq(Entry)
               /\ \A k \in DOMAIN l : \E j \in DOMAIN s : l[k] = s[j]
    <1> DEFINE a == SubSeq(s, 1, i - 1)
               b == SubSeq(s, i + 1, Len(s))
    <1>1. i \in 1 .. Len(s) /\ Len(s) \in Nat /\ DOMAIN s = 1 .. Len(s)
      BY LenProperties
    <1>2. /\ a \in Seq(Entry) /\ Len(a) = i - 1
          /\ \A k \in 1 .. i - 1 : a[k] = s[k]
      BY <1>1, SubSeqProperties
    <1>3. /\ b \in Seq(Entry) /\ Len(b) = Len(s) - i
          /\ \A k \in 1 .. Len(s) - i : b[k] = s[i + k]
      BY <1>1, SubSeqProperties
    <1> HIDE DEF a, b
    <1>4. /\ a \o b \in Seq(Entry) /\ Len(a \o b) = (i - 1) + (Len(s) - i)
          /\ \A k \in 1 .. (i - 1) + (Len(s) - i) :
               (a \o b)[k] = IF k <= i - 1 THEN a[k] ELSE b[k - (i - 1)]
      <2>1. /\ a \o b \in Seq(Entry) /\ Len(a \o b) = Len(a) + Len(b)
            /\ \A k \in 1 .. Len(a) + Len(b) :
                 (a \o b)[k] = IF k <= Len(a) THEN a[k] ELSE b[k - Len(a)]
        BY <1>2, <1>3, ConcatProperties
      <2>2. QED
        BY <1>2, <1>3, <2>1, Zenon
    <1>5. ASSUME NEW k \in 1 .. Len(s) - 1 PROVE \E j \in DOMAIN s : (a \o b)[k] = s[j]
      <2>1. k \in 1 .. (i - 1) + (Len(s) - i)
        BY <1>1
      <2>2. CASE k <= i - 1
        <3>1. k \in 1 .. i - 1 /\ k \in DOMAIN s
          BY <1>1, <2>2
        <3>2. (a \o b)[k] = s[k]
          BY <1>2, <1>4, <2>1, <2>2, <3>1
        <3>3. QED
          BY <3>1, <3>2
      <2>3. CASE k > i - 1
        <3>1. k - (i - 1) \in 1 .. Len(s) - i /\ k + 1 \in DOMAIN s
              /\ i + (k - (i - 1)) = k + 1 /\ ~(k <= i - 1)
          BY <1>1, <2>3
        <3>2. (a \o b)[k] = b[k - (i - 1)]
          BY <1>4, <2>1, <3>1
        <3>3. b[k - (i - 1)] = s[k + 1]
          BY <1>3, <3>1
        <3>4. QED
          BY <3>1, <3>2, <3>3
      <2>4. k <= i - 1 \/ k > i - 1
        BY <1>1
      <2>5. QED
        BY <2>2, <2>3, <2>4, Zenon
    <1>6. DOMAIN (a \o b) = 1 .. Len(s) - 1
      <2> DEFINE l == a \o b
      <2>1. l \in Seq(Entry) /\ Len(l) = (i - 1) + (Len(s) - i)
        BY <1>4
      <2> HIDE DEF l
      <2>2. DOMAIN l = 1 .. Len(s) - 1
        BY <1>1, <2>1, LenProperties
      <2>3. QED
        BY <2>2 DEF l
    <1>7. QED
      BY <1>4, <1>5, <1>6 DEF a, b

-------------------------------------------------------------------------------
(* Answers                                                                  *)

Asked == [target: Target, page: Nat, size: SIZES]

\* An item of an answer is true of itself; what is sent below it may be another's.
OfItself(i) ==
    /\ i.id \in Entry
    /\ i.belongs = Item(i.id).belongs /\ i.parent = Item(i.id).parent
    /\ \E e \in Entry : i.replies = Item(e).replies

LEMMA SliceListed == ASSUME NEW q \in Asked PROVE Slice(q) \subseteq Listed(q.target)
    BY DEF Slice, Listed

LEMMA ItemOfItself == ASSUME NEW e \in Entry PROVE OfItself(Item(e)) /\ Item(e).id = e
    <1>1. Item(e).id = e
      BY DEF Item
    <1>2. QED
      BY <1>1 DEF OfItself

LEMMA AnswerItems ==
    ASSUME TypeOK, NEW q \in Asked
    PROVE  /\ \A i \in Answer(q).items : OfItself(i)
           /\ \A e \in Slice(q) : \E i \in Answer(q).items : i.id = e
           /\ \A i \in Answer(q).items : i.id \in Slice(q)
    <1>1. Answer(q).items = {Item(e) : e \in Slice(q)}
      BY DEF Answer
    <1>2. Slice(q) \subseteq Entry
      <2>1. q.target \in Target
        BY DEF Asked
      <2>2. QED
        BY <2>1, SliceListed, ListedType
    <1>3. QED
      BY <1>1, <1>2, ItemOfItself

LEMMA RequestAsked == Request \subseteq Asked
    <1>1. 0 .. MaxPage \subseteq Nat
      BY ReadingParameters
    <1>2. QED
      BY <1>1 DEF Request, Asked

\* One field of the page data is wrong, if any.
OneWrong(meta, true) ==
    \/ meta = true
    \/ \E f \in DOMAIN true : \E v \in Wrong(f, true[f]) : meta = [true EXCEPT ![f] = v]

\* One thing is wrong with an answer at most.
LEMMA Answers ==
    ASSUME TypeOK, NEW r \in Asked, NEW a \in {Answer(r)} \cup FaultyAnswers(r)
    PROVE  /\ \A i \in a.items : OfItself(i)
           /\ \/ \E q \in Request : a = Answer(q)
              \/ /\ \A e \in Slice(r) : \E i \in a.items : i.id = e
                 /\ OneWrong(a.meta, PageData(r))
    <1> DEFINE b == Answer(r)
    <1>1. /\ \A i \in b.items : OfItself(i)
          /\ \A e \in Slice(r) : \E i \in b.items : i.id = e
      BY AnswerItems
    <1>2. b = [ok |-> b.ok, named |-> b.named, meta |-> b.meta, items |-> b.items]
      BY DEF Answer
    <1>0. b.meta = PageData(r)
      BY DEF Answer
    <1> HIDE DEF b
    <1>3. CASE a = b
      BY <1>0, <1>1, <1>3 DEF OneWrong
    <1>4. CASE a = [b EXCEPT !.ok = FALSE]
      <2>1. a.items = b.items /\ a.meta = b.meta
        BY <1>2, <1>4
      <2>2. QED
        BY <1>0, <1>1, <2>1 DEF OneWrong
    <1>5. CASE \E q \in Request : a = Answer(q)
      BY <1>5, AnswerItems, RequestAsked
    <1>6. CASE \E f \in DOMAIN b.meta : \E v \in Wrong(f, b.meta[f]) :
                 a = [b EXCEPT !.meta[f] = v]
      <2>1. PICK f \in DOMAIN b.meta : \E v \in Wrong(f, b.meta[f]) :
              a = [b EXCEPT !.meta[f] = v]
        BY <1>6
      <2>2. PICK v \in Wrong(f, b.meta[f]) : a = [b EXCEPT !.meta[f] = v]
        BY <2>1
      <2>3. a.items = b.items /\ a.meta = [b.meta EXCEPT ![f] = v]
        BY <1>2, <2>2
      <2>4. QED
        BY <1>0, <1>1, <2>3 DEF OneWrong
    <1>7. CASE \E e \in UNION {Listed(t) : t \in Target \ {r.target}} :
                 a = [b EXCEPT !.items = @ \cup {Item(e)}]
      <2>1. PICK t \in Target : \E e \in Listed(t) : a = [b EXCEPT !.items = @ \cup {Item(e)}]
        BY <1>7
      <2>2. PICK e \in Listed(t) : a = [b EXCEPT !.items = @ \cup {Item(e)}]
        BY <2>1
      <2>3. a.items = b.items \cup {Item(e)} /\ a.meta = b.meta /\ e \in Entry
        BY <1>2, <2>2, ListedType
      <2>4. QED
        BY <1>0, <1>1, <2>3, ItemOfItself DEF OneWrong
    <1>8. CASE \E i \in b.items, e \in Entry :
                 a = [b EXCEPT !.items =
                        (@ \ {i}) \cup {[i EXCEPT !.replies = Item(e).replies]}]
      <2>1. PICK i \in b.items, e \in Entry :
              a = [b EXCEPT !.items =
                     (@ \ {i}) \cup {[i EXCEPT !.replies = Item(e).replies]}]
        BY <1>8
      <2> DEFINE j == [i EXCEPT !.replies = Item(e).replies]
      <2>2. a.items = (b.items \ {i}) \cup {j} /\ a.meta = b.meta
        BY <1>2, <2>1
      <2>3. \E g \in Entry : i = Item(g)
        <3>1. b.items = {Item(g) : g \in Slice(r)} /\ Slice(r) \subseteq Entry
          <4>1. r.target \in Target
            BY DEF Asked
          <4>2. QED
            BY <4>1, SliceListed, ListedType DEF b, Answer
        <3>2. QED
          BY <3>1
      <2>4. /\ j.id = i.id /\ j.belongs = i.belongs /\ j.parent = i.parent
            /\ j.replies = Item(e).replies
        BY <2>3 DEF Item
      <2> HIDE DEF j
      <2>5. OfItself(j)
        BY <1>1, <2>4 DEF OfItself
      <2>6. QED
        BY <1>0, <1>1, <2>2, <2>4, <2>5 DEF OneWrong
    <1>9. QED
      <2>1. \/ a \in {b} \/ a \in {[b EXCEPT !.ok = FALSE]}
            \/ a \in {Answer(q) : q \in Request}
            \/ a \in {[b EXCEPT !.meta[fv[1]] = fv[2]] :
                       fv \in UNION {{f} \X Wrong(f, b.meta[f]) : f \in DOMAIN b.meta}}
            \/ a \in {[b EXCEPT !.items = @ \cup {Item(e)}] :
                       e \in UNION {Listed(t) : t \in Target \ {r.target}}}
            \/ a \in {[b EXCEPT !.items =
                        (@ \ {i}) \cup {[i EXCEPT !.replies = Item(e).replies]}] :
                       i \in b.items, e \in Entry}
        BY DEF FaultyAnswers, b
      <2>2. CASE a \in {[b EXCEPT !.meta[fv[1]] = fv[2]] :
                       fv \in UNION {{f} \X Wrong(f, b.meta[f]) : f \in DOMAIN b.meta}}
        <3>1. PICK fv \in UNION {{f} \X Wrong(f, b.meta[f]) : f \in DOMAIN b.meta} :
                a = [b EXCEPT !.meta[fv[1]] = fv[2]]
          BY <2>2
        <3>2. PICK f \in DOMAIN b.meta : fv \in {f} \X Wrong(f, b.meta[f])
          OBVIOUS
        <3>3. fv[1] = f /\ fv[2] \in Wrong(f, b.meta[f])
          BY <3>2
        <3>4. QED
          BY <1>6, <3>1, <3>3
      <2>3. QED
        BY <2>1, <2>2, <1>3, <1>4, <1>5, <1>7, <1>8

\* The page data that are sent, and that flags are flags.
LEMMA FlagsOf ==
    ASSUME NEW q \in Asked
    PROVE  /\ DOMAIN PageData(q) = dialect \cap PageField
           /\ \A f \in Flag \cap dialect : PageData(q)[f] \in BOOLEAN
    <1> DEFINE pages == CeilDiv(Len(list[q.target]), q.size)
    <1>1. DOMAIN PageData(q) = dialect \cap PageField
      BY DEF PageData
    <1>2. "has_next" \in dialect => PageData(q)["has_next"] = (q.page + 1 < pages)
      BY DEF PageData, PageField
    <1>3. "is_last" \in dialect => PageData(q)["is_last"] = (q.page + 1 >= pages)
      BY DEF PageData, PageField
    <1>4. (q.page + 1 < pages) \in BOOLEAN /\ (q.page + 1 >= pages) \in BOOLEAN
      OBVIOUS
    <1>5. QED
      BY <1>1, <1>2, <1>3, <1>4, Zenon DEF Flag

LEMMA Flags ==
    ASSUME TypeOK, NEW r \in Asked, NEW a \in {Answer(r)} \cup FaultyAnswers(r)
    PROVE  /\ DOMAIN a.meta = dialect \cap PageField
           /\ \A f \in Flag \cap dialect : a.meta[f] \in BOOLEAN
    <1>1. ASSUME NEW q \in Asked, OneWrong(a.meta, PageData(q))
          PROVE  /\ DOMAIN a.meta = dialect \cap PageField
                 /\ \A f \in Flag \cap dialect : a.meta[f] \in BOOLEAN
      <2>1. CASE a.meta = PageData(q)
        BY <2>1, FlagsOf
      <2>2. CASE \E f \in DOMAIN PageData(q) : \E v \in Wrong(f, PageData(q)[f]) :
                   a.meta = [PageData(q) EXCEPT ![f] = v]
        <3>1. PICK f \in DOMAIN PageData(q) : \E v \in Wrong(f, PageData(q)[f]) :
                   a.meta = [PageData(q) EXCEPT ![f] = v]
          BY <2>2
        <3>2. PICK v \in Wrong(f, PageData(q)[f]) : a.meta = [PageData(q) EXCEPT ![f] = v]
          BY <3>1
        <3>3. f \in Flag => v \in BOOLEAN
          BY DEF Wrong
        <3>4. QED
          BY <3>2, <3>3, FlagsOf
      <2>3. QED
        BY <1>1, <2>1, <2>2 DEF OneWrong
    <1>2. CASE \E q \in Request : a = Answer(q)
      <2>1. PICK q \in Request : a = Answer(q)
        BY <1>2
      <2>2. q \in Asked /\ a.meta = PageData(q)
        BY <2>1, RequestAsked DEF Answer
      <2>3. QED
        BY <1>1, <2>2 DEF OneWrong
    <1>3. QED
      BY <1>1, <1>2, Answers

LEMMA GoesOnOrNot ==
    ASSUME TypeOK, NEW r \in Asked, NEW a \in {Answer(r)} \cup FaultyAnswers(r)
    PROVE  HasNext(a.meta) \in BOOLEAN
    <1>1. /\ "has_next" \in DOMAIN a.meta => a.meta["has_next"] \in BOOLEAN
          /\ "is_last" \in DOMAIN a.meta => a.meta["is_last"] \in BOOLEAN
      BY Flags DEF Flag
    <1>2. CASE "has_next" \in DOMAIN a.meta
      BY <1>1, <1>2 DEF HasNext, Says
    <1>3. CASE "has_next" \notin DOMAIN a.meta /\ "is_last" \in DOMAIN a.meta
      BY <1>1, <1>3 DEF HasNext, Says
    <1>4. CASE "has_next" \notin DOMAIN a.meta /\ "is_last" \notin DOMAIN a.meta
      BY <1>4 DEF HasNext, Says
    <1>5. QED
      BY <1>2, <1>3, <1>4

\* What passes belongs to the target, and below each entry are its own replies.
Named == tool = "get_note_thread" => "note_thread_id" \in dialect

LEMMA PassedHome ==
    ASSUME TypeOK, Named, NEW r \in Asked, NEW a, OnTarget(a, r.target),
           NEW i \in a.items, OfItself(i)
    PROVE  Home[i.id] = r.target
    <1>1. r.target \in Target /\ Home[i.id] \in Target /\ None \notin Target
      BY ReadingParameters DEF Asked, OfItself
    <1>2. tool \in {"get_post_comments", "get_comment_replies", "get_note_thread",
                    "get_board_posts"}
      BY ReadingParameters DEF TypeOK
    <1>3. i.belongs = Home[i.id]
      BY DEF Named, OfItself, Item
    <1>4. tool = "get_comment_replies" => i.parent = Home[i.id]
      BY DEF OfItself, Item
    <1>5. CASE tool = "get_comment_replies"
      BY <1>4, <1>5 DEF OnTarget, RepliesOf
    <1>6. CASE tool = "get_post_comments"
      BY <1>3, <1>6 DEF OnTarget, CommentsOf
    <1>7. CASE tool = "get_note_thread"
      BY <1>1, <1>3, <1>7 DEF OnTarget, NotesOf
    <1>8. CASE tool = "get_board_posts"
      BY <1>3, <1>8 DEF OnTarget, PostsOf
    <1>9. QED
      BY <1>2, <1>5, <1>6, <1>7, <1>8

LEMMA PassedReplies ==
    ASSUME TypeOK, NEW r \in Asked, NEW a, OnTarget(a, r.target),
           NEW i \in a.items, OfItself(i), NEW n \in i.replies
    PROVE  n.id \in Replies[i.id]
    <1>1. PICK e \in Entry : i.replies = Item(e).replies
      BY DEF OfItself
    <1>2. Threaded /\ \E c \in Replies[e] : n = Reply(e, c)
      <2>1. n \in IF Threaded THEN {Reply(e, c) : c \in Replies[e]} ELSE {}
        BY <1>1 DEF Item
      <2>2. QED
        BY <2>1
    <1>3. TreeHolds(i)
      BY <1>2 DEF Threaded, OnTarget, CommentsOf, RepliesOf
    <1>4. n.parent = i.id
      BY <1>3 DEF TreeHolds
    <1>5. QED
      BY <1>2, <1>4 DEF Reply

-------------------------------------------------------------------------------
(* Every action keeps the invariant                                         *)

LEMMA WalkNext ==
    ASSUME TypeOK, ~walk.over
    PROVE  walk \in Walk /\ walk.next \in Asked
    BY DEF TypeOK, Idle, Walk, Asked

LEMMA ReadKeeps == ASSUME IInv, ViewGenuine, ReadPage PROVE IInv' /\ ViewGenuine'
    <1> DEFINE r == walk.next
    <1>1. PICK a \in {Answer(r)} \cup FaultyAnswers(r) :
            /\ Accepts(a, r)
            /\ shown' = [shown EXCEPT ![r.target] = @ \cup {i.id : i \in a.items}]
            /\ nested' = nested \cup
                 UNION {{<<i.id, n.id>> : n \in i.replies} : i \in a.items}
            /\ walk' = [walk EXCEPT
                 !.over = ~HasNext(a.meta),
                 !.next.page = @ + 1,
                 !.missing = @ \ {i.id : i \in a.items},
                 !.identified = @ /\ Identifies(a)]
      BY DEF ReadPage
    <1>2. walk \in Walk /\ r \in Asked
      BY WalkNext DEF IInv, ReadPage
    <1>3. /\ \A i \in a.items : OfItself(i)
          /\ OnTarget(a, r.target)
          /\ UNCHANGED <<fixed, list, unread>>
      BY <1>1, <1>2, Answers DEF IInv, Accepts, ReadPage
    <1> HIDE DEF r
    <1>4. {i.id : i \in a.items} \subseteq Entry
      BY <1>3 DEF OfItself
    <1>5. shown' \in [Target -> SUBSET Entry]
      BY <1>1, <1>4 DEF IInv, TypeOK
    <1>6. walk' \in Walk
      <2>1. HasNext(a.meta) \in BOOLEAN /\ Identifies(a) \in BOOLEAN
        BY <1>2, GoesOnOrNot DEF IInv, Identifies, r
      <2>2. /\ walk.next.page \in Nat /\ walk.missing \subseteq Entry
            /\ walk.identified \in BOOLEAN
        BY <1>2 DEF Walk
      <2>3. [walk.next EXCEPT !.page = @ + 1] \in
               [target: Target, page: Nat, size: SIZES]
        BY <1>2, <2>2 DEF Walk
      <2>4. walk' = [over |-> ~HasNext(a.meta),
                     next |-> [walk.next EXCEPT !.page = @ + 1],
                     missing |-> walk.missing \ {i.id : i \in a.items},
                     identified |-> walk.identified /\ Identifies(a)]
        BY <1>1, <1>2 DEF Walk
      <2>5. QED
        BY <2>1, <2>2, <2>3, <2>4 DEF Walk
    <1>7. TypeOK'
      BY <1>3, <1>5, <1>6 DEF IInv, TypeOK, fixed
    <1>8. \A t \in Target : Listed(t)' = Listed(t) /\ shown[t] \subseteq shown'[t]
      BY <1>1, <1>2, <1>3 DEF IInv, TypeOK, Listed, Asked
    <1>9. AtHome' /\ UnseenStaysUnread'
      BY <1>3, <1>8 DEF IInv, AtHome, UnseenStaysUnread
    <1>10. ViewGenuine'
      <2>1. Named' = Named
        BY <1>3 DEF Named, fixed
      <2>2. SUFFICES ASSUME Named
                     PROVE  /\ \A t \in Target : \A e \in shown'[t] : Home[e] = t
                            /\ \A p \in nested' : p[2] \in Replies[p[1]]
        BY <2>1 DEF ViewGenuine, Named
      <2>3. \A i \in a.items : Home[i.id] = r.target
        BY <1>2, <1>3, <2>2, PassedHome DEF IInv
      <2>4. \A i \in a.items : \A n \in i.replies : n.id \in Replies[i.id]
        BY <1>2, <1>3, PassedReplies DEF IInv
      <2>5. \A t \in Target : \A e \in shown'[t] : Home[e] = t
        BY <1>1, <1>2, <2>2, <2>3 DEF ViewGenuine, Named, IInv, TypeOK, Asked
      <2>6. ASSUME NEW p \in nested' PROVE p[2] \in Replies[p[1]]
        <3>1. CASE p \in nested
          BY <2>2, <3>1 DEF ViewGenuine, Named
        <3>2. CASE p \notin nested
          <4>1. PICK i \in a.items : p \in {<<i.id, n.id>> : n \in i.replies}
            BY <1>1, <3>2
          <4>2. PICK n \in i.replies : p = <<i.id, n.id>>
            BY <4>1
          <4>3. p[1] = i.id /\ p[2] = n.id
            BY <4>2
          <4>4. QED
            BY <2>4, <4>3
        <3>3. QED
          BY <3>1, <3>2
      <2>7. QED
        BY <2>5, <2>6
    <1>11. QED
      BY <1>7, <1>9, <1>10 DEF IInv

LEMMA StartKeeps ==
    ASSUME IInv, NEW t \in Target, NEW size \in SIZES, StartWalk(t, size)
    PROVE  TypeOK' /\ AtHome' /\ UnseenStaysUnread'
    <1>1. /\ walk' = [over |-> FALSE,
                      next |-> [target |-> t, page |-> 0, size |-> size],
                      missing |-> Listed(t), identified |-> TRUE]
          /\ UNCHANGED <<tool, dialect, list, unread, shown>>
      BY DEF StartWalk, fixed
    <1>2. Listed(t) \subseteq Entry
      BY ListedType DEF IInv
    <1>3. walk' \in Walk
      BY <1>1, <1>2 DEF Walk
    <1>4. QED
      BY <1>1, <1>3 DEF IInv, TypeOK, AtHome, UnseenStaysUnread, Listed

\* Who arrives is unread, and listed where it belongs.
LEMMA ArriveKeeps ==
    ASSUME IInv, NEW e \in Entry, Arrive(e)
    PROVE  TypeOK' /\ AtHome' /\ UnseenStaysUnread'
    <1> DEFINE h == Home[e]
    <1>1. /\ unread' = [unread EXCEPT ![h] = @ \cup {e}]
          /\ list' \in {[list EXCEPT ![h] = Append(@, e)], [list EXCEPT ![h] = <<e>> \o @]}
          /\ UNCHANGED <<tool, dialect, walk, shown>>
      BY DEF Arrive, fixed
    <1>2. h \in Target
      BY ReadingParameters
    <1> HIDE DEF h
    <1>3. list[h] \in Seq(Entry)
      BY <1>2 DEF IInv, TypeOK
    <1>4. PICK l \in {Append(list[h], e), <<e>> \o list[h]} : list' = [list EXCEPT ![h] = l]
      BY <1>1
    <1>5. /\ l \in Seq(Entry)
          /\ \A i \in DOMAIN l : l[i] = e \/ \E j \in DOMAIN list[h] : l[i] = list[h][j]
      BY <1>3, Grows
    <1>6. TypeOK'
      BY <1>1, <1>2, <1>4, <1>5 DEF IInv, TypeOK
    <1>7. \A t \in Target : Listed(t)' \subseteq Listed(t) \cup IF t = h THEN {e} ELSE {}
      BY <1>2, <1>4, <1>5 DEF IInv, TypeOK, Listed
    <1>8. AtHome'
      BY <1>7 DEF IInv, AtHome, h
    <1>9. \A t \in Target : unread'[t] = unread[t] \cup IF t = h THEN {e} ELSE {}
      BY <1>1, <1>2 DEF IInv, TypeOK
    <1>10. UnseenStaysUnread'
      BY <1>1, <1>7, <1>9 DEF IInv, UnseenStaysUnread
    <1>11. QED
      BY <1>6, <1>8, <1>10

LEMMA DeleteKeeps ==
    ASSUME IInv, NEW e \in Entry, DeletePost(e)
    PROVE  TypeOK' /\ AtHome' /\ UnseenStaysUnread'
    <1> DEFINE h == Home[e]
    <1>1. UNCHANGED <<tool, dialect, unread, walk, shown>>
      BY DEF DeletePost, fixed
    <1>2. CASE UNCHANGED list
      BY <1>1, <1>2 DEF IInv, TypeOK, AtHome, UnseenStaysUnread, Listed
    <1>3. CASE ~UNCHANGED list
      <2>1. PICK i \in DOMAIN list[h] :
              list' = [list EXCEPT ![h] =
                         SubSeq(@, 1, i - 1) \o SubSeq(@, i + 1, Len(@))]
        BY <1>3 DEF DeletePost
      <2>2. h \in Target
        BY ReadingParameters
      <2> HIDE DEF h
      <2>3. list[h] \in Seq(Entry)
        BY <2>2 DEF IInv, TypeOK
      <2> DEFINE l == SubSeq(list[h], 1, i - 1) \o SubSeq(list[h], i + 1, Len(list[h]))
      <2>4. /\ l \in Seq(Entry)
            /\ \A k \in DOMAIN l : \E j \in DOMAIN list[h] : l[k] = list[h][j]
        BY <2>3, Shrinks
      <2>5. list' = [list EXCEPT ![h] = l]
        BY <2>1
      <2> HIDE DEF l
      <2>6. TypeOK'
        BY <1>1, <2>2, <2>4, <2>5 DEF IInv, TypeOK
      <2>7. \A t \in Target : Listed(t)' \subseteq Listed(t)
        BY <2>2, <2>4, <2>5 DEF IInv, TypeOK, Listed
      <2>8. QED
        BY <1>1, <2>6, <2>7 DEF IInv, AtHome, UnseenStaysUnread
    <1>4. QED
      BY <1>2, <1>3

\* What is marked was shown.
LEMMA MarkKeeps ==
    ASSUME IInv, NEW t \in Target, NEW ids \in SUBSET shown[t], MarkRead(t, ids)
    PROVE  TypeOK' /\ AtHome' /\ UnseenStaysUnread'
    <1>1. UNCHANGED <<tool, dialect, list, walk, shown>>
      BY DEF MarkRead, fixed
    <1>2. PICK marked \in SUBSET shown[t] : unread' = [unread EXCEPT ![t] = @ \ marked]
      <2>1. CASE \E marked \in Observed(t, ids) : unread' = [unread EXCEPT ![t] = @ \ marked]
        BY <2>1 DEF Observed
      <2>2. CASE UNCHANGED unread
        <3>1. unread' = [unread EXCEPT ![t] = @ \ {}] /\ {} \in SUBSET shown[t]
          BY <2>2 DEF IInv, TypeOK
        <3>2. QED
          BY <3>1
      <2>3. QED
        BY <2>1, <2>2 DEF MarkRead
    <1>3. QED
      BY <1>1, <1>2 DEF IInv, TypeOK, AtHome, UnseenStaysUnread, Listed

\* The backend did what the agent is told was done.
LEMMA ToldStep ==
    ASSUME NEW what, NEW id, NEW done \in BOOLEAN, Told(what, id, done)
    PROVE  ToldTruly'
    <1>1. CASE \E told \in {Confirms(c, what, id) :
                   c \in {x \in Confirmation : Truthful(x, what, id, done)}} :
                 deed' = [done |-> done, told |-> told]
      <2>1. PICK c \in Confirmation :
              /\ Truthful(c, what, id, done)
              /\ deed' = [done |-> done, told |-> Confirms(c, what, id)]
        BY <1>1
      <2>2. Confirms(c, what, id) => done
        BY <2>1 DEF Confirms, Truthful
      <2>3. deed'.done = done /\ deed'.told = Confirms(c, what, id)
        BY <2>1
      <2>4. QED
        BY <2>2, <2>3 DEF ToldTruly
    <1>2. CASE deed' = [done |-> TRUE, told |-> TRUE]
      BY <1>2 DEF ToldTruly
    <1>3. QED
      BY <1>1, <1>2 DEF Told

LEMMA InitInv == Init => IInv /\ ViewGenuine /\ ToldTruly
    <1> SUFFICES ASSUME Init PROVE IInv /\ ViewGenuine /\ ToldTruly
      OBVIOUS
    <1>1. list = Before /\ Before \in [Target -> Seq(Entry)]
      BY ReadingParameters DEF Init
    <1>2. \A t \in Target : Listed(t) \subseteq Entry
      BY <1>1, ElementOfSeq DEF Listed
    <1>3. TypeOK
      BY <1>1, <1>2 DEF Init, TypeOK
    <1>4. AtHome
      BY <1>1, ReadingParameters DEF AtHome, Listed
    <1>5. UnseenStaysUnread
      BY DEF Init, UnseenStaysUnread
    <1>6. ViewGenuine
      BY DEF Init, ViewGenuine
    <1>7. ToldTruly
      BY DEF Init, NoDeed, ToldTruly
    <1>8. QED
      BY <1>3, <1>4, <1>5, <1>6, <1>7 DEF IInv

LEMMA NextKeeps == IInv /\ ViewGenuine /\ [Next]_vars => IInv' /\ ViewGenuine'
    <1> SUFFICES ASSUME IInv, ViewGenuine, [Next]_vars PROVE IInv' /\ ViewGenuine'
      OBVIOUS
    <1>1. CASE ReadPage
      BY <1>1, ReadKeeps
    <1>2. ASSUME UNCHANGED <<tool, dialect, shown, nested>> PROVE ViewGenuine'
      BY <1>2 DEF ViewGenuine
    <1>3. ASSUME NEW t \in Target, NEW size \in SIZES, StartWalk(t, size)
          PROVE  IInv' /\ ViewGenuine'
      BY <1>2, <1>3, StartKeeps DEF IInv, StartWalk, fixed
    <1>4. ASSUME NEW e \in Entry, Arrive(e) PROVE IInv' /\ ViewGenuine'
      BY <1>2, <1>4, ArriveKeeps DEF IInv, Arrive, fixed
    <1>5. ASSUME NEW e \in Entry, DeletePost(e) PROVE IInv' /\ ViewGenuine'
      BY <1>2, <1>5, DeleteKeeps DEF IInv, DeletePost, fixed
    <1>6. ASSUME NEW t \in Target, NEW ids \in SUBSET shown[t], MarkRead(t, ids)
          PROVE  IInv' /\ ViewGenuine'
      BY <1>2, <1>6, MarkKeeps DEF IInv, MarkRead, fixed
    <1>7. ASSUME UNCHANGED <<tool, dialect, list, unread, walk, shown, nested>>
          PROVE  IInv' /\ ViewGenuine'
      BY <1>2, <1>7 DEF IInv, TypeOK, AtHome, UnseenStaysUnread, Listed
    <1>8. ASSUME NEW e \in Entry, Like(e) PROVE IInv' /\ ViewGenuine'
      BY <1>7, <1>8 DEF Like, fixed
    <1>9. CASE UNCHANGED vars
      BY <1>7, <1>9 DEF vars
    <1>10. QED
      BY <1>1, <1>3, <1>4, <1>5, <1>6, <1>8, <1>9 DEF Next

THEOREM Invariance == Spec => [](IInv /\ ViewGenuine)
    BY InitInv, NextKeeps, PTL DEF Spec

-------------------------------------------------------------------------------
(* To the end of the pages                                                  *)

LEMMA Ceiling ==
    ASSUME NEW n \in Nat, NEW d \in Nat \ {0}
    PROVE  /\ CeilDiv(n, d) \in Nat
           /\ n <= d * CeilDiv(n, d)
    BY DEF CeilDiv

LEMMA LastPage ==
    ASSUME NEW n \in Nat, NEW d \in Nat \ {0}, NEW p \in Nat, p + 1 >= CeilDiv(n, d)
    PROVE  n <= (p + 1) * d
    <1> DEFINE c == CeilDiv(n, d)
    <1>1. c \in Nat /\ n <= d * c /\ c <= p + 1
      BY Ceiling
    <1> HIDE DEF c
    <1>2. d * c <= d * (p + 1) /\ d * (p + 1) = (p + 1) * d
      BY <1>1
    <1>3. d * c \in Int /\ d * (p + 1) \in Int
      BY <1>1
    <1>4. QED
      BY <1>1, <1>2, <1>3

\* What the page data say of the page.
LEMMA PageFields ==
    ASSUME NEW q \in Asked
    PROVE  LET m == PageData(q)
               pages == CeilDiv(Len(list[q.target]), q.size)
           IN  /\ "page" \in DOMAIN m => m["page"] = q.page
               /\ "size" \in DOMAIN m => m["size"] = q.size
               /\ "total_pages" \in DOMAIN m => m["total_pages"] = pages
               /\ "has_next" \in DOMAIN m => m["has_next"] = (q.page + 1 < pages)
               /\ "is_last" \in DOMAIN m => m["is_last"] = (q.page + 1 >= pages)
    BY DEF PageData

\* An answer that names a target and a page, and passes, is the one for them.
LEMMA PassedWhole ==
    ASSUME TypeOK, AtHome, NEW r \in Asked,
           NEW a \in {Answer(r)} \cup FaultyAnswers(r), Accepts(a, r), Identifies(a)
    PROVE  /\ \A e \in Slice(r) : \E i \in a.items : i.id = e
           /\ OneWrong(a.meta, PageData(r))
    <1>1. CASE \E q \in Request : a = Answer(q)
      <2>1. PICK q \in Request : a = Answer(q)
        BY <1>1
      <2>2. q \in Asked /\ a.meta = PageData(q)
        BY <2>1, RequestAsked DEF Answer
      <2>3. q.page = r.page /\ q.size = r.size
        BY <2>2, PageFields DEF Identifies, Accepts, MatchesRequest, Says
      <2>4. q.target = r.target
        <3>1. CASE tool = "get_note_thread"
          <4>1. a.named = q.target
            BY <2>1, <3>1 DEF Answer
          <4>2. QED
            BY <3>1, <4>1 DEF Accepts, OnTarget
        <3>2. CASE tool # "get_note_thread"
          <4>1. a.named = None
            BY <2>1, <3>2 DEF Answer
          <4>2. PICK i \in a.items : TRUE
            BY <4>1 DEF Identifies
          <4>3. OfItself(i) /\ i.id \in Slice(q)
            BY <2>1, <2>2, AnswerItems
          <4>4. Home[i.id] = r.target
            BY <3>2, <4>3, PassedHome DEF Named, Accepts
          <4>5. q.target \in Target /\ i.id \in Listed(q.target)
            BY <2>2, <4>3, SliceListed DEF Asked
          <4>6. QED
            BY <4>4, <4>5 DEF AtHome
        <3>3. QED
          BY <3>1, <3>2
      <2>5. q = r
        BY <2>2, <2>3, <2>4 DEF Asked
      <2>6. QED
        BY <2>1, <2>2, <2>5, AnswerItems DEF OneWrong
    <1>2. QED
      BY <1>1, Answers

\* Such an answer says that there is no further page only if there is none.
LEMMA LastIsLast ==
    ASSUME TypeOK, AtHome, NEW r \in Asked,
           NEW a \in {Answer(r)} \cup FaultyAnswers(r), Accepts(a, r), Identifies(a),
           ~HasNext(a.meta)
    PROVE  Len(list[r.target]) <= (r.page + 1) * r.size
    <1> DEFINE m == a.meta
               b == PageData(r)
               pages == CeilDiv(Len(list[r.target]), r.size)
    <1>1. /\ OneWrong(m, b) /\ Consistent(m) /\ MatchesRequest(m, r)
          /\ "page" \in DOMAIN m /\ "size" \in DOMAIN m /\ "total_pages" \in DOMAIN m
      BY PassedWhole DEF Accepts, Identifies
    <1>2. /\ "total_pages" \in DOMAIN b => b["total_pages"] = pages
          /\ "has_next" \in DOMAIN b => b["has_next"] = (r.page + 1 < pages)
          /\ "is_last" \in DOMAIN b => b["is_last"] = (r.page + 1 >= pages)
      BY PageFields
    <1>3. r.page \in Nat /\ r.size \in Nat \ {0} /\ Len(list[r.target]) \in Nat
      BY ReadingParameters, LenProperties DEF Asked, TypeOK
    <1>4. pages \in Nat
      BY <1>3, Ceiling
    <1>5. m["page"] = r.page
      BY <1>1 DEF MatchesRequest, Says
    <1>6. DOMAIN m = DOMAIN b /\ DOMAIN b = dialect \cap PageField
      BY Flags, FlagsOf
    <1>7. /\ "has_next" \in DOMAIN m => m["has_next"] \in BOOLEAN
          /\ "is_last" \in DOMAIN m => m["is_last"] \in BOOLEAN
      BY Flags, <1>6 DEF Flag
    <1>8. ~HasNext(m) /\ HasNext(m) =
            CASE Says(m, "has_next") -> m["has_next"]
              [] ~Says(m, "has_next") /\ Says(m, "is_last") -> ~m["is_last"]
              [] OTHER -> TRUE
      BY DEF HasNext
    <1> HIDE DEF m, b, pages
    <1>9. \/ "has_next" \in DOMAIN m /\ ~m["has_next"]
          \/ "is_last" \in DOMAIN m /\ m["is_last"]
      BY <1>7, <1>8 DEF Says
    <1>10. ~(r.page + 1 < m["total_pages"])
      BY <1>1, <1>5, <1>7, <1>9 DEF Consistent, Says
    <1>11. r.page + 1 >= pages
      <2>1. CASE m["total_pages"] = b["total_pages"]
        BY <1>1, <1>2, <1>3, <1>4, <1>6, <1>10, <2>1
      <2>2. CASE m["total_pages"] # b["total_pages"]
        <3>1. /\ "has_next" \in DOMAIN m => m["has_next"] = b["has_next"]
              /\ "is_last" \in DOMAIN m => m["is_last"] = b["is_last"]
          BY <1>1, <1>6, <2>2 DEF OneWrong
        <3>2. ~(r.page + 1 < pages) \/ r.page + 1 >= pages
          BY <1>2, <1>6, <1>9, <3>1, Zenon
        <3>3. QED
          BY <1>3, <1>4, <3>2
      <2>3. QED
        BY <2>1, <2>2
    <1>12. QED
      BY <1>3, <1>11, LastPage DEF pages

\* Between the pages of an agent that could tell what it got, what it misses is
\* listed behind the pages it has seen.
Ahead ==
    ~walk.over /\ walk.identified /\ tool # "get_board_posts" =>
       LET r == walk.next
       IN  \A e \in walk.missing : \E i \in DOMAIN list[r.target] :
              list[r.target][i] = e /\ i > r.page * r.size

LEMMA ReadAhead == ASSUME IInv, Ahead, ReadPage PROVE Ahead' /\ SeenWhole'
    <1> DEFINE r == walk.next
               s == list[r.target]
    <1>1. PICK a \in {Answer(r)} \cup FaultyAnswers(r) :
            /\ Accepts(a, r)
            /\ walk' = [walk EXCEPT
                 !.over = ~HasNext(a.meta),
                 !.next.page = @ + 1,
                 !.missing = @ \ {i.id : i \in a.items},
                 !.identified = @ /\ Identifies(a)]
      BY DEF ReadPage
    <1>2. walk \in Walk /\ r \in Asked /\ ~walk.over /\ UNCHANGED <<tool, list>>
      BY WalkNext DEF IInv, ReadPage, fixed
    <1>3. /\ walk'.over = ~HasNext(a.meta)
          /\ walk'.next.target = r.target /\ walk'.next.size = r.size
          /\ walk'.next.page = r.page + 1
          /\ walk'.missing = walk.missing \ {i.id : i \in a.items}
          /\ walk'.identified = (walk.identified /\ Identifies(a))
      BY <1>1, <1>2 DEF Walk
    <1>4. r.page \in Nat /\ r.size \in Nat \ {0} /\ s \in Seq(Entry)
      BY <1>2, ReadingParameters DEF IInv, TypeOK, Asked
    <1>5. Len(s) \in Nat /\ DOMAIN s = 1 .. Len(s)
      BY <1>4, LenProperties
    <1> DEFINE first == r.page * r.size
               last == (r.page + 1) * r.size
    <1>6. first \in Nat /\ last \in Nat
      BY <1>4
    <1>7. SUFFICES ASSUME walk'.identified, tool # "get_board_posts"
                   PROVE  Ahead' /\ SeenWhole'
      BY <1>2 DEF Ahead, SeenWhole
    <1>8. walk.identified /\ Identifies(a)
      BY <1>3, <1>7
    <1>9. \A e \in Slice(r) : \E i \in a.items : i.id = e
      BY <1>1, <1>2, <1>8, PassedWhole DEF IInv
    <1>10. ASSUME NEW e \in walk'.missing
           PROVE  \E i \in DOMAIN s : s[i] = e /\ i > last
      <2>1. PICK i \in DOMAIN s : s[i] = e /\ i > first
        BY <1>2, <1>3, <1>7, <1>8 DEF Ahead
      <2>2. e \notin Slice(r)
        BY <1>3, <1>9
      <2>3. ~(first < i /\ i <= last)
        BY <2>1, <2>2 DEF Slice
      <2>4. i > last
        BY <1>5, <1>6, <2>1, <2>3
      <2>5. QED
        BY <2>1, <2>4
    <1>11. Ahead'
      BY <1>2, <1>3, <1>10 DEF Ahead
    <1>12. SeenWhole'
      <2>1. SUFFICES ASSUME walk'.over, NEW e \in walk'.missing PROVE FALSE
        BY DEF SeenWhole
      <2>2. ~HasNext(a.meta)
        BY <1>3, <2>1
      <2>3. Len(s) <= last
        BY <1>1, <1>2, <1>8, <2>2, LastIsLast DEF IInv
      <2>4. QED
        BY <1>5, <1>6, <1>10, <2>3
    <1>13. QED
      BY <1>11, <1>12

\* Who arrives moves nobody to an earlier page.
LEMMA ArriveAhead ==
    ASSUME IInv, Ahead, SeenWhole, NEW e \in Entry, Arrive(e)
    PROVE  Ahead' /\ SeenWhole'
    <1> DEFINE h == Home[e]
               r == walk.next
    <1>1. /\ list' \in {[list EXCEPT ![h] = Append(@, e)], [list EXCEPT ![h] = <<e>> \o @]}
          /\ UNCHANGED <<tool, walk>>
      BY DEF Arrive, fixed
    <1>2. h \in Target
      BY ReadingParameters
    <1> HIDE DEF h
    <1>3. list[h] \in Seq(Entry) /\ Len(list[h]) \in Nat
      BY <1>2, LenProperties DEF IInv, TypeOK
    <1>4. PICK l \in {Append(list[h], e), <<e>> \o list[h]} : list' = [list EXCEPT ![h] = l]
      BY <1>1
    <1>5. ASSUME NEW i \in DOMAIN list[h]
          PROVE  \E j \in DOMAIN l : l[j] = list[h][i] /\ j >= i
      <2>1. CASE l = Append(list[h], e)
        BY <1>3, <2>1, AppendProperties
      <2>2. CASE l = <<e>> \o list[h]
        <3>1. <<e>> \in Seq(Entry) /\ Len(<<e>>) = 1
          OBVIOUS
        <3>2. l \in Seq(Entry) /\ Len(l) = 1 + Len(list[h])
              /\ \A k \in 1 .. 1 + Len(list[h]) :
                   l[k] = IF k <= 1 THEN <<e>>[k] ELSE list[h][k - 1]
          BY <1>3, <2>2, <3>1, ConcatProperties
        <3>3. i \in 1 .. Len(list[h]) /\ DOMAIN l = 1 .. 1 + Len(list[h])
          BY <1>3, <3>2, LenProperties
        <3>4. i + 1 \in DOMAIN l /\ l[i + 1] = list[h][i] /\ i + 1 >= i
          BY <1>3, <3>2, <3>3
        <3>5. QED
          BY <3>4
      <2>3. QED
        BY <2>1, <2>2
    <1>6. SeenWhole'
      BY <1>1 DEF SeenWhole
    <1>7. SUFFICES ASSUME ~walk.over, walk.identified, tool # "get_board_posts",
                          NEW g \in walk.missing
                   PROVE  \E j \in DOMAIN list'[r.target] :
                            list'[r.target][j] = g /\ j > r.page * r.size
      BY <1>1, <1>6 DEF Ahead
    <1>8. PICK i \in DOMAIN list[r.target] :
            list[r.target][i] = g /\ i > r.page * r.size
      BY <1>7 DEF Ahead
    <1>9. r \in Asked /\ r.target \in Target
      BY <1>7, WalkNext DEF IInv, Asked
    <1>10. CASE r.target # h
      BY <1>2, <1>4, <1>8, <1>9, <1>10 DEF IInv, TypeOK
    <1>11. CASE r.target = h
      <2>1. list'[r.target] = l
        BY <1>2, <1>4, <1>11 DEF IInv, TypeOK
      <2>2. PICK j \in DOMAIN l : l[j] = list[h][i] /\ j >= i
        BY <1>5, <1>8, <1>11
      <2>3. r.page * r.size \in Int
        <3>1. r.page \in Nat /\ r.size \in Nat
          BY <1>9, ReadingParameters DEF Asked
        <3> HIDE DEF r
        <3>2. QED
          BY <3>1
      <2>4. i \in Int /\ j \in Int
        <3>1. l \in Seq(Entry)
          BY <1>3, Grows
        <3>2. i \in DOMAIN list[h]
          BY <1>8, <1>11
        <3>3. QED
          BY <1>3, <2>2, <3>1, <3>2, Places, Zenon
      <2>5. j > r.page * r.size
        BY <1>8, <2>2, <2>3, <2>4
      <2>6. QED
        BY <1>8, <1>11, <2>1, <2>2, <2>5
    <1>12. QED
      BY <1>10, <1>11

LEMMA WholeStep == IInv /\ Ahead /\ SeenWhole /\ [Next]_vars => Ahead' /\ SeenWhole'
    <1> SUFFICES ASSUME IInv, Ahead, SeenWhole, [Next]_vars PROVE Ahead' /\ SeenWhole'
      OBVIOUS
    <1>1. CASE ReadPage
      BY <1>1, ReadAhead
    <1>2. ASSUME NEW e \in Entry, Arrive(e) PROVE Ahead' /\ SeenWhole'
      BY <1>2, ArriveAhead
    <1>3. ASSUME NEW t \in Target, NEW size \in SIZES, StartWalk(t, size)
          PROVE  Ahead' /\ SeenWhole'
      <2>1. /\ ~walk'.over /\ walk'.next.target = t /\ walk'.next.page = 0
            /\ walk'.next.size = size /\ walk'.missing = Listed(t) /\ list' = list
        BY <1>3 DEF StartWalk
      <2>2. size \in Nat /\ 0 * size = 0
        BY ReadingParameters
      <2>3. \A i \in DOMAIN list[t] : i > 0
        BY LenProperties DEF IInv, TypeOK
      <2>4. \A e \in Listed(t) : \E i \in DOMAIN list[t] : list[t][i] = e /\ i > 0 * size
        BY <2>2, <2>3 DEF Listed
      <2>5. QED
        BY <2>1, <2>4 DEF Ahead, SeenWhole
    <1>4. ASSUME UNCHANGED <<tool, list, walk>> PROVE Ahead' /\ SeenWhole'
      BY <1>4 DEF Ahead, SeenWhole
    <1>5. ASSUME NEW e \in Entry, DeletePost(e) PROVE Ahead' /\ SeenWhole'
      <2>1. tool = "get_board_posts" /\ tool' = tool
        <3>1. tool \in {"get_post_comments", "get_comment_replies", "get_note_thread",
                        "get_board_posts"}
          BY ReadingParameters DEF IInv, TypeOK
        <3>2. QED
          BY <1>5, <3>1 DEF DeletePost, Deeds, fixed
      <2>2. QED
        BY <2>1 DEF Ahead, SeenWhole
    <1>6. ASSUME NEW e \in Entry, Like(e) PROVE Ahead' /\ SeenWhole'
      BY <1>4, <1>6 DEF Like, fixed
    <1>7. ASSUME NEW t \in Target, NEW ids \in SUBSET shown[t], MarkRead(t, ids)
          PROVE  Ahead' /\ SeenWhole'
      BY <1>4, <1>7 DEF MarkRead, fixed
    <1>8. CASE UNCHANGED vars
      BY <1>4, <1>8 DEF vars
    <1>9. QED
      BY <1>1, <1>2, <1>3, <1>5, <1>6, <1>7, <1>8 DEF Next

-------------------------------------------------------------------------------
(* What holds of every reading                                              *)

\* Whatever is wrong with an answer, what is shown belongs where it is shown.
THEOREM ShowsGenuine == Spec => []ViewGenuine
    BY Invariance, PTL

\* No tool marks read what the agent was not shown, whatever arrives meanwhile.
THEOREM KeepsUnread == Spec => []UnseenStaysUnread
    <1>1. IInv => UnseenStaysUnread
      BY DEF IInv
    <1>2. QED
      BY <1>1, Invariance, PTL

\* The end of the pages is the end: what was listed at the start has been seen.
THEOREM WalksWhole == Spec => []SeenWhole
    <1>1. Init => Ahead /\ SeenWhole
      BY DEF Init, Idle, Ahead, SeenWhole
    <1>2. QED
      BY <1>1, WholeStep, Invariance, PTL DEF Spec

\* A deed is reported as done only if the backend did it, to that very target.
THEOREM TellsTruly == Spec => []ToldTruly
    <1>1. ToldTruly /\ [Next]_vars => ToldTruly'
      <2> SUFFICES ASSUME ToldTruly, [Next]_vars PROVE ToldTruly'
        OBVIOUS
      <2>1. ASSUME deed' = NoDeed PROVE ToldTruly'
        BY <2>1 DEF ToldTruly, NoDeed
      <2>2. ASSUME NEW t \in Target, NEW size \in SIZES, StartWalk(t, size)
            PROVE  ToldTruly'
        BY <2>1, <2>2 DEF StartWalk
      <2>3. CASE ReadPage
        BY <2>1, <2>3 DEF ReadPage
      <2>4. ASSUME NEW e \in Entry, Arrive(e) PROVE ToldTruly'
        BY <2>1, <2>4 DEF Arrive
      <2>5. ASSUME NEW e \in Entry, Like(e) PROVE ToldTruly'
        BY <2>5, ToldStep DEF Like
      <2>6. ASSUME NEW e \in Entry, DeletePost(e) PROVE ToldTruly'
        BY <2>6, ToldStep DEF DeletePost
      <2>7. ASSUME NEW t \in Target, NEW ids \in SUBSET shown[t], MarkRead(t, ids)
            PROVE  ToldTruly'
        BY <2>7, ToldStep DEF MarkRead
      <2>8. CASE UNCHANGED vars
        BY <2>8 DEF ToldTruly, vars
      <2>9. QED
        BY <2>2, <2>3, <2>4, <2>5, <2>6, <2>7, <2>8 DEF Next
    <1>2. QED
      BY <1>1, InitInv, PTL DEF Spec

===============================================================================
