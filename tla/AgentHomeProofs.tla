--------------------------- MODULE AgentHomeProofs ---------------------------
(***************************************************************************)
(* What holds of AgentHome for every daily limit, every set of offers and  *)
(* both settings of operation support.                                     *)
(***************************************************************************)
EXTENDS AgentHome, FiniteSetTheorems, TLAPS

-----------------------------------------------------------------------------
(* Offers: what the validator says and what the tool does.  Nothing is     *)
(* assumed of the values offered.                                          *)

\* Every single value passes the validator, and is there if it has to be.
AloneSound(tool, params) ==
    \A p \in Params[tool] :
        /\ p \in Required[tool] => params[p] # Absent
        /\ params[p] # Absent =>
               /\ ArgumentModelAccepts(tool, p, params[p])
               /\ SharedAccepts(p, params[p], tool)
               /\ tool \in Writes => TextAccepts(p, params[p])
               /\ p = "image_file_id" => ImageAccepted(params[p])

LEMMA AloneComplete ==
    ASSUME NEW tool \in Tools, NEW params
    PROVE  AloneSound(tool, params) <=>
               /\ InvalidAlone(tool, params) = {}
               /\ {p \in Required[tool] : params[p] = Absent} = {}
  <1>1. Required[tool] \subseteq Params[tool]
    BY DEF Required, Params, Tools, ChallengeParams
  <1>2. InvalidAlone(tool, params) = {} <=>
            \A p \in Params[tool] : params[p] # Absent =>
               /\ ArgumentModelAccepts(tool, p, params[p])
               /\ SharedAccepts(p, params[p], tool)
               /\ tool \in Writes => TextAccepts(p, params[p])
               /\ p = "image_file_id" => ImageAccepted(params[p])
    BY DEF InvalidAlone
  <1> QED  BY <1>1, <1>2 DEF AloneSound

LEMMA PairComplete ==
    ASSUME NEW tool \in Writes, NEW params
    PROVE  HalfPair(tool, params) = {} <=> ChallengePaired(params)
  <1>1. HalfPair(tool, params) = {} <=>
           \A p, q \in {"challenge_id", "answer"} : Given(params, p) \/ ~Given(params, q)
    BY DEF HalfPair
  <1>2. ChallengePaired(params) <=>
           (Given(params, "challenge_id") <=> Given(params, "answer"))
    BY DEF ChallengePaired, Given
  <1> QED  BY <1>1, <1>2

\* The tool names of the shared checks only matter for a board.
LEMMA NamedCheck ==
    ASSUME NEW tool, NEW p, NEW value, tool # "create_post" \/ p # "board_id"
    PROVE  SharedAccepts(p, value, tool) <=> SharedAccepts(p, value, "")
  BY DEF SharedAccepts

LEMMA FeedAgrees ==
    ASSUME NEW params
    PROVE  Entered("get_feed", params) <=> InputComplete("get_feed", params)
  <1> DEFINE tool == "get_feed"
  <1>1. tool \in Tools /\ tool \notin Writes /\ Required[tool] = {}
        /\ Params[tool] = {"board_id", "limit", "cursor", "page", "size"}
    BY DEF Tools, Params, Writes, Required
  <1>2. InputComplete(tool, params) <=>
            AloneSound(tool, params) /\ FeedConflicts(params) = {}
    <2>1. Invalid(tool, params) = InvalidAlone(tool, params) \cup FeedConflicts(params)
      BY DEF Invalid
    <2>2. HalfPair(tool, params) = {}
      BY <1>1 DEF HalfPair
    <2>3. Missing(tool, params) = {p \in Required[tool] : params[p] = Absent}
      BY <2>2 DEF Missing
    <2> QED  BY <1>1, <2>1, <2>3, AloneComplete DEF InputComplete, Valid
  <1>3. FeedConflicts(params) = {} <=> ~Given(params, "cursor") /\ SizesAgree(params)
    BY DEF FeedConflicts
  <1>4. Entered(tool, params) <=>
            /\ \A p \in Params[tool] : /\ ArgumentModelAccepts(tool, p, params[p])
                                       /\ SharedAccepts(p, params[p], "")
            /\ FeedPageAccepted(params)
    BY <1>1 DEF Entered
  <1>5. \A p \in {"limit", "page", "size"} :
            SharedAccepts(p, params[p], "get_feed") <=> SharedAccepts(p, params[p], "")
    BY NamedCheck
  <1>6. AloneSound(tool, params) <=>
            \A p \in Params[tool] : /\ ArgumentModelAccepts(tool, p, params[p])
                                    /\ SharedAccepts(p, params[p], "")
    <2>1. \A p \in Params[tool] :
              /\ params[p] = Absent => ArgumentModelAccepts(tool, p, params[p])
                                       /\ SharedAccepts(p, params[p], "")
              /\ SharedAccepts(p, params[p], tool) <=> SharedAccepts(p, params[p], "")
      BY <1>1, NamedCheck DEF ArgumentModelAccepts, SharedAccepts, Absent
    <2> QED  BY <1>1, <2>1 DEF AloneSound
  <1> QED  BY <1>1, <1>2, <1>3, <1>4, <1>5, <1>6 DEF FeedPageAccepted

\* The validator's checks of single values are those of the tool, but for the
\* board and the image, which create_post checks on its own.
LEMMA WriteAlone ==
    ASSUME NEW tool \in Writes, NEW params
    PROVE  AloneSound(tool, params) <=>
               \A p \in Params[tool] :
                   /\ ArgumentModelAccepts(tool, p, params[p])
                   /\ SharedAccepts(p, params[p], "")
                   /\ TextAccepts(p, params[p])
                   /\ p = "board_id" => SharedAccepts(p, params[p], tool)
                   /\ p = "image_file_id" => ImageAccepted(params[p])
  <1>1. \A p \in Params[tool] :
            /\ params[p] = Absent /\ p \notin Required[tool] =>
                   /\ ArgumentModelAccepts(tool, p, params[p])
                   /\ SharedAccepts(p, params[p], "")
                   /\ SharedAccepts(p, params[p], tool)
                   /\ TextAccepts(p, params[p])
                   /\ ImageAccepted(params[p])
            /\ ArgumentModelAccepts(tool, p, params[p]) /\ p \in Required[tool] =>
                   params[p] # Absent
    BY DEF ArgumentModelAccepts, SharedAccepts, TextAccepts, ImageAccepted, Absent
  <1>2. \A p \in Params[tool] :
            /\ p # "board_id" =>
                   (SharedAccepts(p, params[p], tool) <=> SharedAccepts(p, params[p], ""))
            /\ SharedAccepts(p, params[p], tool) => SharedAccepts(p, params[p], "")
    BY DEF SharedAccepts
  <1> QED  BY <1>1, <1>2 DEF AloneSound

LEMMA CommentAgrees ==
    ASSUME NEW params
    PROVE  Entered("create_comment", params) <=>
               InputComplete("create_comment", params) /\ OperationUsable(params)
  <1> DEFINE tool == "create_comment"
  <1>1. tool \in Tools /\ tool \in Writes
        /\ "board_id" \notin Params[tool] /\ "image_file_id" \notin Params[tool]
    BY DEF Tools, Params, Writes, ChallengeParams
  <1>2. InputComplete(tool, params) <=>
            AloneSound(tool, params) /\ ChallengePaired(params)
    <2>1. Invalid(tool, params) = InvalidAlone(tool, params)
      BY DEF Invalid
    <2>2. Missing(tool, params) =
              {p \in Required[tool] : params[p] = Absent} \cup HalfPair(tool, params)
      BY DEF Missing
    <2> QED  BY <1>1, <2>1, <2>2, AloneComplete, PairComplete DEF InputComplete, Valid
  <1>3. Entered(tool, params) <=>
            /\ \A p \in Params[tool] : /\ ArgumentModelAccepts(tool, p, params[p])
                                       /\ SharedAccepts(p, params[p], "")
                                       /\ TextAccepts(p, params[p])
            /\ OperationUsable(params) /\ ChallengePaired(params)
    BY <1>1 DEF Entered
  <1> QED  BY <1>1, <1>2, <1>3, WriteAlone

LEMMA NoteAgrees ==
    ASSUME NEW params
    PROVE  Entered("send_note", params) <=>
               InputComplete("send_note", params) /\ OperationUsable(params)
  <1> DEFINE tool == "send_note"
  <1>1. tool \in Tools /\ tool \in Writes
        /\ "board_id" \notin Params[tool] /\ "image_file_id" \notin Params[tool]
    BY DEF Tools, Params, Writes, ChallengeParams
  <1>2. NoteTargets(params) = {} /\ NoteNeeds(params) = {} <=> NoteTargetAccepted(params)
    <2>1. NoteTargets(params) = {} <=>
              \/ NoteTargetAccepted(params)
              \/ ~Given(params, "recipient_agent_name") /\ ~Given(params, "note_thread_id")
      BY DEF NoteTargets
    <2>2. NoteNeeds(params) = {} <=>
              Given(params, "recipient_agent_name") \/ Given(params, "note_thread_id")
      BY DEF NoteNeeds
    <2>3. NoteTargetAccepted(params) =>
              ~(Given(params, "recipient_agent_name") <=> Given(params, "note_thread_id"))
      BY DEF NoteTargetAccepted, Given
    <2> QED  BY <2>1, <2>2, <2>3
  <1>3. InputComplete(tool, params) <=>
            /\ AloneSound(tool, params) /\ ChallengePaired(params)
            /\ NoteTargetAccepted(params)
    <2>1. Invalid(tool, params) = InvalidAlone(tool, params) \cup NoteTargets(params)
      BY DEF Invalid
    <2>2. Missing(tool, params) =
              {p \in Required[tool] : params[p] = Absent} \cup HalfPair(tool, params)
                  \cup NoteNeeds(params)
      BY DEF Missing
    <2> QED  BY <1>1, <1>2, <2>1, <2>2, AloneComplete, PairComplete
             DEF InputComplete, Valid
  <1>4. Entered(tool, params) <=>
            /\ \A p \in Params[tool] : /\ ArgumentModelAccepts(tool, p, params[p])
                                       /\ SharedAccepts(p, params[p], "")
                                       /\ TextAccepts(p, params[p])
            /\ OperationUsable(params) /\ ChallengePaired(params)
            /\ NoteTargetAccepted(params)
    BY <1>1 DEF Entered
  <1> QED  BY <1>1, <1>3, <1>4, WriteAlone

\* A post needs one board, and an image below an alternative text.
LEMMA PostAgrees ==
    ASSUME NEW params
    PROVE  Entered("create_post", params) <=>
               InputComplete("create_post", params) /\ OperationUsable(params)
  <1> DEFINE tool == "create_post"
             both == Given(params, "board_id") /\ Given(params, "board_url")
             one  == Given(params, "board_id") \/ Given(params, "board_url")
             image == params["image_alt"] \notin {Absent, Null, "blank"} =>
                          Image(params["image_file_id"]) # Null
  <1>1. tool \in Tools /\ tool \in Writes
        /\ {"board_id", "board_url", "image_file_id", "image_alt"} \subseteq Params[tool]
    BY DEF Tools, Params, Writes, ChallengeParams
  <1>2. BothTargets(params) = {} <=> ~both
    BY DEF BothTargets
  <1>3. params["image_alt"] # "wrong" => (PostNeeds(params) = {} <=> one /\ image)
    BY DEF PostNeeds, Given
  <1>4. AloneSound(tool, params) => params["image_alt"] # "wrong"
    BY <1>1, WriteAlone DEF ArgumentModelAccepts
  <1>5. InputComplete(tool, params) <=>
            /\ AloneSound(tool, params) /\ ChallengePaired(params)
            /\ one /\ ~both /\ image
    <2>1. Invalid(tool, params) = InvalidAlone(tool, params) \cup BothTargets(params)
      BY DEF Invalid
    <2>2. Missing(tool, params) =
              {p \in Required[tool] : params[p] = Absent} \cup HalfPair(tool, params)
                  \cup PostNeeds(params)
      BY DEF Missing
    <2> HIDE DEF tool, both, one, image
    <2> QED  BY <1>1, <1>2, <1>3, <1>4, <2>1, <2>2, AloneComplete, PairComplete
             DEF InputComplete, Valid
  <1>6. BoardTargetAccepted(params) <=>
            /\ one /\ ~both
            /\ SharedAccepts("board_id", params["board_id"], tool)
            /\ SharedAccepts("board_url", params["board_url"], tool)
    BY DEF BoardTargetAccepted, Given
  <1>7. SharedAccepts("board_url", params["board_url"], tool) <=>
            SharedAccepts("board_url", params["board_url"], "")
    BY NamedCheck
  <1>8. Entered(tool, params) <=>
            /\ \A p \in Params[tool] : /\ ArgumentModelAccepts(tool, p, params[p])
                                       /\ SharedAccepts(p, params[p], "")
                                       /\ TextAccepts(p, params[p])
            /\ OperationUsable(params) /\ ChallengePaired(params)
            /\ BoardTargetAccepted(params)
            /\ ImageAccepted(params["image_file_id"]) /\ image
    BY <1>1 DEF Entered, ImageRule
  <1>9. AloneSound(tool, params) <=>
            /\ \A p \in Params[tool] : /\ ArgumentModelAccepts(tool, p, params[p])
                                       /\ SharedAccepts(p, params[p], "")
                                       /\ TextAccepts(p, params[p])
            /\ SharedAccepts("board_id", params["board_id"], tool)
            /\ ImageAccepted(params["image_file_id"])
    <2> HIDE DEF tool
    <2> QED  BY <1>1, WriteAlone
  <1>10. Entered(tool, params) <=> InputComplete(tool, params) /\ OperationUsable(params)
    <2> HIDE DEF tool, both, one, image
    <2> QED  BY <1>1, <1>5, <1>6, <1>7, <1>8, <1>9
  <1> QED  BY <1>10

-----------------------------------------------------------------------------
(* Filling in what is named as missing *)

LEMMA MissingKnown ==
    ASSUME NEW tool \in Tools, NEW params
    PROVE  /\ Missing(tool, params) \subseteq Params[tool]
           /\ \A p \in {"challenge_id", "answer"} :
                  p \in Missing(tool, params) <=> p \in HalfPair(tool, params)
  <1>1. tool \in {"create_post", "create_comment", "send_note", "get_feed"}
    BY DEF Tools, Params
  <1>2. Required[tool] \subseteq Params[tool] \ {"challenge_id", "answer"}
    BY <1>1 DEF Required, Params, ChallengeParams
  <1>3. HalfPair(tool, params) \subseteq Params[tool] \cap {"challenge_id", "answer"}
    BY <1>1 DEF HalfPair, Writes, Params, ChallengeParams
  <1>4. PostNeeds(params) \subseteq Params["create_post"] \ {"challenge_id", "answer"}
    BY DEF PostNeeds, Params, ChallengeParams
  <1>5. NoteNeeds(params) \subseteq Params["send_note"] \ {"challenge_id", "answer"}
    BY DEF NoteNeeds, Params, ChallengeParams
  <1>6. CASE tool = "create_post"
    BY <1>2, <1>3, <1>4, <1>6 DEF Missing
  <1>7. CASE tool = "send_note"
    BY <1>2, <1>3, <1>5, <1>7 DEF Missing
  <1>8. CASE tool \in {"create_comment", "get_feed"}
    BY <1>2, <1>3, <1>8 DEF Missing
  <1> QED  BY <1>1, <1>6, <1>7, <1>8

LEMMA FilledAlone ==
    ASSUME NEW tool \in Tools, NEW params, Valid(tool, params)
    PROVE  AloneSound(tool, Filled(tool, params))
  <1> DEFINE full == Filled(tool, params)
  <1>1. SUFFICES ASSUME NEW p \in Params[tool]
                 PROVE  /\ p \in Required[tool] => full[p] # Absent
                        /\ full[p] # Absent =>
                               /\ ArgumentModelAccepts(tool, p, full[p])
                               /\ SharedAccepts(p, full[p], tool)
                               /\ tool \in Writes => TextAccepts(p, full[p])
                               /\ p = "image_file_id" => ImageAccepted(full[p])
    BY DEF AloneSound
  <1>2. CASE p \in Missing(tool, params)
    <2>1. full[p] = "ok"
      BY <1>1, <1>2 DEF Filled
    <2> QED  BY <2>1 DEF ArgumentModelAccepts, SharedAccepts, TextAccepts,
                         ImageAccepted, Absent, Null
  <1>3. CASE p \notin Missing(tool, params)
    <2>1. full[p] = params[p]
      BY <1>1, <1>3 DEF Filled
    <2>2. p \in Required[tool] => params[p] # Absent
      BY <1>3 DEF Missing
    <2>3. p \notin InvalidAlone(tool, params)
      BY DEF Valid, Invalid
    <2> QED  BY <1>1, <2>1, <2>2, <2>3 DEF InvalidAlone
  <1> QED  BY <1>2, <1>3

LEMMA FilledPair ==
    ASSUME NEW tool \in Writes, NEW params
    PROVE  ChallengePaired(Filled(tool, params))
  <1> DEFINE full == Filled(tool, params)
  <1>1. tool \in Tools /\ {"challenge_id", "answer"} \subseteq Params[tool]
    BY DEF Writes, Tools, Params, ChallengeParams
  <1>2. \A p \in {"challenge_id", "answer"} :
            full[p] = IF p \in HalfPair(tool, params) THEN "ok" ELSE params[p]
    BY <1>1, MissingKnown DEF Filled
  <1>3. \A p \in {"challenge_id", "answer"} :
            p \in HalfPair(tool, params) <=>
                /\ ~Given(params, p)
                /\ Given(params, "challenge_id") \/ Given(params, "answer")
    BY DEF HalfPair
  <1>4. \A p \in {"challenge_id", "answer"} :
            Given(full, p) <=> Given(params, "challenge_id") \/ Given(params, "answer")
    <2> HIDE DEF full
    <2> QED  BY <1>2, <1>3 DEF Given, Absent, Null
  <1>5. ChallengePaired(full) <=> (Given(full, "challenge_id") <=> Given(full, "answer"))
    BY DEF ChallengePaired, Given
  <1> QED  BY <1>4, <1>5

\* What every tool adds to the checks of single values.
LEMMA CompleteParts ==
    ASSUME NEW tool \in Tools, NEW params,
           AloneSound(tool, params), HalfPair(tool, params) = {},
           tool = "create_post" => BothTargets(params) = {} /\ PostNeeds(params) = {},
           tool = "send_note" => NoteTargets(params) = {} /\ NoteNeeds(params) = {},
           tool = "get_feed" => FeedConflicts(params) = {}
    PROVE  InputComplete(tool, params)
  <1>1. /\ InvalidAlone(tool, params) = {}
        /\ {p \in Required[tool] : params[p] = Absent} = {}
    BY AloneComplete
  <1>2. CASE tool = "create_post"
    <2>1. Invalid(tool, params) = InvalidAlone(tool, params) \cup BothTargets(params)
      BY <1>2 DEF Invalid
    <2>2. Missing(tool, params) = {p \in Required[tool] : params[p] = Absent}
                                     \cup HalfPair(tool, params) \cup PostNeeds(params)
      BY <1>2 DEF Missing
    <2> QED  BY <1>1, <1>2, <2>1, <2>2 DEF InputComplete, Valid
  <1>3. CASE tool = "send_note"
    <2>1. Invalid(tool, params) = InvalidAlone(tool, params) \cup NoteTargets(params)
      BY <1>3 DEF Invalid
    <2>2. Missing(tool, params) = {p \in Required[tool] : params[p] = Absent}
                                     \cup HalfPair(tool, params) \cup NoteNeeds(params)
      BY <1>3 DEF Missing
    <2> QED  BY <1>1, <1>3, <2>1, <2>2 DEF InputComplete, Valid
  <1>4. CASE tool = "get_feed"
    <2>1. Invalid(tool, params) = InvalidAlone(tool, params) \cup FeedConflicts(params)
      BY <1>4 DEF Invalid
    <2>2. Missing(tool, params) = {p \in Required[tool] : params[p] = Absent}
                                     \cup HalfPair(tool, params)
      BY <1>4 DEF Missing
    <2> QED  BY <1>1, <1>4, <2>1, <2>2 DEF InputComplete, Valid
  <1>5. CASE tool = "create_comment"
    <2>1. Invalid(tool, params) = InvalidAlone(tool, params)
      BY <1>5 DEF Invalid
    <2>2. Missing(tool, params) = {p \in Required[tool] : params[p] = Absent}
                                     \cup HalfPair(tool, params)
      BY <1>5 DEF Missing
    <2> QED  BY <1>1, <2>1, <2>2 DEF InputComplete, Valid
  <1> QED  BY <1>2, <1>3, <1>4, <1>5 DEF Tools, Params

LEMMA FilledComplete ==
    ASSUME NEW tool \in Tools, NEW params, Valid(tool, params)
    PROVE  InputComplete(tool, Filled(tool, params))
  <1> DEFINE full == Filled(tool, params)
  <1>1. AloneSound(tool, full)
    BY FilledAlone
  <1>3. HalfPair(tool, full) = {}
    <2>1. CASE tool \in Writes
      BY <2>1, FilledPair, PairComplete
    <2>2. CASE tool \notin Writes
      BY <2>2 DEF HalfPair
    <2> QED  BY <2>1, <2>2
  <1>4. \A p \in Params[tool] :
            full[p] = IF p \in Missing(tool, params) THEN "ok" ELSE params[p]
    BY DEF Filled
  <1> SUFFICES InputComplete(tool, full)
    OBVIOUS
  <1> HIDE DEF full
  <1>5. CASE tool = "create_post"
    <2>1. {"board_id", "board_url", "image_file_id", "image_alt"} \subseteq Params[tool]
      BY <1>5 DEF Params
    <2>2. /\ "board_id" \notin Missing(tool, params)
          /\ "image_alt" \notin Missing(tool, params)
          /\ \A p \in {"board_url", "image_file_id"} :
                 p \in Missing(tool, params) <=> p \in PostNeeds(params)
      BY <1>5 DEF Missing, Required, HalfPair, PostNeeds
    <2>3. BothTargets(params) = {}
      BY <1>5 DEF Valid, Invalid
    <2>4. ~(Given(params, "board_id") /\ Given(params, "board_url"))
      BY <2>3 DEF BothTargets
    <2>5. /\ full["board_id"] = params["board_id"]
          /\ full["image_alt"] = params["image_alt"]
          /\ full["board_url"] = IF "board_url" \in PostNeeds(params)
                                 THEN "ok" ELSE params["board_url"]
          /\ full["image_file_id"] = IF "image_file_id" \in PostNeeds(params)
                                     THEN "ok" ELSE params["image_file_id"]
      BY <1>4, <2>1, <2>2
    <2>6. BothTargets(full) = {}
      BY <2>4, <2>5 DEF BothTargets, PostNeeds, Given
    <2>7. PostNeeds(full) = {}
      <3>1. "board_url" \notin PostNeeds(full)
        BY <2>5 DEF PostNeeds, Given, Absent, Null
      <3>2. "image_file_id" \notin PostNeeds(full)
        BY <2>5 DEF PostNeeds, Image, ImageAccepted, Absent, Null
      <3> QED  BY <3>1, <3>2 DEF PostNeeds
    <2> QED  BY <1>1, <1>3, <1>5, <2>6, <2>7, CompleteParts
  <1>6. CASE tool = "send_note"
    <2>1. {"recipient_agent_name", "note_thread_id"} \subseteq Params[tool]
      BY <1>6 DEF Params
    <2>2. /\ "note_thread_id" \notin Missing(tool, params)
          /\ "recipient_agent_name" \in Missing(tool, params) <=>
                 "recipient_agent_name" \in NoteNeeds(params)
      BY <1>6 DEF Missing, Required, HalfPair, NoteNeeds
    <2>3. NoteTargets(params) = {}
      BY <1>6 DEF Valid, Invalid
    <2>4. NoteTargetAccepted(params) \/ "recipient_agent_name" \in NoteNeeds(params)
      BY <2>3 DEF NoteTargets, NoteNeeds
    <2>5. /\ full["note_thread_id"] = params["note_thread_id"]
          /\ full["recipient_agent_name"] = IF "recipient_agent_name" \in NoteNeeds(params)
                                            THEN "ok" ELSE params["recipient_agent_name"]
      BY <1>4, <2>1, <2>2
    <2>6. NoteTargets(full) = {} /\ NoteNeeds(full) = {}
      <3>1. CASE "recipient_agent_name" \in NoteNeeds(params)
        <4>1. ~Given(full, "note_thread_id") /\ Given(full, "recipient_agent_name")
          BY <2>5, <3>1 DEF NoteNeeds, Given, Absent, Null
        <4>2. SharedAccepts("recipient_agent_name", full["recipient_agent_name"], "")
          BY <2>5, <3>1 DEF SharedAccepts
        <4>3. NoteTargetAccepted(full)
          BY <4>1, <4>2 DEF NoteTargetAccepted
        <4> QED  BY <4>1, <4>3 DEF NoteTargets, NoteNeeds
      <3>2. CASE "recipient_agent_name" \notin NoteNeeds(params)
        <4>1. /\ full["note_thread_id"] = params["note_thread_id"]
              /\ full["recipient_agent_name"] = params["recipient_agent_name"]
          BY <2>5, <3>2
        <4>2. NoteTargetAccepted(full) <=> NoteTargetAccepted(params)
          BY <4>1 DEF NoteTargetAccepted, Given
        <4>3. NoteNeeds(full) = NoteNeeds(params)
          BY <4>1 DEF NoteNeeds, Given
        <4>4. NoteNeeds(params) = {}
          BY <3>2 DEF NoteNeeds
        <4>5. NoteTargets(full) = {}
          BY <2>4, <3>2, <4>2 DEF NoteTargets
        <4> QED  BY <4>3, <4>4, <4>5
      <3> QED  BY <3>1, <3>2
    <2> QED  BY <1>1, <1>3, <1>6, <2>6, CompleteParts
  <1>7. CASE tool = "get_feed"
    <2>1. \A p \in {"limit", "size", "cursor"} : p \in Params[tool] /\ p \notin Missing(tool, params)
      BY <1>7 DEF Params, Missing, Required, HalfPair, Writes
    <2>2. \A p \in {"limit", "size", "cursor"} : full[p] = params[p]
      BY <1>4, <2>1
    <2>3. FeedConflicts(params) = {}
      BY <1>7 DEF Valid, Invalid
    <2>4. FeedConflicts(full) = {}
      BY <2>2, <2>3 DEF FeedConflicts, SizesAgree, Given
    <2> QED  BY <1>1, <1>3, <1>7, <2>4, CompleteParts
  <1>8. CASE tool = "create_comment"
    BY <1>1, <1>3, <1>8, CompleteParts
  <1> QED  BY <1>5, <1>6, <1>7, <1>8 DEF Tools, Params

-----------------------------------------------------------------------------
(* The theorems *)

\* An operation's id is only read by the tools that write.
CallReady(tool, params) == tool \in Writes => OperationUsable(params)

\* For every tool and whatever values are offered: the tool takes the call
\* exactly when the validator calls the action valid and complete (and the
\* operation's id can be used), and takes every action called valid once the
\* inputs named as missing are added.
THEOREM OfferedAsCalled ==
    ASSUME NEW tool \in Tools, NEW params
    PROVE  /\ Entered(tool, params) <=>
                  InputComplete(tool, params) /\ CallReady(tool, params)
           /\ Valid(tool, params) /\ CallReady(tool, Filled(tool, params)) =>
                  Entered(tool, Filled(tool, params))
  <1>1. \A p : Entered(tool, p) <=> InputComplete(tool, p) /\ CallReady(tool, p)
    BY FeedAgrees, CommentAgrees, NoteAgrees, PostAgrees DEF CallReady, Tools, Params, Writes
  <1>2. Valid(tool, params) => InputComplete(tool, Filled(tool, params))
    BY FilledComplete
  <1> QED  BY <1>1, <1>2

\* What is known of a call at every moment: its offer is one of the offers, and a
\* post that is past its first read has been grounded there.
CallInv ==
    /\ call.phase = "home" =>
           /\ call.offer \in {NoOffer} \cup OFFERS
           /\ call.news \in SUBSET News
           /\ call.answer \in WithOneWrong(HomeTruth(account, call.news))
    /\ call.phase = "status" => call.answer \in WithOneWrong(StatusTruth(account))
    /\ call.phase = "blocked" => Preflight(call.answer) # "go"
    /\ call.phase = "preflight" => {"phase", "kind", "posting"} \subseteq DOMAIN call
    /\ call.phase = "authenticate" => (call.kind = "post" => call.posting)
    /\ call.phase = "cleared" => (call.kind = "post" => call.posting) /\ call.usable

\* A field that carries one truth value.
LEMMA OneFlag ==
    ASSUME NEW P \in BOOLEAN
    PROVE  /\ TRUE \in {P} <=> P
           /\ FALSE \in {P} <=> ~P
           /\ {P} \subseteq BOOLEAN
  OBVIOUS

LEMMA OneValue ==
    ASSUME NEW kind, NEW v \in kind
    PROVE  Agreed({v}, kind) /\ Stated({v}, kind)
  BY FS_Singleton DEF Agreed, Stated

\* What both right answers say of an account.
Says(t, a) ==
    /\ t.status = {a.standing}
    /\ t.suspended = {Suspended(a)}
    /\ t.can_create_post = {"post" \in a.may}
    /\ t.can_create_comment = {"comment" \in a.may}
    /\ t.can_send_note = {"note" \in a.may}
    /\ t.posts_remaining = {a.left["post"]}
    /\ t.comments_remaining = {a.left["comment"]}
    /\ t.notes_remaining = {a.left["note"]}
    /\ t.note_daily_limit = {LIMIT}

LEMMA TruthSays ==
    ASSUME NEW a, NEW news
    PROVE  Says(HomeTruth(a, news), a) /\ Says(StatusTruth(a), a)
  BY DEF HomeTruth, StatusTruth, With, Truth, Says

\* ... and what each says besides.
SaysNews(t, news) ==
    /\ t.constraints = {TRUE} /\ t.sections = {TRUE} /\ t.urgency = {}
    /\ t.warnings = {"warning" \in news}
    /\ t.unread_activity = {IF "activity" \in news THEN 1 ELSE 0}
    /\ t.unread_notes = {IF "notes" \in news THEN 1 ELSE 0}

\* ... and the capabilities once more.
SaysAvailable(t, a) ==
    /\ t.post_available = {"post" \in a.may}
    /\ t.comment_available = {"comment" \in a.may}
    /\ t.note_available = {"note" \in a.may}

LEMMA TruthSaysNews ==
    ASSUME NEW a, NEW news
    PROVE  SaysNews(HomeTruth(a, news), news) /\ SaysAvailable(HomeTruth(a, news), a)
  BY DEF HomeTruth, With, Truth, SaysNews, SaysAvailable

LEMMA TruthSaysLimits ==
    ASSUME NEW a
    PROVE  /\ StatusTruth(a).max_posts_per_day = {LIMIT}
           /\ StatusTruth(a).max_comments_per_day = {LIMIT}
  BY DEF StatusTruth, With, Truth

\* All fields of an answer but one are right.
LEMMA OneWrong ==
    ASSUME NEW truth, NEW answer \in WithOneWrong(truth)
    PROVE  \A f, g \in DOMAIN truth : f # g => answer[f] = truth[f] \/ answer[g] = truth[g]
  <1>1. CASE answer = truth
    BY <1>1
  <1>2. CASE answer # truth
    <2>1. PICK field \in DOMAIN truth : \E v \in Wrong(field) :
              answer = [truth EXCEPT ![field] = v]
      BY <1>2 DEF WithOneWrong
    <2> QED  BY <2>1
  <1> QED  BY <1>1, <1>2

LEMMA TruthDomain ==
    ASSUME NEW a, NEW news
    PROVE  LET known == {"status", "suspended", "can_create_post", "can_create_comment",
                         "can_send_note", "posts_remaining", "comments_remaining",
                         "notes_remaining"}
           IN  known \subseteq DOMAIN HomeTruth(a, news) /\ known \subseteq DOMAIN StatusTruth(a)
  BY DEF HomeTruth, StatusTruth, With, Truth

\* One wrong field cannot bring the check before a post to say go: what it asks
\* of the permission is asked again of the suspension and of the count.
LEMMA PreflightGrounded ==
    ASSUME NEW a \in Accounts, NEW news,
           NEW answer \in WithOneWrong(HomeTruth(a, news)), Preflight(answer) = "go"
    PROVE  ~Suspended(a) /\ a.left["post"] > 0
  <1> DEFINE t == HomeTruth(a, news)
  <1>1. /\ TRUE \notin answer.suspended /\ answer.suspended # {}
        /\ 0 \notin answer.posts_remaining
        /\ FALSE \notin answer.can_create_post
        /\ answer.can_create_post \subseteq BOOLEAN /\ answer.can_create_post # {}
    BY DEF Preflight, ConstraintsSound, Stated, Agreed
  <1>2. a.left["post"] \in Nat
    BY DEF Accounts, Kinds
  <1>3. CASE answer.can_create_post = t.can_create_post
    <2>1. t.can_create_post = {"post" \in a.may}
      BY TruthSays DEF Says
    <2>2. FALSE \notin {"post" \in a.may}
      BY <1>1, <1>3, <2>1
    <2>3. "post" \in a.may
      <3>1. ("post" \in a.may) \in BOOLEAN
        OBVIOUS
      <3> QED  BY <2>2, <3>1, OneFlag
    <2> QED  BY <2>3 DEF Accounts, Kinds, Usable, Suspended
  <1>4. CASE answer.can_create_post # t.can_create_post
    <2>1. answer.suspended = t.suspended /\ answer.posts_remaining = t.posts_remaining
      BY <1>4, OneWrong, TruthDomain
    <2>2. t.suspended = {Suspended(a)} /\ t.posts_remaining = {a.left["post"]}
      BY TruthSays DEF Says
    <2>3. TRUE \notin {Suspended(a)} /\ 0 \notin {a.left["post"]}
      BY <1>1, <2>1, <2>2
    <2>4. ~Suspended(a)
      BY <2>3 DEF Suspended
    <2> QED  BY <1>2, <2>3, <2>4
  <1> QED  BY <1>3, <1>4

\* What the permissions of an account say of it.
LEMMA AccountFacts ==
    ASSUME NEW a \in Accounts
    PROVE  /\ a.may \subseteq Kinds /\ a.standing \in Standings
           /\ \A kind \in Kinds : a.left[kind] \in 0 .. LIMIT
           /\ \A kind \in a.may : a.left[kind] # 0 /\ ~Suspended(a)
           /\ Suspended(a) \in BOOLEAN
  BY DEF Accounts, Suspended, Usable

\* A right answer passes every check of its constraints.
LEMMA TruthSound ==
    ASSUME NEW a \in Accounts, NEW t, Says(t, a)
    PROVE  /\ \A flag \in {t.suspended, t.can_create_post, t.can_create_comment,
                            t.can_send_note} : Stated(flag, BOOLEAN) /\ Agreed(flag, BOOLEAN)
           /\ \A count \in {t.posts_remaining, t.comments_remaining, t.notes_remaining,
                             t.note_daily_limit} : Stated(count, Count) /\ Agreed(count, Count)
           /\ PermissionSound(t.suspended, t.can_create_post, t.posts_remaining)
           /\ PermissionSound(t.suspended, t.can_create_comment, t.comments_remaining)
           /\ PermissionSound(t.suspended, t.can_send_note, t.notes_remaining)
           /\ \A n \in {t.posts_remaining, t.comments_remaining, t.notes_remaining} :
                  QuotaSound({LIMIT}, n)
           /\ Granted(t) = a.may
  <1>0. /\ LIMIT \in Nat /\ Kinds = {"post", "comment", "note"}
        /\ \A kind : (kind \in a.may) \in BOOLEAN
    BY HomeParameters DEF Kinds
  <1>1. \A flag \in {t.suspended, t.can_create_post, t.can_create_comment, t.can_send_note} :
            \E P \in BOOLEAN : flag = {P}
    BY <1>0, AccountFacts DEF Says
  <1>2. \A count \in {t.posts_remaining, t.comments_remaining, t.notes_remaining,
                      t.note_daily_limit} : \E n \in 0 .. LIMIT : count = {n}
    BY <1>0, AccountFacts DEF Says
  <1>3. 0 .. LIMIT \subseteq Count
    BY <1>0 DEF Count
  <1>4. \A n \in 0 .. LIMIT : QuotaSound({LIMIT}, {n})
    BY <1>0 DEF QuotaSound
  <1>5. \A kind \in Kinds :
            /\ TRUE \in {(kind \in a.may)} <=> kind \in a.may
            /\ PermissionSound({Suspended(a)}, {(kind \in a.may)}, {a.left[kind]})
    <2> SUFFICES ASSUME NEW kind \in Kinds
                 PROVE  /\ TRUE \in {(kind \in a.may)} <=> kind \in a.may
                        /\ PermissionSound({Suspended(a)}, {(kind \in a.may)}, {a.left[kind]})
      OBVIOUS
    <2>1. TRUE \in {(kind \in a.may)} <=> kind \in a.may
      BY <1>0, OneFlag
    <2>2. kind \in a.may => TRUE \notin {Suspended(a)} /\ 0 \notin {a.left[kind]}
      BY AccountFacts, OneFlag
    <2> QED  BY <2>1, <2>2 DEF PermissionSound
  <1>6. Granted(t) = a.may
    <2>1. \A kind \in Kinds : kind \in Granted(t) <=> kind \in a.may
      BY <1>0, <1>5 DEF Granted, Says
    <2> QED  BY <2>1, AccountFacts DEF Granted
  <1>7. \A flag \in {t.suspended, t.can_create_post, t.can_create_comment, t.can_send_note} :
            Stated(flag, BOOLEAN) /\ Agreed(flag, BOOLEAN)
    BY <1>1, OneValue
  <1>8. \A count \in {t.posts_remaining, t.comments_remaining, t.notes_remaining,
                      t.note_daily_limit} : Stated(count, Count) /\ Agreed(count, Count)
    BY <1>2, <1>3, OneValue
  <1>9. /\ PermissionSound(t.suspended, t.can_create_post, t.posts_remaining)
        /\ PermissionSound(t.suspended, t.can_create_comment, t.comments_remaining)
        /\ PermissionSound(t.suspended, t.can_send_note, t.notes_remaining)
    BY <1>0, <1>5 DEF Says
  <1> QED  BY <1>2, <1>4, <1>6, <1>7, <1>8, <1>9

\* A capability that is told one truth value is shown with it.
LEMMA AvailableOfTruth ==
    ASSUME NEW a \in Accounts, NEW t, SaysAvailable(t, a)
    PROVE  Available(t) = a.may
  <1>1. \A kind \in Kinds :
            TRUE \in {(kind \in a.may)} \/ Bad \in {(kind \in a.may)} <=> kind \in a.may
    <2> SUFFICES ASSUME NEW kind \in Kinds
                 PROVE  TRUE \in {(kind \in a.may)} \/ Bad \in {(kind \in a.may)}
                            <=> kind \in a.may
      OBVIOUS
    <2>1. (kind \in a.may) \in BOOLEAN
      OBVIOUS
    <2>2. Bad \notin {(kind \in a.may)}
      BY <2>1, HomeParameters
    <2> QED  BY <2>1, <2>2, OneFlag
  <1>2. \A kind \in Kinds : kind \in Available(t) <=> kind \in a.may
    BY <1>1 DEF Available, SaysAvailable, Kinds
  <1>3. Available(t) \subseteq Kinds /\ a.may \subseteq Kinds
    BY AccountFacts DEF Available
  <1> QED  BY <1>2, <1>3

LEMMA HomeOfTruth ==
    ASSUME NEW a \in Accounts, NEW news \in SUBSET News
    PROVE  LET t == HomeTruth(a, news)
           IN  /\ HomeShown(t)
               /\ Granted(t) = a.may
               /\ Available(t) = a.may
               /\ Urgency(t) = "normal" <=> news = {} /\ ~Suspended(a)
  <1> DEFINE t == HomeTruth(a, news)
  <1>1. Says(t, a)
    BY TruthSays
  <1>0. SaysNews(t, news) /\ SaysAvailable(t, a)
    BY TruthSaysNews
  <1> HIDE DEF t
  <1>2. /\ t.constraints = {TRUE} /\ t.sections = {TRUE} /\ t.urgency = {}
        /\ t.warnings = {"warning" \in news}
        /\ t.unread_activity = {IF "activity" \in news THEN 1 ELSE 0}
        /\ t.unread_notes = {IF "notes" \in news THEN 1 ELSE 0}
    BY <1>0 DEF SaysNews
  <1>3. LIMIT \in Nat \ {0} /\ {0, 1} \subseteq Count
    BY HomeParameters DEF Count
  <1>4. HomeShown(t)
    <2>1. ConstraintsSound(t, FALSE)
      <3>1. t.note_daily_limit = {LIMIT}
        BY <1>1 DEF Says
      <3> QED  BY <1>1, <3>1, TruthSound DEF ConstraintsSound
    <2>2. Stated(t.warnings, BOOLEAN)
      <3>1. ("warning" \in news) \in BOOLEAN
        OBVIOUS
      <3>2. Stated({"warning" \in news}, BOOLEAN)
        BY <3>1, OneValue
      <3> QED  BY <1>2, <3>2
    <2>3. Agreed(t.unread_activity, Count) /\ Agreed(t.unread_notes, Count \cup {None})
      BY <1>2, <1>3, OneValue
    <2>4. Agreed(t.urgency, {"normal", "urgent", None})
      BY <1>2, FS_EmptySet DEF Agreed
    <2> QED  BY <1>2, <2>1, <2>2, <2>3, <2>4 DEF HomeShown
  <1>5. Urgency(t) = "normal" <=> Reasons(t) = {}
    BY <1>2 DEF Urgency
  <1>6. Reasons(t) = {} <=> news = {} /\ ~Suspended(a)
    <2>1. /\ t.unread_activity \cap (1 .. LIMIT + 1) # {} <=> "activity" \in news
          /\ t.unread_notes \cap (1 .. LIMIT + 1) # {} <=> "notes" \in news
      BY <1>2, <1>3
    <2>2. /\ TRUE \in t.warnings <=> "warning" \in news
          /\ TRUE \in t.suspended <=> Suspended(a)
      BY <1>1, <1>2, OneFlag, AccountFacts DEF Says
    <2>3. Reasons(t) = {} <=>
              /\ "activity" \notin news /\ "notes" \notin news /\ "warning" \notin news
              /\ ~Suspended(a)
      BY <2>1, <2>2 DEF Reasons
    <2> QED  BY <2>3 DEF News
  <1>7. Granted(t) = a.may
    BY <1>1, TruthSound
  <1>8. Available(t) = a.may
    BY <1>0, AvailableOfTruth
  <1> QED  BY <1>4, <1>5, <1>6, <1>7, <1>8 DEF t

\* The home and the check before a post read one answer alike.
LEMMA AgreedFlag ==
    ASSUME NEW values, Agreed(values, BOOLEAN), TRUE \in values
    PROVE  FALSE \notin values
  <1> SUFFICES ASSUME FALSE \in values PROVE FALSE
    OBVIOUS
  <1>1. values = {TRUE, FALSE}
    BY DEF Agreed
  <1>2. IsFiniteSet({TRUE}) /\ Cardinality({TRUE}) = 1
    BY FS_Singleton
  <1>3. FALSE \notin {TRUE}
    OBVIOUS
  <1>4. Cardinality({TRUE} \cup {FALSE}) = Cardinality({TRUE}) + 1
    BY <1>2, <1>3, FS_AddElement
  <1>5. {TRUE} \cup {FALSE} = values
    BY <1>1
  <1>6. Cardinality(values) = 1 + 1
    BY <1>2, <1>4, <1>5
  <1>7. Cardinality(values) <= 1
    BY DEF Agreed
  <1> QED  BY <1>6, <1>7

LEMMA SameReading ==
    ASSUME NEW x, HomeShown(x)
    PROVE  Preflight(x) = "go" <=> "post" \in Granted(x)
  <1>1. /\ x.constraints # {} /\ ConstraintsSound(x, FALSE) /\ ConstraintsSound(x, TRUE)
    BY DEF HomeShown, ConstraintsSound
  <1>2. /\ Agreed(x.can_create_post, BOOLEAN)
        /\ x.can_create_post \subseteq BOOLEAN /\ x.can_create_post # {}
        /\ TRUE \in x.can_create_post => TRUE \notin x.suspended /\ 0 \notin x.posts_remaining
    BY <1>1 DEF ConstraintsSound, Stated, Agreed, PermissionSound
  <1>3. Preflight(x) = "go" <=>
            /\ TRUE \notin x.suspended /\ 0 \notin x.posts_remaining
            /\ FALSE \notin x.can_create_post
    BY <1>1 DEF Preflight
  <1>4. "post" \in Granted(x) <=> TRUE \in x.can_create_post
    BY DEF Granted, Kinds
  <1> QED  BY <1>2, <1>3, <1>4, AgreedFlag

\* A suspended account has no permission, and says so in two places.
LEMMA NothingGranted ==
    ASSUME NEW x,
           \A flag \in {x.can_create_post, x.can_create_comment, x.can_send_note} :
               TRUE \notin flag
    PROVE  Granted(x) = {}
  BY DEF Granted

LEMMA SuspendedSays ==
    ASSUME NEW a \in Accounts, Suspended(a), NEW t, Says(t, a)
    PROVE  /\ TRUE \in t.suspended /\ t.status = {"suspended"}
           /\ \A flag \in {t.can_create_post, t.can_create_comment, t.can_send_note} :
                  TRUE \notin flag
  <1>1. \A kind : kind \notin a.may
    BY AccountFacts
  <1>2. \A kind : TRUE \notin {(kind \in a.may)}
    BY <1>1
  <1>3. TRUE \in {Suspended(a)}
    BY AccountFacts, OneFlag
  <1>4. t.suspended = {Suspended(a)}
    BY DEF Says
  <1> QED  BY <1>2, <1>3, <1>4 DEF Says, Suspended

LEMMA SuspensionShown ==
    ASSUME NEW a \in Accounts, Suspended(a), NEW news,
           NEW answer \in WithOneWrong(HomeTruth(a, news)), HomeShown(answer)
    PROVE  Granted(answer) = {} /\ Escalations(answer) \ {"warning"} # {}
  <1> DEFINE t == HomeTruth(a, news)
  <1>1. /\ TRUE \in t.suspended /\ t.status = {"suspended"}
        /\ \A flag \in {t.can_create_post, t.can_create_comment, t.can_send_note} :
               TRUE \notin flag
    BY TruthSays, SuspendedSays
  <1>2. CASE answer.suspended = t.suspended
    <2>1. TRUE \in answer.suspended
      BY <1>1, <1>2
    <2>2. \A flag \in {answer.can_create_post, answer.can_create_comment,
                       answer.can_send_note} : TRUE \notin flag
      BY <2>1 DEF HomeShown, ConstraintsSound, PermissionSound
    <2>3. "agent_suspended" \in Escalations(answer)
      BY <2>1 DEF Escalations
    <2>4. Granted(answer) = {}
      BY <2>2, NothingGranted
    <2> QED  BY <2>3, <2>4
  <1>3. CASE answer.suspended # t.suspended
    <2>1. /\ answer.status = t.status /\ answer.can_create_post = t.can_create_post
          /\ answer.can_create_comment = t.can_create_comment
          /\ answer.can_send_note = t.can_send_note
      BY <1>3, OneWrong, TruthDomain
    <2>2. "agent_status_attention" \in Escalations(answer)
      BY <1>1, <2>1 DEF Escalations, Usable
    <2>3. \A flag \in {answer.can_create_post, answer.can_create_comment,
                       answer.can_send_note} : TRUE \notin flag
      BY <1>1, <2>1
    <2>4. Granted(answer) = {}
      BY <2>3, NothingGranted
    <2> QED  BY <2>2, <2>4
  <1> QED  BY <1>2, <1>3

LEMMA SuspensionStated ==
    ASSUME NEW a \in Accounts, Suspended(a),
           NEW answer \in WithOneWrong(StatusTruth(a)), StatusShown(answer)
    PROVE  TRUE \in answer.suspended /\ Granted(answer) = {}
  <1> DEFINE t == StatusTruth(a)
  <1>1. TRUE \in t.suspended /\ t.status = {"suspended"}
    BY TruthSays, SuspendedSays
  <1>2. answer.suspended = t.suspended \/ answer.status = t.status
    BY OneWrong, TruthDomain
  <1>3. TRUE \in answer.suspended
    BY <1>1, <1>2 DEF StatusShown
  <1>4. \A flag \in {answer.can_create_post, answer.can_create_comment,
                     answer.can_send_note} : TRUE \notin flag
    BY <1>3 DEF StatusShown, PermissionSound
  <1> QED  BY <1>3, <1>4, NothingGranted

LEMMA StatusOfTruth ==
    ASSUME NEW a \in Accounts
    PROVE  StatusShown(StatusTruth(a)) <=> a.standing # "pending"
  <1> DEFINE t == StatusTruth(a)
  <1>1. Says(t, a) /\ t.max_posts_per_day = {LIMIT} /\ t.max_comments_per_day = {LIMIT}
    BY TruthSays, TruthSaysLimits
  <1> HIDE DEF t
  <1>2. LIMIT \in Count
    BY HomeParameters DEF Count
  <1>3. Stated(t.max_posts_per_day, Count) /\ Stated(t.max_comments_per_day, Count)
    BY <1>1, <1>2, OneValue
  <1>4. Stated(t.status, Usable \cup {"suspended"}) <=> a.standing # "pending"
    <2>1. t.status = {a.standing} /\ a.standing \in Usable \cup {"suspended", "pending"}
      BY <1>1, AccountFacts DEF Says, Standings
    <2>2. a.standing # "pending" => Stated({a.standing}, Usable \cup {"suspended"})
      BY <2>1, OneValue
    <2>3. a.standing = "pending" => ~Stated({a.standing}, Usable \cup {"suspended"})
      BY DEF Stated, Agreed, Usable
    <2> QED  BY <2>1, <2>2, <2>3
  <1>5. t.status = {"suspended"} => TRUE \in t.suspended
    <2>1. t.status = {"suspended"} => Suspended(a)
      BY <1>1 DEF Says, Suspended
    <2> QED  BY <1>1, <2>1, SuspendedSays
  <1>6. t.note_daily_limit = {LIMIT}
    BY <1>1 DEF Says
  <1>7. StatusShown(t) <=> Stated(t.status, Usable \cup {"suspended"})
    BY <1>1, <1>3, <1>5, <1>6, TruthSound DEF StatusShown
  <1> QED  BY <1>4, <1>7 DEF t

\* The reason a post is refused for.
LEMMA RefusalOfTruth ==
    ASSUME NEW a \in Accounts, Preflight(HomeTruth(a, {})) # "go"
    PROVE  /\ "post" \notin a.may
           /\ Retryable(Preflight(HomeTruth(a, {}))) <=>
                  ~Suspended(a) /\ a.left["post"] = 0
  <1> DEFINE t == HomeTruth(a, {})
  <1>1. HomeShown(t) /\ Granted(t) = a.may
    BY HomeOfTruth
  <1>2. t.constraints # {} /\ ConstraintsSound(t, TRUE)
    BY <1>1 DEF HomeShown, ConstraintsSound
  <1>3. /\ TRUE \in t.suspended <=> Suspended(a)
        /\ 0 \in t.posts_remaining <=> a.left["post"] = 0
    <2>1. Says(t, a)
      BY TruthSays
    <2>2. t.suspended = {Suspended(a)} /\ t.posts_remaining = {a.left["post"]}
      BY <2>1 DEF Says
    <2>3. TRUE \in {Suspended(a)} <=> Suspended(a)
      BY AccountFacts, OneFlag
    <2> HIDE DEF t
    <2> QED  BY <2>2, <2>3
  <1>4. Retryable(Preflight(t)) <=> ~Suspended(a) /\ a.left["post"] = 0
    <2> HIDE DEF t
    <2> QED  BY <1>2, <1>3 DEF Preflight, Retryable
  <1> QED  BY <1>1, <1>4, SameReading

Inv == account \in Accounts /\ CallInv

LEMMA InvHolds == Spec => []Inv
  <1>1. Init => Inv
    BY DEF Init, Inv, CallInv, NoCall
  <1>2. Inv /\ [Next]_vars => Inv'
    <2> SUFFICES ASSUME Inv, [Next]_vars PROVE Inv'
      OBVIOUS
    <2> USE DEF Inv, CallInv
    <2>1. CASE AccountChanges
      BY <2>1 DEF AccountChanges
    <2>2. CASE GetAgentHome
      <3>1. PICK news \in SUBSET News :
                \E answer \in WithOneWrong(HomeTruth(account, news)) :
                \E offer \in {NoOffer} \cup OFFERS :
                   call' = [phase |-> "home", news |-> news, answer |-> answer, offer |-> offer]
        BY <2>2 DEF GetAgentHome
      <3> QED  BY <2>2, <3>1 DEF GetAgentHome
    <2>3. CASE GetAgentStatus
      BY <2>3 DEF GetAgentStatus
    <2>4. CASE CallWrite
      <3>1. PICK kind \in Kinds, answering \in BOOLEAN :
                call' = [phase |-> FirstRead(kind, answering),
                         kind |-> kind, answering |-> answering, posting |-> FALSE]
        BY <2>4 DEF CallWrite
      <3> QED  BY <2>4, <3>1 DEF CallWrite, FirstRead
    <2>5. CASE CheckHome
      <3>1. PICK answer \in WithOneWrong(HomeTruth(account, {})) :
                call' = IF Preflight(answer) = "go"
                        THEN [call EXCEPT !.phase = "authenticate",
                                          !.posting = /\ ~Suspended(account)
                                                      /\ account.left["post"] > 0]
                        ELSE [phase |-> "blocked", answer |-> answer]
        BY <2>5 DEF CheckHome
      <3>2. CASE Preflight(answer) = "go"
        <4>1. ~Suspended(account) /\ account.left["post"] > 0
          BY <3>2, PreflightGrounded
        <4>2. /\ call'.phase = "authenticate"
              /\ call'.posting = (~Suspended(account) /\ account.left["post"] > 0)
          BY <2>5, <3>1, <3>2 DEF CheckHome
        <4>3. call'.posting
          BY <4>1, <4>2
        <4> QED  BY <2>5, <4>2, <4>3 DEF CheckHome
      <3>3. CASE Preflight(answer) # "go"
        BY <2>5, <3>1, <3>3 DEF CheckHome
      <3> QED  BY <3>2, <3>3
    <2>6. CASE AuthenticateWrite
      <3>1. PICK answer \in WithOneWrong(StatusTruth(account)) :
                call' = IF MayWrite(answer)
                        THEN [phase |-> "cleared", kind |-> call.kind,
                              answering |-> call.answering, posting |-> call.posting,
                              usable |-> answer = StatusTruth(account)
                                             => account.standing \in Usable]
                        ELSE NoCall
        BY <2>6 DEF AuthenticateWrite
      <3>2. CASE MayWrite(answer)
        <4>1. answer = StatusTruth(account) => account.standing \in Usable
          BY <3>2, TruthSays DEF MayWrite, Says
        <4>2. /\ call'.phase = "cleared" /\ call'.kind = call.kind
              /\ call'.posting = call.posting
              /\ call'.usable = (answer = StatusTruth(account)
                                    => account.standing \in Usable)
          BY <3>1, <3>2
        <4>3. call'.usable
          BY <4>1, <4>2
        <4> QED  BY <2>6, <4>2, <4>3 DEF AuthenticateWrite
      <3>3. CASE ~MayWrite(answer)
        BY <2>6, <3>1, <3>3 DEF AuthenticateWrite, NoCall
      <3> QED  BY <3>2, <3>3
    <2>7. CASE ReadFails \/ Return
      BY <2>7 DEF ReadFails, Return, NoCall
    <2>8. CASE UNCHANGED vars
      BY <2>8 DEF vars
    <2> QED  BY <2>1, <2>2, <2>3, <2>4, <2>5, <2>6, <2>7, <2>8 DEF Next
  <1> QED  BY <1>1, <1>2, PTL DEF Spec

\* No write goes ahead on old facts or on one wrong field.
THEOREM PostsGrounded == Spec => []GoAheadGrounded
  <1>1. Inv => GoAheadGrounded
    BY DEF Inv, CallInv, GoAheadGrounded
  <1> QED  BY <1>1, InvHolds, PTL

\* An action is shown as callable exactly when the tool takes it.
THEOREM OffersAreCallable == Spec => []OffersCallable
  <1>1. Inv => OffersCallable
    BY HomeParameters, OfferedAsCalled DEF Inv, CallInv, OffersCallable, CallReady
  <1> QED  BY <1>1, InvHolds, PTL

\* What is shown of a right answer is the account, its constraints and its
\* capabilities; no single wrong field makes the constraints of a suspended agent
\* allow a write or keeps its suspension from status and escalations.
THEOREM HomeIsTruthful == Spec => []HomeTruthful
  <1>1. Inv => HomeTruthful
    <2> SUFFICES ASSUME Inv PROVE HomeTruthful
      OBVIOUS
    <2> USE DEF Inv, CallInv
    <2>1. CASE call.phase = "home"
      BY <2>1, HomeOfTruth, SameReading, SuspensionShown DEF HomeTruthful
    <2>2. CASE call.phase = "status"
      BY <2>2, StatusOfTruth, SuspensionStated DEF HomeTruthful
    <2>3. CASE call.phase = "blocked"
      BY <2>3, RefusalOfTruth DEF HomeTruthful
    <2>4. CASE call.phase \notin {"home", "status", "blocked"}
      BY <2>4 DEF HomeTruthful
    <2> QED  BY <2>1, <2>2, <2>3, <2>4
  <1> QED  BY <1>1, InvHolds, PTL

=============================================================================
