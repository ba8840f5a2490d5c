----------------------------- MODULE ToolInputs -----------------------------
(***************************************************************************)
(* The actions a home answer offers and the checks the tools make when     *)
(* one of them is called.  The same rules exist twice: validate_action     *)
(* (tools/tool_contract.py) judges an offer without running anything, the  *)
(* tools' own first lines refuse a call.  Texts, identifiers and numbers   *)
(* are abstracted to the kinds of value those rules tell apart:            *)
(*   "ok"     a value every rule accepts (a decimal id, a clean text)      *)
(*   "five", "ten"   two page sizes in range                               *)
(*   "word"   an identifier that is no decimal number, no UUID             *)
(*   "zero"   an identifier of zeros only      "blank"  only white space   *)
(*   "damaged"  a text of a length or content that is not accepted         *)
(*   "wrong"  another type, or a number out of range                       *)
(***************************************************************************)
EXTENDS Naturals

CONSTANT SUPPORT          \* NOVIIS_OPERATION_SUPPORT

ASSUME SupportAssumption == SUPPORT \in BOOLEAN

Absent == "absent"        \* the parameter is not in the object
Null   == "null"          \* the parameter is an explicit null

Required == [create_post    |-> {"title", "content"},
             create_comment |-> {"post_id", "content"},
             send_note      |-> {"content"},
             get_feed       |-> {}]

Writes == {"create_post", "create_comment", "send_note"}

ChallengeParams == {"challenge_id", "answer", "operation_id"}

Params == [create_post    |-> {"title", "content", "board_id", "board_url",
                               "image_file_id", "image_alt"} \cup ChallengeParams,
           create_comment |-> {"post_id", "content"} \cup ChallengeParams,
           send_note      |-> {"content", "recipient_agent_name", "note_thread_id"}
                              \cup ChallengeParams,
           get_feed       |-> {"board_id", "limit", "cursor", "page", "size"}]

Tools == DOMAIN Params

Given(params, p) == params[p] \notin {Absent, Null}

----------------------------------------------------------------------------
(* What a single value has to be                                           *)

\* The argument model of the SDK: types, ranges and required parameters.
ArgumentModelAccepts(tool, p, value) ==
    /\ value # "wrong"
    /\ value \in {Absent, Null} => p \notin Required[tool]

\* validate_tool_inputs on one parameter; the tool's name adds rules of its own.
SharedAccepts(p, value, tool) ==
    \/ value \in {Absent, Null}
    \/ /\ value # "wrong"
       /\ p \in {"post_id", "board_id", "note_thread_id", "operation_id"} =>
              value \notin {"blank", "zero"}
       /\ p \in {"board_url", "recipient_agent_name", "cursor"} => value # "blank"
       /\ p = "operation_id" => value # "word"
       /\ p = "board_id" /\ tool = "create_post" => value # "word"

\* validate_write_text: only the alternative text may be blank.
TextAccepts(p, value) ==
    /\ p \in {"title", "content", "image_alt"} => value # "damaged"
    /\ p \in {"title", "content"} => value # "blank"

\* _normalize_image_file_id: blank is no image, anything but a positive number
\* is refused.
ImageAccepted(value) == value \notin {"word", "zero", "wrong"}
Image(value) == IF value \notin {Absent, Null, "blank"} /\ ImageAccepted(value)
                THEN value ELSE Null

\* note_send_target: exactly one target, a thread by its number.
NoteTargetAccepted(params) ==
    /\ Given(params, "recipient_agent_name") # Given(params, "note_thread_id")
    /\ Given(params, "note_thread_id") => params["note_thread_id"] = "ok"
    /\ Given(params, "recipient_agent_name") =>
           SharedAccepts("recipient_agent_name", params["recipient_agent_name"], "")

SizesAgree(params) ==
    Given(params, "limit") /\ Given(params, "size") => params["limit"] = params["size"]

FeedPageAccepted(params) ==
    /\ \A p \in {"limit", "page", "size"} : SharedAccepts(p, params[p], "get_feed")
    /\ ~Given(params, "cursor")
    /\ SizesAgree(params)

----------------------------------------------------------------------------
(* What validate_action says of an offered action                          *)

InvalidAlone(tool, params) ==
    {p \in Params[tool] :
        /\ params[p] # Absent
        /\ \/ ~ArgumentModelAccepts(tool, p, params[p])
           \/ ~SharedAccepts(p, params[p], tool)
           \/ tool \in Writes /\ ~TextAccepts(p, params[p])
           \/ p = "image_file_id" /\ ~ImageAccepted(params[p])}

BothTargets(params) ==
    IF Given(params, "board_id") /\ Given(params, "board_url")
    THEN {"board_id", "board_url"} ELSE {}

NoteTargets(params) ==
    IF NoteTargetAccepted(params) THEN {}
    ELSE {p \in {"recipient_agent_name", "note_thread_id"} : Given(params, p)}

FeedConflicts(params) ==
    (IF Given(params, "cursor") THEN {"cursor"} ELSE {}) \cup
    (IF SizesAgree(params) THEN {} ELSE {"limit", "size"})

Invalid(tool, params) ==
    InvalidAlone(tool, params) \cup
    CASE tool = "create_post" -> BothTargets(params)
      [] tool = "send_note"   -> NoteTargets(params)
      [] tool = "get_feed"    -> FeedConflicts(params)
      [] OTHER                -> {}

HalfPair(tool, params) ==
    {p \in {"challenge_id", "answer"} :
        /\ tool \in Writes
        /\ ~Given(params, p)
        /\ \E q \in {"challenge_id", "answer"} : Given(params, q)}

\* Fault: an alternative text is not known to need an image.
PostNeedsTarget(params) ==
    {p \in {"board_url"} :
        ~Given(params, "board_id") /\ params["board_url"] \in {Absent, Null}}

PostNeeds(params) ==
    {p \in {"board_url", "image_file_id"} :
        \/ p = "board_url" /\ ~Given(params, "board_id")
                           /\ params["board_url"] \in {Absent, Null}
        \/ p = "image_file_id" /\ params["image_alt"] \notin {Absent, Null, "blank", "wrong"}
                               /\ Image(params["image_file_id"]) = Null}

NoteNeeds(params) ==
    {p \in {"recipient_agent_name"} :
        ~Given(params, "recipient_agent_name") /\ ~Given(params, "note_thread_id")}

Missing(tool, params) ==
    {p \in Required[tool] : params[p] = Absent} \cup HalfPair(tool, params) \cup
    CASE tool = "create_post" -> PostNeeds(params)
      [] tool = "send_note"   -> NoteNeeds(params)
      [] OTHER                -> {}

Valid(tool, params) == Invalid(tool, params) = {}
InputComplete(tool, params) == Valid(tool, params) /\ Missing(tool, params) = {}

----------------------------------------------------------------------------
(* What the tool itself refuses before it asks the backend anything        *)

\* require_challenge_pair
ChallengePaired(params) == Given(params, "challenge_id") = Given(params, "answer")

\* check_operation_support, and write_operation_id for an answering call that
\* brings no operation: the challenge's id becomes the operation's.
OperationUsable(params) ==
    /\ Given(params, "operation_id") => SUPPORT
    /\ SUPPORT /\ Given(params, "challenge_id") /\ ~Given(params, "operation_id") =>
           params["challenge_id"] = "ok"

\* validate_post_board_target
BoardTargetAccepted(params) ==
    /\ Given(params, "board_id") # Given(params, "board_url")
    /\ \A p \in {"board_id", "board_url"} : SharedAccepts(p, params[p], "create_post")

ImageRule(params) ==
    /\ ImageAccepted(params["image_file_id"])
    /\ params["image_alt"] \notin {Absent, Null, "blank"} =>
           Image(params["image_file_id"]) # Null

Entered(tool, params) ==
    /\ \A p \in Params[tool] : /\ ArgumentModelAccepts(tool, p, params[p])
                               /\ SharedAccepts(p, params[p], "")
    /\ tool \in Writes =>
           /\ OperationUsable(params)
           /\ ChallengePaired(params)
           /\ \A p \in Params[tool] : TextAccepts(p, params[p])
    /\ tool = "create_post" => BoardTargetAccepted(params) /\ ImageRule(params)
    /\ tool = "send_note"   => NoteTargetAccepted(params)
    /\ tool = "get_feed"    => FeedPageAccepted(params)

----------------------------------------------------------------------------
(* What a caller does with the offer: it adds the inputs named as missing. *)

Filled(tool, params) ==
    [p \in Params[tool] |-> IF p \in Missing(tool, params) THEN "ok" ELSE params[p]]

=============================================================================
