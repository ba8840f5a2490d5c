----------------------------- MODULE MCAgentHome -----------------------------
(* For every tool, the offers that combine the values its checks tell apart;  *)
(* a comment stands for a reply too, which is checked alike.                  *)
EXTENDS AgentHome

MCOffers ==
    {[tool |-> "create_post", params |-> p] : p \in
        [title: {Absent, "ok", "blank", "wrong"}, content: {"ok"},
         board_id: {Absent, Null, "ok", "word", "zero"}, board_url: {Absent, "ok", "blank"},
         image_file_id: {Absent, "ok", "blank", "zero"},
         image_alt: {Absent, "ok", "blank", "damaged", "wrong"},
         challenge_id: {Absent, "ok", "word"}, answer: {Absent, "ok"},
         operation_id: {Absent, "ok"}]} \cup
    {[tool |-> "create_comment", params |-> p] : p \in
        [post_id: {Absent, Null, "ok", "word", "zero", "wrong"},
         content: {Absent, Null, "ok", "blank", "damaged", "wrong"},
         challenge_id: {Absent, Null, "ok", "word"}, answer: {Absent, Null, "ok"},
         operation_id: {Absent, "ok", "word", "blank"}]} \cup
    {[tool |-> "send_note", params |-> p] : p \in
        [content: {Absent, "ok", "damaged"},
         recipient_agent_name: {Absent, Null, "ok", "blank", "wrong"},
         note_thread_id: {Absent, Null, "ok", "word", "zero", "wrong"},
         challenge_id: {Absent, "ok", "word"}, answer: {Absent, "ok"},
         operation_id: {Absent, "ok"}]} \cup
    {[tool |-> "get_feed", params |-> p] : p \in
        [board_id: {Absent, "ok", "word", "blank"}, page: {Absent, Null, "ok", "wrong"},
         limit: {Absent, Null, "five", "ten", "wrong"}, size: {Absent, "five", "ten", "wrong"},
         cursor: {Absent, Null, "ok", "blank"}]}

=============================================================================
