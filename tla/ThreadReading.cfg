SPECIFICATION Spec
CONSTANTS
    t1 = t1
    t2 = t2
    e1 = e1
    e2 = e2
    e3 = e3
    f1 = f1
    n1 = n1
    n2 = n2
    None = None
    Tool = {"get_post_comments", "get_comment_replies", "get_note_thread", "get_board_posts"}
    Dialect <- MCDialect
    Target <- MCTarget
    Entry <- MCEntry
    Home <- MCHome
    Before <- MCBefore
    Replies <- MCReplies
    SIZES = {1, 2}
    MaxPage = 2
INVARIANTS
    ViewGenuine
    SeenWhole
    ToldTruly
    UnseenStaysUnread
