------------------------------ MODULE MCFeeds -------------------------------
EXTENDS Feeds

hello == <<56, 53, 60, 60, 63>>
abc == <<49, 50, 51>>

\* what framing/client.cpp sends, and messages that look like frames
MCConversations ==
    {<<hello, abc \o <<52, 53>>, abc, hello, hello \o hello>>,
     <<<<1, 76, 2>>, <<76>>, [i \in 1 .. 12 |-> i % 3]>>}
=============================================================================
