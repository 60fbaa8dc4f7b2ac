------------------------------ MODULE MCAioPool ------------------------------
EXTENDS AioPool

\* More requests than threads; synchronous reads beside asynchronous requests;
\* callbacks that read synchronously, during such a read too; flushes; chains of
\* requests.
MCWorkloads == {
    [ops |-> {"submit", "cancel"}, requests |-> 3],
    [ops |-> {"submit", "read", "callback reads"}, requests |-> 2],
    [ops |-> {"read", "refused read", "callback reads", "callback follows up"},
     requests |-> 2],
    [ops |-> {"submit", "flush", "callback cancels"}, requests |-> 2],
    [ops |-> {"submit", "flush", "refused read", "callback follows up"},
     requests |-> 1]}
=============================================================================
