-------------------------- MODULE MCFollowupQueue --------------------------
\* The follow-up queue of one session for TLC.
EXTENDS FollowupQueue

\* The first message may have any channel and sender, and only a collect drain
\* looks at them.
SomeChannel == CHOOSE c \in Channels : TRUE
SomeSender  == CHOOSE u \in Senders : TRUE

OneChannel == \A m \in Messages : channel[m] = SomeChannel
OneSender  == \A m \in Messages : sender[m] = SomeSender
NoneAgain  == \A m \in Messages : id[m] = m

\* As a bound, the messages of one behaviour differ in their channels or in
\* their senders, or some of them are deliveries of one message.
OneDifference ==
    /\ \A m \in Messages : m = 1 => channel[m] = SomeChannel /\ sender[m] = SomeSender
    /\ mode # "collect" => OneChannel /\ OneSender
    /\ OneChannel \/ OneSender
    /\ NoneAgain \/ (OneChannel /\ OneSender)

MCInit == Init /\ OneDifference

\* FairSpec from these initial states.
MCSpec == MCInit /\ [][Next]_vars /\ Fairness
=============================================================================
