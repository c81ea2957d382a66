\* Two questions in two rounds, one plugin with a finalizer, one reply, two
\* threads of the endpoints, two requeues, one exception or lost answer, one
\* restart.
SPECIFICATION FairSpec
CONSTANTS
    Question = {q1, q2}
    Plugin = {1}
    Thread = {x1, x2}
    MaxRounds = 2
    MaxComments = 1
    MaxRequeues = 2
    MaxFailures = 1
    MaxRestarts = 1
INVARIANTS
    IInv
    OwnerDecides
    QuestionsAreNew
PROPERTIES
    RepliesResume
    EndsAreReported
