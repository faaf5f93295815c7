\* Two tasks contend for the gate; two prompts and two decisions, so that an
\* answer can belong to another prompt and can differ from an earlier one.
\* The user and the clock may never act again; scheduled tasks go on.
CONSTANTS
    t1 = t1
    t2 = t2
    p1 = p1
    p2 = p2
    accept = accept
    reject = reject
    Tasks <- TwoTasks
    Prompts <- TwoPrompts
    Decisions <- TwoDecisions
    NoDecision = NoDecision
    Emptied = Emptied
SPECIFICATION FairSpec
INVARIANT AnswerIsTheUsers
PROPERTY AnsweredWaitReturns
