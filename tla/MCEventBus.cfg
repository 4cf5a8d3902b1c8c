SPECIFICATION FairSpec
CONSTANTS
    inbox = inbox
    toasts = toasts
    engine = engine
    jobs = jobs
    worker = worker
    Coalesced = {inbox}
    Buffered = {toasts}
    Publishers = {engine, jobs, worker}
    Topics = {"state", "message"}
    TopicOf <- MCTopicOf
    QueueSize = 1
    Events <- MCEvents
CHECK_DEADLOCK FALSE
PROPERTIES
    EachInOrder
    CatchesUp
    PublishReturns
