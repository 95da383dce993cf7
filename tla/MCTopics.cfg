SPECIFICATION Spec
CONSTANTS
    s1 = s1
    s2 = s2
    s3 = s3
    t1 = t1
    t2 = t2
    NULL = NULL
    Sessions <- MCSessions
    TopicNames <- MCTopicNames
SYMMETRY Symmetry
INVARIANTS
    ListsMirror
    TopicsExact
    SafeTraversal
PROPERTY
    PubSubSpec
