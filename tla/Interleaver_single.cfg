\* one video and one audio track
SPECIFICATION Spec
CONSTANTS
    VideoTracks <- OneTrack
    AudioTracks <- OneTrack
    VideoTime = 4
    AudioTime = 5
    Lead = 4
    Gop = 3
    Origins <- AnyClocks
    MaxVideo = 8
    MaxAudio = 9
    MaxSessions = 2
\* the encoders stop at their bounds
CHECK_DEADLOCK FALSE
INVARIANTS TypeOK MonotonicDelivery NoGaps TimesMatch StartTogether
